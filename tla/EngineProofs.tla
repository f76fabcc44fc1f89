---------------------------- MODULE EngineProofs ----------------------------
(***************************************************************************)
(* The engine task, for every capacity, bound and id width.  One inductive *)
(* invariant, Inductive, carries all safety theorems: its step is proved   *)
(* per group of variables (the lemmas ...Step below), each with one case   *)
(* per action that touches the group, and the theorems follow from it.     *)
(***************************************************************************)
EXTENDS EngineProperties, SequenceTheorems, TLAPS

-----------------------------------------------------------------------------
(* What the operations of the scheduler return *)

(* An active refresh is never mistaken for the absent one. *)
LEMMA ActiveIsPresent == NoRefresh \notin ActiveRefresh
BY SchedulerAssumption DEF NoRefresh, ActiveRefresh

(* `SchedulerState::new` is a scheduler. *)
LEMMA NewType == NewScheduler \in Scheduler
BY SchedulerAssumption DEF NewScheduler, Scheduler, NoRefresh, NoCount

(* The id after any id is an id: the wrap-around never mints 0. *)
LEMMA IdAfterType ==
    ASSUME NEW id \in 1..MaxId
    PROVE  IdAfter(id) \in 1..MaxId
BY SchedulerAssumption DEF IdAfter

(* `start` makes the old next id active under the trigger and leaves no demand
   counted for a later start if that start is a manual one. *)
LEMMA StartType ==
    ASSUME NEW s \in Scheduler, NEW trigger \in Trigger
    PROVE  /\ Start(s, trigger) \in Scheduler
           /\ Start(s, trigger).active \in ActiveRefresh
           /\ Start(s, trigger).active.id = s.nextId
           /\ Start(s, trigger).active.trigger = trigger
           /\ Start(s, trigger).trailing = s.trailing
           /\ Start(s, trigger).pendingStart =
                 IF trigger = "Manual" THEN NoCount ELSE s.pendingStart
<1> DEFINE merged == IF trigger = "Manual" /\ s.pendingStart # NoCount
                     THEN s.pendingStart ELSE 0
           active == [id |-> s.nextId, trigger |-> trigger, merged |-> merged, ticks |-> 0]
<1>1. merged \in 0..MaxCount
    BY SchedulerAssumption DEF Scheduler, NoCount
<1>2. active \in ActiveRefresh
    BY <1>1, SchedulerAssumption DEF Scheduler, ActiveRefresh
<1>3. IdAfter(s.nextId) \in 1..MaxId
    BY IdAfterType DEF Scheduler
<1>4. NoCount \in 0..NoCount
    BY SchedulerAssumption DEF NoCount
<1>5. Start(s, trigger) =
        [s EXCEPT !.nextId = IdAfter(s.nextId), !.active = active,
                  !.pendingStart = IF trigger = "Manual" THEN NoCount ELSE s.pendingStart]
    BY Zenon DEF Start
<1>6. active.id = s.nextId /\ active.trigger = trigger
    OBVIOUS
<1> HIDE DEF active
<1> QED
    BY <1>2, <1>3, <1>4, <1>5, <1>6 DEF Scheduler

(* A batch that fits is counted; with a refresh active it also raises the
   trailing flag, and the active refresh stays the same one. *)
LEMMA RecordManualType ==
    ASSUME NEW s \in Scheduler, NEW n \in 1..MaxCount, BatchFits(s, n)
    PROVE  /\ RecordManual(s, n) \in Scheduler
           /\ s.active # NoRefresh =>
                 /\ RecordManual(s, n).trailing
                 /\ RecordManual(s, n).pendingStart = s.pendingStart
           /\ s.active = NoRefresh => RecordManual(s, n).trailing = s.trailing
           /\ RecordManual(s, n).active = NoRefresh <=> s.active = NoRefresh
           /\ RecordManual(s, n).active.id = s.active.id
           /\ RecordManual(s, n).active.trigger = s.active.trigger
<1>1. CASE s.active # NoRefresh
    <2>1. s.active \in ActiveRefresh
        BY <1>1 DEF Scheduler
    <2>2. [s.active EXCEPT !.merged = @ + n] \in ActiveRefresh
        BY <1>1, <2>1, SchedulerAssumption DEF ActiveRefresh, BatchFits
    <2>3. RecordManual(s, n) =
            [s EXCEPT !.active = [s.active EXCEPT !.merged = @ + n], !.trailing = TRUE]
        BY <1>1 DEF RecordManual, Scheduler
    <2>4. [s.active EXCEPT !.merged = @ + n] # NoRefresh
        BY <2>2, ActiveIsPresent
    <2> QED
        BY <1>1, <2>1, <2>2, <2>3, <2>4 DEF Scheduler, ActiveRefresh
<1>2. CASE s.active = NoRefresh
    <2>1. (IF s.pendingStart = NoCount THEN n - 1 ELSE s.pendingStart + n) \in 0..NoCount
        BY <1>2, SchedulerAssumption DEF BatchFits, Scheduler, NoCount
    <2> QED
        BY <1>2, <2>1 DEF RecordManual, Scheduler
<1> QED
    BY <1>1, <1>2

(* Absorbed demand is counted and changes nothing else. *)
LEMMA AbsorbManualType ==
    ASSUME NEW s \in Scheduler, NEW n \in 1..MaxCount, BatchFits(s, n)
    PROVE  /\ AbsorbManual(s, n) \in Scheduler
           /\ AbsorbManual(s, n).trailing = s.trailing
           /\ AbsorbManual(s, n).pendingStart = s.pendingStart
           /\ AbsorbManual(s, n).active = NoRefresh <=> s.active = NoRefresh
           /\ AbsorbManual(s, n).active.id = s.active.id
           /\ AbsorbManual(s, n).active.trigger = s.active.trigger
<1>1. CASE s.active # NoRefresh
    <2>1. s.active \in ActiveRefresh
        BY <1>1 DEF Scheduler
    <2>2. [s.active EXCEPT !.merged = @ + n] \in ActiveRefresh
        BY <1>1, <2>1, SchedulerAssumption DEF ActiveRefresh, BatchFits
    <2>3. AbsorbManual(s, n) = [s EXCEPT !.active = [s.active EXCEPT !.merged = @ + n]]
        BY <1>1 DEF AbsorbManual, Scheduler
    <2>4. [s.active EXCEPT !.merged = @ + n] # NoRefresh
        BY <2>2, ActiveIsPresent
    <2> QED
        BY <1>1, <2>1, <2>2, <2>3, <2>4 DEF Scheduler, ActiveRefresh
<1>2. CASE s.active = NoRefresh
    BY <1>2 DEF AbsorbManual
<1> QED
    BY <1>1, <1>2

(* An elapsed deadline is counted and changes nothing else. *)
LEMMA RecordPeriodicType ==
    ASSUME NEW s \in Scheduler
    PROVE  /\ RecordPeriodic(s) \in Scheduler
           /\ RecordPeriodic(s).trailing = s.trailing
           /\ RecordPeriodic(s).pendingStart = s.pendingStart
           /\ RecordPeriodic(s).active = NoRefresh <=> s.active = NoRefresh
           /\ RecordPeriodic(s).active.id = s.active.id
           /\ RecordPeriodic(s).active.trigger = s.active.trigger
<1>1. CASE s.active # NoRefresh
    <2> DEFINE counted == [s.active EXCEPT !.ticks = IF @ = MaxCount THEN @ ELSE @ + 1]
    <2>1. s.active \in ActiveRefresh
        BY <1>1 DEF Scheduler
    <2>2. counted \in ActiveRefresh
        BY <2>1, SchedulerAssumption DEF ActiveRefresh
    <2>3. RecordPeriodic(s) = [s EXCEPT !.active = counted]
        BY <1>1 DEF RecordPeriodic, Scheduler
    <2>4. counted # NoRefresh
        BY <2>2, ActiveIsPresent
    <2> QED
        BY <1>1, <2>1, <2>2, <2>3, <2>4 DEF Scheduler, ActiveRefresh
<1>2. CASE s.active = NoRefresh
    BY <1>2 DEF RecordPeriodic
<1> QED
    BY <1>1, <1>2

(* Completing or cancelling leaves the scheduler idle and the ids alone. *)
LEMMA RetireType ==
    ASSUME NEW s \in Scheduler
    PROVE  /\ Retire(s) \in Scheduler
           /\ Retire(s).active = NoRefresh
           /\ ~Retire(s).trailing
           /\ Retire(s).pendingStart = s.pendingStart
BY DEF Retire, Scheduler

-----------------------------------------------------------------------------

(***************************************************************************)
(* The inductive strengthening.  The properties talk about pc, the lanes   *)
(* and the history; why they hold lies in what each await may assume of    *)
(* the scheduler, of the work in the task's hands, of the timer and of the *)
(* view of the firewall.                                                   *)
(***************************************************************************)

BetweenReads == {"Top", "Idle", "Execute", "Reconcile", "Urgent"}
Reconciling == {"Absorb", "AbsorbManual", "Mandatory", "Boundary", "Preempt"}

(* Which refresh is active at each await. *)
SchedulerFollows ==
    /\ scheduler.pendingStart = NoCount
    /\ pc \in BetweenReads => scheduler.active = NoRefresh /\ ~scheduler.trailing
    /\ pc \in Reconciling \cup {"Ordinary"} =>
          /\ scheduler.active # NoRefresh
          /\ startId = scheduler.active.id
          /\ scheduler.active.trigger = "PostMutation" <=> pc # "Ordinary"

(* What the task holds at each await. *)
HandsFollow ==
    /\ pc \in {"Idle", "Ordinary"} =>
          pendingRequests = <<>> /\ nextWork = NoWork /\ nextTrigger = "None"
    /\ pc \notin {"Top", "Stopped"} => nextWork.kind # "Rollback"
    /\ pc \notin {"AbsorbManual", "Boundary", "Preempt", "Stopped"} => quota = 0
    /\ pc = "Execute" => work # NoWork
    /\ UrgentInHand => work.kind = "Rollback"

(* Something will always start the next refresh. *)
WakeFollows ==
    /\ pc = "Idle" => armed
    /\ pc = "Top" => armed \/ nextWork # NoWork \/ nextTrigger # "None"
    /\ due => armed

(* Where the view of the firewall may be out of date. *)
ViewFollows ==
    /\ pc \in {"Top", "Idle", "Ordinary"} => ~unreconciled /\ ~trailingManual
    /\ pc \in Reconciling \cup {"Execute", "Reconcile"} => unreconciled

Control == SchedulerFollows /\ HandsFollow /\ WakeFollows /\ ViewFollows

(* What moving requests from the lane to `pending_requests` does to each. *)
LEMMA MoveProperties ==
    ASSUME NEW S, requests \in Seq(S), pendingRequests \in Seq(S),
           Len(pendingRequests) <= RequestCapacity, MoveRequests
    PROVE  /\ Movable \in 0..Len(requests)
           /\ pendingRequests' \in Seq(S)
           /\ Len(pendingRequests') = Len(pendingRequests) + Movable
           /\ Len(pendingRequests') <= RequestCapacity
           /\ requests' \in Seq(S)
           /\ Len(requests') = Len(requests) - Movable
           /\ \A i \in 1..Len(pendingRequests') : pendingRequests'[i] =
                 IF i <= Len(pendingRequests) THEN pendingRequests[i]
                 ELSE requests[i - Len(pendingRequests)]
           /\ \A i \in 1..Len(requests') : requests'[i] = requests[Movable + i]
<1> DEFINE moved == SubSeq(requests, 1, Movable)
           kept == SubSeq(requests, Movable + 1, Len(requests))
<1>1. Len(requests) \in Nat /\ Len(pendingRequests) \in Nat
    BY LenProperties
<1>2. /\ Movable \in 0..Len(requests)
      /\ Len(pendingRequests) + Movable <= RequestCapacity
    BY <1>1, EngineAssumption DEF Movable, Room
<1> HIDE DEF Movable
<1>3. \A i \in 1..Len(requests) : requests[i] \in S
    BY ElementOfSeq
<1>4. /\ moved \in Seq(S)
      /\ Len(moved) = Movable
      /\ \A i \in 1..Movable : moved[i] = requests[i]
    <2>1. /\ moved \in Seq(S)
          /\ Len(moved) = IF 1 <= Movable THEN Movable - 1 + 1 ELSE 0
          /\ \A i \in 1..(Movable - 1 + 1) : moved[i] = requests[1 + i - 1]
        BY <1>1, <1>2, <1>3, SubSeqProperties
    <2> QED
        BY <2>1, <1>2
<1>5. /\ kept \in Seq(S)
      /\ Len(kept) = Len(requests) - Movable
      /\ \A i \in 1..(Len(requests) - Movable) : kept[i] = requests[Movable + i]
    <2>1. /\ kept \in Seq(S)
          /\ Len(kept) = IF Movable + 1 <= Len(requests)
                         THEN Len(requests) - (Movable + 1) + 1 ELSE 0
          /\ \A i \in 1..(Len(requests) - (Movable + 1) + 1) :
                kept[i] = requests[Movable + 1 + i - 1]
        BY <1>1, <1>2, <1>3, SubSeqProperties
    <2> QED
        BY <2>1, <1>1, <1>2
<1> HIDE DEF moved, kept
<1>6. pendingRequests' = pendingRequests \o moved /\ requests' = kept
    BY DEF MoveRequests, moved, kept
<1>7. /\ pendingRequests \o moved \in Seq(S)
      /\ Len(pendingRequests \o moved) = Len(pendingRequests) + Movable
      /\ \A i \in 1..(Len(pendingRequests) + Movable) : (pendingRequests \o moved)[i] =
            IF i <= Len(pendingRequests) THEN pendingRequests[i]
            ELSE moved[i - Len(pendingRequests)]
    BY <1>4, ConcatProperties
<1>8. \A i \in 1..Len(pendingRequests') : pendingRequests'[i] =
         IF i <= Len(pendingRequests) THEN pendingRequests[i]
         ELSE requests[i - Len(pendingRequests)]
    <2>1. SUFFICES ASSUME NEW i \in 1..(Len(pendingRequests) + Movable),
                          ~(i <= Len(pendingRequests))
                   PROVE  moved[i - Len(pendingRequests)] = requests[i - Len(pendingRequests)]
        BY <1>6, <1>7
    <2>2. i - Len(pendingRequests) \in 1..Movable
        BY <2>1, <1>1, <1>2
    <2> QED
        BY <2>2, <1>4
<1>9. \A i \in 1..Len(requests') : requests'[i] = requests[Movable + i]
    BY <1>5, <1>6
<1>10. pendingRequests' \in Seq(S) /\ requests' \in Seq(S)
    BY <1>5, <1>6, <1>7
<1>11. /\ Len(pendingRequests') = Len(pendingRequests) + Movable
       /\ Len(requests') = Len(requests) - Movable
    BY <1>5, <1>6, <1>7
<1> QED
    BY <1>2, <1>8, <1>9, <1>10, <1>11

-----------------------------------------------------------------------------

(* No step takes a lane or `pending_requests` beyond its capacity. *)
LEMMA LanesStep ==
    ASSUME TypeOK, HandsFollow, [Next]_vars
    PROVE  LanesTyped'
<1> USE EngineAssumption
<1> USE DEF lanes, control, reading, timer, history, interface, engineOnly, uiUnchanged
<1> SUFFICES ASSUME Next PROVE LanesTyped'
    BY DEF vars, TypeOK, LanesTyped
<1>q. LanesTyped /\ quota \in Nat
    BY LenProperties DEF TypeOK, LanesTyped
<1>1. CASE UNCHANGED <<requests, manual, rollbacks, pendingRequests, quota>>
    BY <1>1, <1>q DEF LanesTyped
<1>2. CASE TakeQueuedRollback \/ IdleRollback \/ OrdinaryRollback
    <2>1. /\ rollbacks # <<>> /\ rollbacks' = Tail(rollbacks)
          /\ UNCHANGED <<requests, manual, pendingRequests, quota>>
        BY <1>2 DEF TakeQueuedRollback, IdleRollback, OrdinaryRollback, RollbackReady, Preempt
    <2> QED
        BY <2>1, <1>q, HeadTailProperties DEF LanesTyped
<1>3. CASE TakePendingRequest
    <2>1. /\ pendingRequests # <<>> /\ pendingRequests' = Tail(pendingRequests)
          /\ UNCHANGED <<requests, manual, rollbacks, quota>>
        BY <1>3 DEF TakePendingRequest
    <2> QED
        BY <2>1, <1>q, HeadTailProperties DEF LanesTyped
<1>4. CASE IdleRequest \/ OrdinaryRequest
    <2>1. /\ requests # <<>> /\ requests' = Tail(requests)
          /\ UNCHANGED <<rollbacks, manual, pendingRequests, quota>>
        BY <1>4 DEF IdleRequest, OrdinaryRequest, RequestReady, Preempt
    <2> QED
        BY <2>1, <1>q, HeadTailProperties DEF LanesTyped
<1>5. CASE IdleManual \/ OrdinaryManual \/ MandatoryManual
    <2>1. /\ manual # <<>> /\ manual' = Tail(manual) /\ quota = 0
          /\ UNCHANGED <<requests, rollbacks, pendingRequests, quota>>
        BY <1>5 DEF IdleManual, OrdinaryManual, MandatoryManual, ManualReady, ReceiveManual,
                    HandsFollow, Live, At
    <2> QED
        BY <2>1, <1>q, HeadTailProperties, LenProperties DEF LanesTyped
<1>6. CASE AbsorbBatch \/ DrainBatch
    <2>1. /\ quota > 0 /\ manual' = Tail(manual) /\ quota' = quota - 1
          /\ UNCHANGED <<requests, rollbacks, pendingRequests>>
        BY <1>6 DEF AbsorbBatch, DrainBatch, ReceiveManual
    <2>2. manual # <<>>
        BY <2>1, <1>q, EmptySeq DEF LanesTyped
    <2> QED
        BY <2>1, <2>2, <1>q, HeadTailProperties, LenProperties DEF LanesTyped
<1>7. CASE AbsorbBegin \/ MandatoryReadDone
    <2>1. /\ quota' \in {quota, Len(manual)}
          /\ UNCHANGED <<requests, manual, rollbacks, pendingRequests>>
        BY <1>7 DEF AbsorbBegin, MandatoryReadDone
    <2> QED
        BY <2>1, <1>q, LenProperties DEF LanesTyped
<1>8. CASE AbsorbRequests
    <2>1. MoveRequests /\ UNCHANGED <<manual, rollbacks, quota>>
        BY <1>8 DEF AbsorbRequests
    <2>2. /\ pendingRequests' \in Seq(1..MaxRequests)
          /\ Len(pendingRequests') <= RequestCapacity
          /\ requests' \in Seq(1..MaxRequests)
          /\ Len(requests') = Len(requests) - Movable
          /\ Movable \in 0..Len(requests)
        BY <2>1, <1>q, MoveProperties DEF LanesTyped
    <2>3. Len(requests) \in Nat /\ Len(requests) <= RequestCapacity
        BY <1>q, LenProperties DEF LanesTyped
    <2>4. Len(requests') <= RequestCapacity
        BY <2>2, <2>3
    <2> QED
        BY <2>1, <2>2, <2>4, <1>q DEF LanesTyped
<1>9. CASE MandatoryRollback
    <2>1. /\ rollbacks # <<>> /\ rollbacks' = Tail(rollbacks)
          /\ quota' \in {quota, Len(manual)}
          /\ UNCHANGED <<requests, manual, pendingRequests>>
        BY <1>9 DEF MandatoryRollback, RollbackReady
    <2> QED
        BY <2>1, <1>q, HeadTailProperties, LenProperties DEF LanesTyped
<1>10. CASE MandatoryRequest
    <2>1. /\ requests # <<>> /\ requests' = Tail(requests)
          /\ Len(pendingRequests) < RequestCapacity
          /\ pendingRequests' = Append(pendingRequests, Head(requests))
          /\ UNCHANGED <<rollbacks, manual, quota>>
        BY <1>10 DEF MandatoryRequest, RequestReady
    <2> QED
        <3>1. /\ Head(requests) \in 1..MaxRequests
              /\ Tail(requests) \in Seq(1..MaxRequests)
              /\ Len(Tail(requests)) = Len(requests) - 1
            BY <2>1, <1>q, HeadTailProperties DEF LanesTyped
        <3>2. /\ Append(pendingRequests, Head(requests)) \in Seq(1..MaxRequests)
              /\ Len(Append(pendingRequests, Head(requests))) = Len(pendingRequests) + 1
            BY <3>1, <1>q, AppendProperties DEF LanesTyped
        <3>3. Len(requests) \in Nat /\ Len(pendingRequests) \in Nat
            BY <1>q, LenProperties DEF LanesTyped
        <3>4. Len(requests') <= RequestCapacity
            <4>1. Len(requests') = Len(requests) - 1
                BY <2>1, <3>1
            <4>2. Len(requests) <= RequestCapacity
                BY <1>q DEF LanesTyped
            <4> QED
                BY <4>1, <4>2, <3>3
        <3>5. Len(pendingRequests') <= RequestCapacity
            <4>1. Len(pendingRequests') = Len(pendingRequests) + 1
                BY <2>1, <3>2
            <4> QED
                BY <4>1, <2>1, <3>3
        <3> QED
            BY <2>1, <3>1, <3>2, <3>4, <3>5, <1>q DEF LanesTyped
<1>11. CASE CompleteReconciliation
    <2>1. /\ MoveRequests /\ UNCHANGED <<manual, quota>>
          /\ \/ rollbacks # <<>> /\ rollbacks' = Tail(rollbacks)
             \/ UNCHANGED rollbacks
        BY <1>11 DEF CompleteReconciliation, RollbackReady
    <2> QED
        <3>1. /\ pendingRequests' \in Seq(1..MaxRequests)
              /\ Len(pendingRequests') <= RequestCapacity
              /\ requests' \in Seq(1..MaxRequests)
              /\ Len(requests') <= RequestCapacity
            <4>1. MoveRequests
                BY <2>1
            <4>2. /\ pendingRequests' \in Seq(1..MaxRequests)
                  /\ Len(pendingRequests') <= RequestCapacity
                  /\ requests' \in Seq(1..MaxRequests)
                  /\ Len(requests') = Len(requests) - Movable
                  /\ Movable \in 0..Len(requests)
                BY <4>1, <1>q, MoveProperties DEF LanesTyped
            <4>3. Len(requests) \in Nat /\ Len(requests) <= RequestCapacity
                BY <1>q, LenProperties DEF LanesTyped
            <4> QED
                BY <4>2, <4>3
        <3>2. rollbacks' \in Seq(1..MaxRollbacks) /\ Len(rollbacks') <= RollbackCapacity
            <4>1. CASE rollbacks # <<>> /\ rollbacks' = Tail(rollbacks)
                BY <4>1, <1>q, HeadTailProperties, LenProperties DEF LanesTyped
            <4>2. CASE UNCHANGED rollbacks
                BY <4>2, <1>q DEF LanesTyped
            <4> QED
                BY <2>1, <4>1, <4>2
        <3> QED
            BY <2>1, <3>1, <3>2, <1>q DEF LanesTyped
<1>12. CASE UiSendRequest
    <2>1. /\ Len(requests) < RequestCapacity /\ requestsSent + 1 \in 1..MaxRequests
          /\ requests' = Append(requests, requestsSent + 1)
          /\ UNCHANGED <<rollbacks, manual, pendingRequests, quota>>
        BY <1>12 DEF UiSendRequest, TypeOK, CountersTyped
    <2> QED
        BY <2>1, <1>q, AppendProperties, LenProperties DEF LanesTyped
<1>13. CASE UiSendRollback
    <2>1. /\ Len(rollbacks) < RollbackCapacity /\ rollbacksSent + 1 \in 1..MaxRollbacks
          /\ rollbacks' = Append(rollbacks, rollbacksSent + 1)
          /\ UNCHANGED <<requests, manual, pendingRequests, quota>>
        BY <1>13 DEF UiSendRollback, TypeOK, CountersTyped
    <2> QED
        BY <2>1, <1>q, AppendProperties, LenProperties DEF LanesTyped
<1>14. CASE UiSendManual
    <2>1. PICK batch \in ManualBatch :
             /\ Len(manual) < ManualCapacity /\ manual' = Append(manual, batch)
             /\ UNCHANGED <<requests, rollbacks, pendingRequests, quota>>
        BY <1>14 DEF UiSendManual, ManualBatch
    <2> QED
        BY <2>1, <1>q, AppendProperties, LenProperties DEF LanesTyped
<1>15. CASE SendEvent \/ SendFails \/ Shutdown \/ TakeHeldRollback \/ TakeHeldRequest
            \/ StartTriggered \/ GoIdle \/ IdlePeriodic \/ OrdinaryPeriodic \/ OrdinaryOverview
            \/ OrdinaryReadDone
    BY <1>15, <1>1 DEF SendEvent, SendFails, Shutdown, TakeHeldRollback, TakeHeldRequest,
            StartTriggered, GoIdle, IdlePeriodic, OrdinaryPeriodic, TickActive,
            OrdinaryOverview, ReadOverview, OrdinaryReadDone
<1>16. CASE Execution \/ BeginReconciliation \/ MandatoryOverview \/ MandatoryPeriodic
            \/ CancelReconciliation \/ ExecuteUrgent
    BY <1>16, <1>1 DEF Execution, ExecuteSingle, PlanRejected, PlanOperationApplied, PlanHalted,
            PlanCompleted, Executed, BeginReconciliation, MandatoryOverview, ReadOverview,
            MandatoryPeriodic, TickActive, CancelReconciliation, ExecuteUrgent
<1>17. CASE UiConsumeEvent \/ UiClose \/ TimerElapses \/ Terminated
    BY <1>17, <1>1 DEF UiConsumeEvent, UiClose, TimerElapses, Terminated, vars
<1> QED
    BY <1>2, <1>3, <1>4, <1>5, <1>6, <1>7, <1>8, <1>9, <1>10, <1>11, <1>12, <1>13, <1>14,
       <1>15, <1>16, <1>17
       DEF Next, EngineStep, Loop, OrdinaryRefresh, Reconciliation, Environment

-----------------------------------------------------------------------------

(* An event about an active refresh, and one about work, are events. *)
LEMMA RefreshEventType ==
    ASSUME NEW type \in RefreshEvents, NEW active \in ActiveRefresh
    PROVE  RefreshEvent(type, active) \in Event
BY DEF RefreshEvent, Event, ActiveRefresh

LEMMA WorkEventType ==
    ASSUME NEW type \in WorkEvents, NEW id \in Nat
    PROVE  WorkEvent(type, id) \in Event
BY DEF WorkEvent, Event

(* `scheduler.start` on an idle scheduler succeeds and is announced. *)
LEMMA BeginRefreshProperties ==
    ASSUME NEW s \in Scheduler, NEW trigger \in Trigger, NEW status, NEW goto,
           s.active = NoRefresh, BeginRefresh(s, trigger, status, goto)
    PROVE  /\ scheduler' = Start(s, trigger)
           /\ startId' = s.nextId
           /\ sending' \in Seq(Event)
           /\ watch' = Serve(status)
           /\ pc' = goto
<1>1. [type |-> "RefreshStarted", id |-> s.nextId, trigger |-> trigger] \in Event
    BY DEF Event, RefreshEvents, Scheduler
<1>2. /\ scheduler' = Start(s, trigger)
      /\ startId' = s.nextId
      /\ sending' = <<[type |-> "RefreshStarted", id |-> s.nextId, trigger |-> trigger]>>
      /\ watch' = Serve(status)
      /\ pc' = goto
    BY Zenon DEF BeginRefresh, CanStart
<1> QED
    BY <1>1, <1>2

(* The batch at the head of the manual lane. *)
LEMMA HeadBatch ==
    ASSUME manual \in Seq(ManualBatch), manual # <<>>
    PROVE  /\ Head(manual) \in ManualBatch
           /\ Head(manual).count \in 1..MaxCount
           /\ Head(manual).count \in Nat
<1>1. Head(manual) \in ManualBatch
    BY HeadTailProperties
<1>2. Head(manual).count \in 1..MaxBatch
    BY <1>1 DEF ManualBatch
<1> QED
    BY <1>1, <1>2, EngineAssumption, SchedulerAssumption

(* A manual batch at the head of the lane is counted or refused.  With a refresh
   active it raises the trailing flag; a task that has counted nothing never
   refuses one while it is idle. *)
LEMMA ReceiveManualProperties ==
    ASSUME scheduler \in Scheduler, manual \in Seq(ManualBatch), manual # <<>>,
           ReceiveManual
    PROVE  /\ Head(manual) \in ManualBatch
           /\ Head(manual).count \in 1..MaxCount
           /\ scheduler' \in Scheduler
           /\ sending' \in Seq(Event)
           /\ scheduler'.active = NoRefresh <=> scheduler.active = NoRefresh
           /\ scheduler'.active.id = scheduler.active.id
           /\ scheduler'.active.trigger = scheduler.active.trigger
           /\ scheduler.active # NoRefresh => scheduler'.pendingStart = scheduler.pendingStart
           /\ scheduler.active # NoRefresh /\ scheduler.trailing => scheduler'.trailing
           /\ scheduler.active # NoRefresh /\ watch' = "owed"
                => scheduler'.trailing \/ watch' = watch
<1> USE EngineAssumption, SchedulerAssumption
<1>1. Head(manual) \in ManualBatch
    BY HeadBatch
<1>2. Head(manual).count \in 1..MaxCount
    BY HeadBatch
<1> DEFINE n == Head(manual).count
<1>3. WorkEvent("ManualDemandRejected", n) \in Event
    BY <1>2, WorkEventType DEF WorkEvents
<1> HIDE DEF n
<1>4. CASE BatchFits(scheduler, n)
    <2>1. scheduler' = RecordManual(scheduler, n) /\ sending' = <<>>
        BY <1>4 DEF ReceiveManual, n
    <2>2. n \in 1..MaxCount
        BY <1>2 DEF n
    <2>3. /\ RecordManual(scheduler, n) \in Scheduler
          /\ scheduler.active # NoRefresh =>
                /\ RecordManual(scheduler, n).trailing
                /\ RecordManual(scheduler, n).pendingStart = scheduler.pendingStart
          /\ RecordManual(scheduler, n).active = NoRefresh <=> scheduler.active = NoRefresh
          /\ RecordManual(scheduler, n).active.id = scheduler.active.id
          /\ RecordManual(scheduler, n).active.trigger = scheduler.active.trigger
        BY <1>4, <2>2, RecordManualType
    <2> QED
        BY <1>1, <1>2, <2>1, <2>3
<1>5. CASE ~BatchFits(scheduler, n)
    <2>1. /\ scheduler' = scheduler
          /\ sending' = <<WorkEvent("ManualDemandRejected", n)>>
          /\ watch' = Becomes(Head(manual), "rejected")
        BY <1>5 DEF ReceiveManual, n
    <2>2. sending' \in Seq(Event)
        BY <2>1, <1>3
    <2>3. watch' # "owed" \/ watch' = watch
        BY <2>1 DEF Becomes
    <2> QED
        BY <1>1, <1>2, <2>1, <2>2, <2>3
<1> QED
    BY <1>4, <1>5

(* Every event that enters the channel is one, and the channel never holds more
   than its capacity. *)
LEMMA EventsStep ==
    ASSUME TypeOK, SchedulerFollows, [Next]_vars
    PROVE  EventsTyped'
<1> USE EngineAssumption, SchedulerAssumption
<1> USE DEF lanes, control, reading, timer, history, interface, engineOnly, uiUnchanged
<1> SUFFICES ASSUME Next PROVE EventsTyped'
    BY DEF vars, TypeOK, EventsTyped
<1>q. /\ EventsTyped
      /\ scheduler \in Scheduler
      /\ scheduler.active # NoRefresh => scheduler.active \in ActiveRefresh
      /\ nextTrigger # "None" => nextTrigger \in Trigger
      /\ manual \in Seq(ManualBatch)
    BY DEF TypeOK, EventsTyped, RefreshTyped, LanesTyped, Trigger, Scheduler
<1>a. ASSUME NEW type \in RefreshEvents, scheduler.active # NoRefresh
      PROVE  RefreshEvent(type, scheduler.active) \in Event
    BY <1>a, <1>q, RefreshEventType
<1>s. ASSUME UNCHANGED events, sending' \in Seq(Event)
      PROVE  EventsTyped'
    BY <1>s, <1>q DEF EventsTyped
<1>o. ASSUME NEW e \in Event, UNCHANGED events, sending' = <<e>>
      PROVE  EventsTyped'
    <2>1. <<e>> \in Seq(Event)
        OBVIOUS
    <2> QED
        BY <2>1, <1>o, <1>s
<1>1. CASE UNCHANGED <<events, sending>>
    BY <1>1, <1>q DEF EventsTyped
<1>2. CASE SendEvent
    <2>1. /\ Head(sending) \in Event /\ Tail(sending) \in Seq(Event)
        BY <1>2, <1>q, HeadTailProperties DEF SendEvent, EventsTyped
    <2>2. /\ Append(events, Head(sending)) \in Seq(Event)
          /\ Len(Append(events, Head(sending))) = Len(events) + 1
        BY <2>1, <1>q, AppendProperties DEF EventsTyped
    <2> QED
        BY <1>2, <2>1, <2>2, <1>q, LenProperties DEF SendEvent, EventsTyped
<1>3. CASE SendFails
    BY <1>3, <1>s DEF SendFails
<1>4. CASE StartTriggered
    <2>1. /\ BeginRefresh(scheduler, nextTrigger, watch, "Ordinary") /\ UNCHANGED events
          /\ scheduler.active = NoRefresh
          /\ nextTrigger \in Trigger
        BY <1>4, <1>q DEF StartTriggered, SchedulerFollows, BetweenReads, Reconciling, Live, At
    <2> QED
        BY <2>1, <1>q, <1>s, BeginRefreshProperties
<1>5. CASE IdleManual
    <2>1. /\ scheduler.active = NoRefresh /\ manual # <<>> /\ UNCHANGED events
          /\ sending = <<>>
        BY <1>5 DEF IdleManual, SchedulerFollows, BetweenReads, Reconciling, Live, At, ManualReady
    <2>2. CASE ReceiveManual
        BY <2>1, <2>2, <1>q, <1>s, ReceiveManualProperties
    <2>3. CASE sending' = sending
        BY <2>1, <2>3, <1>s
    <2>4. CASE /\ BatchFits(scheduler, Head(manual).count)
               /\ BeginRefresh(RecordManual(scheduler, Head(manual).count), "Manual",
                               Becomes(Head(manual), "owed"), "Ordinary")
        <3>1. Head(manual).count \in 1..MaxCount
            BY <2>1, <1>q, HeadBatch
        <3> DEFINE n == Head(manual).count
        <3> HIDE DEF n
        <3>2. RecordManual(scheduler, n) \in Scheduler /\ RecordManual(scheduler, n).active = NoRefresh
            BY <2>1, <2>4, <3>1, <1>q, RecordManualType DEF n
        <3>3. sending' \in Seq(Event)
            BY <3>2, <2>4, BeginRefreshProperties DEF Trigger, n
        <3> QED
            BY <3>3, <2>1, <1>s
    <2> QED
        BY <1>5, <2>2, <2>3, <2>4, Zenon DEF IdleManual
<1>6. CASE IdlePeriodic
    <2>1. /\ UNCHANGED events /\ sending = <<>> /\ scheduler.active = NoRefresh
          /\ \/ sending' = sending
             \/ BeginRefresh(scheduler, "Periodic", watch, "Ordinary")
        BY <1>6, Zenon DEF IdlePeriodic, Live, At, SchedulerFollows, BetweenReads, Reconciling
    <2>2. CASE sending' = sending
        BY <2>1, <2>2, <1>s
    <2>3. CASE BeginRefresh(scheduler, "Periodic", watch, "Ordinary")
        <3>1. sending' \in Seq(Event)
            BY <2>1, <2>3, <1>q, BeginRefreshProperties DEF Trigger
        <3> QED
            BY <3>1, <2>1, <1>s
    <2> QED
        BY <2>1, <2>2, <2>3
<1>7. CASE BeginReconciliation
    <2>1. /\ BeginRefresh(scheduler, "PostMutation", watch, "Absorb") /\ UNCHANGED events
          /\ scheduler.active = NoRefresh
        BY <1>7 DEF BeginReconciliation, SchedulerFollows, BetweenReads, Reconciling, At
    <2> QED
        BY <2>1, <1>q, <1>s, BeginRefreshProperties DEF Trigger
<1>8. CASE OrdinaryManual \/ MandatoryManual \/ DrainBatch
    <2>1. UNCHANGED events /\ ReceiveManual /\ manual # <<>>
        BY <1>8, EmptySeq DEF OrdinaryManual, MandatoryManual, DrainBatch, ManualReady,
                    TypeOK, LanesTyped
    <2> QED
        BY <2>1, <1>q, <1>s, ReceiveManualProperties
<1>9. CASE OrdinaryRollback \/ OrdinaryRequest
    <2>1. \E w : Preempt(w) /\ sending = <<>> /\ scheduler.active # NoRefresh
        BY <1>9 DEF OrdinaryRollback, OrdinaryRequest, Live, At, SchedulerFollows, BetweenReads, Reconciling
    <2>2. /\ UNCHANGED events
          /\ \/ sending' = sending
             \/ sending' = <<RefreshEvent("RefreshCancelled", scheduler.active)>>
        BY <2>1 DEF Preempt
    <2>3. RefreshEvent("RefreshCancelled", scheduler.active) \in Event
        BY <2>1, <1>a DEF RefreshEvents
    <2>4. CASE sending' = sending
        BY <2>2, <2>4, <1>1
    <2>5. CASE sending' = <<RefreshEvent("RefreshCancelled", scheduler.active)>>
        BY <2>2, <2>3, <2>5, <1>o
    <2> QED
        BY <2>2, <2>4, <2>5
<1>10. CASE OrdinaryReadDone \/ CancelReconciliation \/ CompleteReconciliation
    <2>1. /\ UNCHANGED events
          /\ \/ sending' = sending
             \/ sending' = <<RefreshEvent("RefreshCancelled", scheduler.active)>>
             \/ sending' = <<RefreshEvent("RefreshFinished", scheduler.active)>>
        BY <1>10, Zenon DEF OrdinaryReadDone, CancelReconciliation, CompleteReconciliation
    <2>2. scheduler.active # NoRefresh
        BY <1>10 DEF OrdinaryReadDone, CancelReconciliation, CompleteReconciliation,
                     Live, At, SchedulerFollows, BetweenReads, Reconciling
    <2>3. /\ RefreshEvent("RefreshCancelled", scheduler.active) \in Event
          /\ RefreshEvent("RefreshFinished", scheduler.active) \in Event
        BY <2>2, <1>a DEF RefreshEvents
    <2>4. CASE sending' = sending
        BY <2>1, <2>4, <1>1
    <2>5. CASE sending' = <<RefreshEvent("RefreshCancelled", scheduler.active)>>
        BY <2>1, <2>3, <2>5, <1>o
    <2>6. CASE sending' = <<RefreshEvent("RefreshFinished", scheduler.active)>>
        BY <2>1, <2>3, <2>6, <1>o
    <2> QED
        BY <2>1, <2>4, <2>5, <2>6
<1>11. CASE OrdinaryOverview \/ MandatoryOverview
    <2>1. /\ UNCHANGED sending
          /\ \/ UNCHANGED events
             \/ /\ Len(events) < EventCapacity
                /\ events' = Append(events, RefreshEvent("RefreshOverviewReady", scheduler.active))
        BY <1>11 DEF OrdinaryOverview, MandatoryOverview, ReadOverview
    <2>2. scheduler.active # NoRefresh
        BY <1>11 DEF OrdinaryOverview, MandatoryOverview, Live, At, SchedulerFollows, BetweenReads, Reconciling
    <2>3. RefreshEvent("RefreshOverviewReady", scheduler.active) \in Event
        BY <2>2, <1>a DEF RefreshEvents
    <2> DEFINE e == RefreshEvent("RefreshOverviewReady", scheduler.active)
    <2> HIDE DEF e
    <2>4. Append(events, e) \in Seq(Event) /\ Len(Append(events, e)) = Len(events) + 1
        BY <2>3, <1>q, AppendProperties DEF EventsTyped, e
    <2> QED
        <3>1. CASE UNCHANGED events
            BY <2>1, <3>1, <1>1
        <3>2. CASE Len(events) < EventCapacity /\ events' = Append(events, e)
            BY <2>1, <2>4, <3>2, <1>q, LenProperties DEF EventsTyped
        <3> QED
            BY <2>1, <3>1, <3>2 DEF e
<1>12. CASE Execution
    <2>1. WorkEvent("OperationFinished", work.id) \in Event
        BY WorkEventType DEF WorkEvents, TypeOK, WorkTyped, Work, NoWork
    <2>2. WorkEvent("PlanFinished", work.id) \in Event
        BY WorkEventType DEF WorkEvents, TypeOK, WorkTyped, Work, NoWork
    <2>3. /\ UNCHANGED events
          /\ \/ sending' = <<OperationReport>>
             \/ sending' = <<PlanReport>>
             \/ sending' = <<OperationReport, PlanReport>>
        BY <1>12, Zenon DEF Execution, ExecuteSingle, PlanRejected, PlanOperationApplied, PlanHalted,
                     PlanCompleted, Executed
    <2>4. CASE sending' = <<OperationReport>>
        BY <2>1, <2>3, <2>4, <1>o DEF OperationReport
    <2>5. CASE sending' = <<PlanReport>>
        BY <2>2, <2>3, <2>5, <1>o DEF PlanReport
    <2>6. CASE sending' = <<OperationReport, PlanReport>>
        <3>1. <<OperationReport, PlanReport>> \in Seq(Event)
            BY <2>1, <2>2 DEF OperationReport, PlanReport
        <3> QED
            BY <2>3, <2>6, <3>1, <1>s
    <2> QED
        BY <2>3, <2>4, <2>5, <2>6
<1>13. CASE AbsorbBatch
    <2>1. /\ UNCHANGED events
          /\ sending' \in {<<>>, <<WorkEvent("ManualDemandRejected", Head(manual).count)>>}
          /\ manual # <<>>
        BY <1>13, EmptySeq DEF AbsorbBatch, TypeOK, LanesTyped
    <2>2. Head(manual).count \in Nat
        BY <2>1, <1>q, HeadBatch
    <2>3. WorkEvent("ManualDemandRejected", Head(manual).count) \in Event
        BY <2>2, WorkEventType DEF WorkEvents
    <2>4. CASE sending' = <<>>
        BY <2>1, <2>4, <1>s, EmptySeq
    <2>5. CASE sending' = <<WorkEvent("ManualDemandRejected", Head(manual).count)>>
        BY <2>1, <2>3, <2>5, <1>o
    <2> QED
        BY <2>1, <2>4, <2>5
<1>14. CASE UiConsumeEvent
    BY <1>14, <1>q, HeadTailProperties, LenProperties DEF UiConsumeEvent, EventsTyped
<1>15. CASE UiClose
    BY <1>15, <1>q DEF UiClose, EventsTyped
<1>16. CASE Shutdown \/ TakeHeldRollback \/ TakeQueuedRollback \/ TakeHeldRequest
            \/ TakePendingRequest \/ GoIdle \/ IdleRollback \/ IdleRequest \/ OrdinaryPeriodic
            \/ AbsorbBegin \/ AbsorbRequests \/ MandatoryReadDone \/ MandatoryRollback
            \/ MandatoryPeriodic \/ MandatoryRequest \/ ExecuteUrgent
    BY <1>16, <1>1 DEF Shutdown, TakeHeldRollback, TakeQueuedRollback, TakeHeldRequest,
            TakePendingRequest, GoIdle, IdleRollback, IdleRequest, OrdinaryPeriodic, TickActive,
            AbsorbBegin, AbsorbRequests, MandatoryReadDone, MandatoryRollback,
            MandatoryPeriodic, MandatoryRequest, ExecuteUrgent
<1>17. CASE UiSendRequest \/ UiSendRollback \/ UiSendManual \/ TimerElapses \/ Terminated
    BY <1>17, <1>1 DEF UiSendRequest, UiSendRollback, UiSendManual, TimerElapses, Terminated, vars
<1> QED
    BY <1>2, <1>3, <1>4, <1>5, <1>6, <1>7, <1>8, <1>9, <1>10, <1>11, <1>12, <1>13, <1>14,
       <1>15, <1>16, <1>17
       DEF Next, EngineStep, Loop, OrdinaryRefresh, Reconciliation, Environment

-----------------------------------------------------------------------------

(* What is at the head of a lane is work. *)
LEMMA HeadWork ==
    ASSUME LanesTyped
    PROVE  /\ rollbacks # <<>> => Rollback(Head(rollbacks)) \in Work
           /\ requests # <<>> => Normal(Head(requests)) \in Work
           /\ pendingRequests # <<>> => Normal(Head(pendingRequests)) \in Work
<1>1. rollbacks # <<>> => Head(rollbacks) \in 1..MaxRollbacks
    BY HeadTailProperties DEF LanesTyped
<1>2. requests # <<>> => Head(requests) \in 1..MaxRequests
    BY HeadTailProperties DEF LanesTyped
<1>3. pendingRequests # <<>> => Head(pendingRequests) \in 1..MaxRequests
    BY HeadTailProperties DEF LanesTyped
<1> QED
    BY <1>1, <1>2, <1>3 DEF Rollback, Normal, Work

(* Beginning work leaves as many operations as its plan has, or none. *)
LEMMA BeginProperties ==
    ASSUME NEW w \in Work, Begin(w)
    PROVE  opsLeft' \in Nat
<1>1. w.kind = "Normal" => w.id \in 1..MaxRequests
    BY DEF Work
<1> QED
    BY <1>1, EngineAssumption DEF Begin

(* What the task holds is always work the interface sent, or nothing. *)
LEMMA WorkStep ==
    ASSUME TypeOK, HandsFollow, [Next]_vars
    PROVE  WorkTyped'
<1> USE EngineAssumption, SchedulerAssumption
<1> USE DEF lanes, control, reading, timer, history, interface, engineOnly, uiUnchanged
<1> SUFFICES ASSUME Next PROVE WorkTyped'
    BY DEF vars, TypeOK, WorkTyped
<1>q. WorkTyped /\ LanesTyped
    BY DEF TypeOK
<1>h. /\ rollbacks # <<>> => Rollback(Head(rollbacks)) \in Work
      /\ requests # <<>> => Normal(Head(requests)) \in Work
      /\ pendingRequests # <<>> => Normal(Head(pendingRequests)) \in Work
    BY <1>q, HeadWork
<1>1. CASE UNCHANGED <<work, nextWork, opsLeft>>
    BY <1>1, <1>q DEF WorkTyped
<1>2. CASE TakeHeldRollback \/ TakeHeldRequest
    <2>1. nextWork \in Work /\ Begin(nextWork) /\ work' = nextWork /\ nextWork' = NoWork
        BY <1>2, <1>q DEF TakeHeldRollback, TakeHeldRequest, WorkTyped, NoWork
    <2> QED
        BY <2>1, BeginProperties DEF WorkTyped
<1>3. CASE TakeQueuedRollback \/ TakePendingRequest
    <2>1. \E w \in Work : Begin(w) /\ work' = w /\ UNCHANGED nextWork
        BY <1>3, <1>h DEF TakeQueuedRollback, TakePendingRequest, RollbackReady
    <2> QED
        BY <2>1, <1>q, BeginProperties DEF WorkTyped
<1>4. CASE IdleRollback \/ IdleRequest
    <2>1. nextWork' \in Work /\ UNCHANGED <<work, opsLeft>>
        BY <1>4, <1>h DEF IdleRollback, IdleRequest, RollbackReady, RequestReady
    <2> QED
        BY <2>1, <1>q DEF WorkTyped
<1>5. CASE OrdinaryRollback \/ OrdinaryRequest
    <2>1. \E w \in Work : Preempt(w)
        BY <1>5, <1>h DEF OrdinaryRollback, OrdinaryRequest, RollbackReady, RequestReady
    <2>2. nextWork' \in Work \cup {nextWork} /\ UNCHANGED <<work, opsLeft>>
        BY <2>1 DEF Preempt
    <2> QED
        BY <2>2, <1>q DEF WorkTyped
<1>6. CASE Execution
    <2>1. CASE PlanOperationApplied
        BY <2>1, <1>q DEF PlanOperationApplied, WorkTyped
    <2>2. CASE ExecuteSingle \/ PlanRejected \/ PlanHalted \/ PlanCompleted
        <3>1. work' = NoWork /\ opsLeft' = 0 /\ UNCHANGED nextWork
            BY <2>2 DEF ExecuteSingle, PlanRejected, PlanHalted, PlanCompleted, Executed
        <3> QED
            BY <3>1, <1>q DEF WorkTyped
    <2> QED
        BY <1>6, <2>1, <2>2 DEF Execution
<1>7. CASE MandatoryRollback \/ CompleteReconciliation
    <2>1. /\ UNCHANGED <<nextWork, opsLeft>>
          /\ UNCHANGED work \/ (rollbacks # <<>> /\ work' = Rollback(Head(rollbacks)))
        BY <1>7, Zenon DEF MandatoryRollback, CompleteReconciliation, RollbackReady
    <2> QED
        BY <2>1, <1>h, <1>q DEF WorkTyped
<1>8. CASE ExecuteUrgent
    <2>1. work \in Work /\ Begin(work) /\ UNCHANGED <<work, nextWork>>
        BY <1>8, <1>q DEF ExecuteUrgent, At, HandsFollow, UrgentInHand, WorkTyped, NoWork
    <2> QED
        BY <2>1, <1>q, BeginProperties DEF WorkTyped
<1>9. CASE SendEvent \/ SendFails \/ Shutdown \/ StartTriggered \/ GoIdle \/ IdleManual
           \/ IdlePeriodic \/ OrdinaryManual \/ OrdinaryPeriodic \/ OrdinaryOverview
           \/ OrdinaryReadDone
    BY <1>9, <1>1 DEF SendEvent, SendFails, Shutdown, StartTriggered, GoIdle, IdleManual,
           IdlePeriodic, OrdinaryManual, OrdinaryPeriodic, TickActive, OrdinaryOverview,
           ReadOverview, OrdinaryReadDone
<1>10. CASE BeginReconciliation \/ AbsorbBegin \/ AbsorbBatch \/ AbsorbRequests
            \/ MandatoryOverview \/ MandatoryReadDone \/ MandatoryPeriodic \/ MandatoryManual
            \/ MandatoryRequest \/ DrainBatch \/ CancelReconciliation
    BY <1>10, <1>1 DEF BeginReconciliation, AbsorbBegin, AbsorbBatch, AbsorbRequests,
            MandatoryOverview, ReadOverview, MandatoryReadDone, MandatoryPeriodic, TickActive,
            MandatoryManual, MandatoryRequest, DrainBatch, CancelReconciliation
<1>11. CASE Environment \/ Terminated
    BY <1>11, <1>1 DEF Environment, UiSendRequest, UiSendRollback, UiSendManual, UiConsumeEvent,
            UiClose, TimerElapses, Terminated, vars
<1> QED
    BY <1>2, <1>3, <1>4, <1>5, <1>6, <1>7, <1>8, <1>9, <1>10, <1>11
       DEF Next, EngineStep, Loop, OrdinaryRefresh, Reconciliation

-----------------------------------------------------------------------------

(* Counting an elapsed deadline into the active refresh keeps its identity. *)
LEMMA ObservedProperties ==
    ASSUME scheduler \in Scheduler
    PROVE  /\ Observed \in Scheduler
           /\ Observed.trailing = scheduler.trailing
           /\ Observed.pendingStart = scheduler.pendingStart
           /\ Observed.active = NoRefresh <=> scheduler.active = NoRefresh
           /\ Observed.active.id = scheduler.active.id
           /\ Observed.active.trigger = scheduler.active.trigger
BY RecordPeriodicType DEF Observed

(* While a refresh is active a deadline is never refused. *)
LEMMA ObserveSucceeds ==
    ASSUME scheduler.active # NoRefresh
    PROVE  ~ObserveFails
BY DEF ObserveFails, PeriodicDemand

(* The status variables keep their types. *)
LEMMA StatusStep ==
    ASSUME TypeOK, [Next]_vars
    PROVE  StatusTyped'
<1> USE EngineAssumption, SchedulerAssumption
<1> USE DEF lanes, control, reading, timer, history, interface, engineOnly, uiUnchanged
<1> SUFFICES ASSUME Next PROVE StatusTyped'
    BY DEF vars, TypeOK, StatusTyped
<1>q. StatusTyped /\ EventsTyped
    BY DEF TypeOK
<1>w. \A w \in {"unsent", "queued", "owed", "serving", "served", "rejected"} :
         /\ Serve(w) \in {"unsent", "queued", "owed", "serving", "served", "rejected"}
         /\ Unserve(w) \in {"unsent", "queued", "owed", "serving", "served", "rejected"}
         /\ Served(w) \in {"unsent", "queued", "owed", "serving", "served", "rejected"}
         /\ \A batch : Becomes(batch, w) \in {w, watch}
    <2> SUFFICES ASSUME NEW w \in {"unsent", "queued", "owed", "serving", "served", "rejected"}
                 PROVE  /\ Serve(w) \in {w, "serving"}
                        /\ Unserve(w) \in {w, "owed"}
                        /\ Served(w) \in {w, "served"}
                        /\ \A batch : Becomes(batch, w) \in {w, watch}
        OBVIOUS
    <2>1. Serve(w) \in {w, "serving"}
        BY DEF Serve
    <2>2. Unserve(w) \in {w, "owed"}
        BY DEF Unserve
    <2>3. Served(w) \in {w, "served"}
        BY DEF Served
    <2>4. \A batch : Becomes(batch, w) \in {w, watch}
        BY DEF Becomes
    <2> QED
        BY <2>1, <2>2, <2>3, <2>4
<1>1. CASE SendEvent \/ SendFails \/ Shutdown \/ TakeHeldRollback \/ TakeQueuedRollback
           \/ TakeHeldRequest \/ TakePendingRequest \/ GoIdle \/ IdleRollback \/ IdleRequest
    <2>1. pc' \in {pc, "Execute", "Idle", "Top", "Stopped"}
        BY <1>1 DEF SendEvent, SendFails, Shutdown, TakeHeldRollback, TakeQueuedRollback,
               TakeHeldRequest, TakePendingRequest, GoIdle, IdleRollback, IdleRequest, Begin, Stop
    <2>2. unreconciled' \in {unreconciled, TRUE}
        BY <1>1 DEF SendEvent, SendFails, Shutdown, TakeHeldRollback, TakeQueuedRollback,
               TakeHeldRequest, TakePendingRequest, GoIdle, IdleRollback, IdleRequest, Begin
    <2>3. UNCHANGED <<closed, watch, uiRefresh, uiUnread>>
        BY <1>1 DEF SendEvent, SendFails, Shutdown, TakeHeldRollback, TakeQueuedRollback,
               TakeHeldRequest, TakePendingRequest, GoIdle, IdleRollback, IdleRequest, Begin
    <2> QED
        BY <2>1, <2>2, <2>3, <1>q DEF StatusTyped, ControlState
<1>2. CASE StartTriggered \/ IdlePeriodic \/ BeginReconciliation
    <2>1. /\ pc' \in {"Stopped", "Ordinary", "Absorb"} /\ watch' \in {watch, Serve(watch)}
          /\ UNCHANGED <<closed, unreconciled, uiRefresh, uiUnread>>
        BY <1>2, Zenon DEF StartTriggered, IdlePeriodic, BeginReconciliation, BeginRefresh, Stop
    <2> QED
        BY <2>1, <1>q, <1>w DEF StatusTyped, ControlState
<1>3. CASE IdleManual
    <2>1. /\ pc' \in {"Top", "Stopped", "Ordinary"}
          /\ \/ watch' = watch
             \/ watch' = Serve(Becomes(Head(manual), "owed"))
             \/ watch' = Becomes(Head(manual), "owed")
             \/ watch' = Becomes(Head(manual), "rejected")
          /\ UNCHANGED <<closed, unreconciled, uiRefresh, uiUnread>>
        BY <1>3, Zenon DEF IdleManual, BeginRefresh, ReceiveManual, Stop
    <2> QED
        BY <2>1, <1>q, <1>w DEF StatusTyped, ControlState
<1>4. CASE OrdinaryManual \/ MandatoryManual \/ DrainBatch \/ AbsorbBatch
    <2>1. /\ \E w \in {"owed", "serving", "rejected"} : watch' = Becomes(Head(manual), w)
          /\ UNCHANGED <<pc, closed, unreconciled, uiRefresh, uiUnread>>
        BY <1>4 DEF OrdinaryManual, MandatoryManual, DrainBatch, AbsorbBatch, ReceiveManual
    <2> QED
        BY <2>1, <1>q, <1>w DEF StatusTyped
<1>5. CASE OrdinaryRollback \/ OrdinaryRequest
    <2>1. \E w : Preempt(w)
        BY <1>5 DEF OrdinaryRollback, OrdinaryRequest
    <2>2. /\ pc' \in {"Top", "Stopped"} /\ watch' \in {watch, Unserve(watch)}
          /\ UNCHANGED <<closed, unreconciled, uiRefresh, uiUnread>>
        BY <2>1 DEF Preempt, Stop
    <2> QED
        BY <2>2, <1>q, <1>w DEF StatusTyped, ControlState
<1>6. CASE OrdinaryPeriodic \/ OrdinaryOverview \/ MandatoryOverview \/ MandatoryPeriodic
           \/ AbsorbBegin \/ AbsorbRequests \/ MandatoryReadDone \/ MandatoryRollback
           \/ MandatoryRequest
    <2>1. /\ pc' \in {pc, "AbsorbManual", "Mandatory", "Boundary", "Preempt", "Stopped"}
          /\ UNCHANGED <<closed, unreconciled, watch, uiRefresh, uiUnread>>
        BY <1>6 DEF OrdinaryPeriodic, OrdinaryOverview, MandatoryOverview, MandatoryPeriodic,
           AbsorbBegin, AbsorbRequests, MandatoryReadDone, MandatoryRollback, MandatoryRequest,
           TickActive, ReadOverview, Stop
    <2> QED
        BY <2>1, <1>q DEF StatusTyped, ControlState
<1>7. CASE OrdinaryReadDone \/ CancelReconciliation \/ CompleteReconciliation
    <2>1. /\ pc' \in {"Top", "Urgent", "Stopped"}
          /\ watch' \in {watch, Served(watch), Unserve(watch)}
          /\ unreconciled' \in {unreconciled, FALSE}
          /\ UNCHANGED <<closed, uiRefresh, uiUnread>>
        BY <1>7, Zenon DEF OrdinaryReadDone, CancelReconciliation, CompleteReconciliation, Stop
    <2> QED
        BY <2>1, <1>q, <1>w DEF StatusTyped, ControlState
<1>8. CASE Execution \/ ExecuteUrgent
    <2>1. /\ pc' \in {pc, "Execute", "Reconcile"} /\ unreconciled' \in {unreconciled, TRUE}
          /\ UNCHANGED <<closed, watch, uiRefresh, uiUnread>>
        BY <1>8 DEF Execution, ExecuteSingle, PlanRejected, PlanOperationApplied, PlanHalted,
           PlanCompleted, Executed, ExecuteUrgent, Begin
    <2> QED
        BY <2>1, <1>q DEF StatusTyped, ControlState
<1>9. CASE UiConsumeEvent
    <2>1. Head(events) \in Event
        BY <1>9, <1>q, HeadTailProperties DEF UiConsumeEvent, EventsTyped
    <2>2. Head(events).type = "RefreshStarted" => Head(events).id \in 0..MaxId
        BY <2>1 DEF Event, RefreshEvents, WorkEvents
    <2>3. \/ uiRefresh' = uiRefresh
          \/ uiRefresh' = 0
          \/ Head(events).type = "RefreshStarted" /\ uiRefresh' = Head(events).id
        BY <1>9 DEF UiConsumeEvent
    <2>4. /\ uiUnread' \in {uiUnread, TRUE, FALSE}
          /\ UNCHANGED <<pc, closed, unreconciled, watch>>
        BY <1>9 DEF UiConsumeEvent
    <2>5. uiRefresh' \in 0..MaxId
        BY <2>2, <2>3, <1>q DEF StatusTyped
    <2> QED
        BY <2>4, <2>5, <1>q DEF StatusTyped
<1>10. CASE UiSendManual
    <2>1. /\ watch' \in {watch, "queued"}
          /\ UNCHANGED <<pc, closed, unreconciled, uiRefresh, uiUnread>>
        BY <1>10 DEF UiSendManual
    <2> QED
        BY <2>1, <1>q DEF StatusTyped
<1>11. CASE UiClose
    BY <1>11, <1>q DEF UiClose, StatusTyped
<1>12. CASE UiSendRequest \/ UiSendRollback \/ TimerElapses \/ Terminated
    BY <1>12, <1>q DEF UiSendRequest, UiSendRollback, TimerElapses, Terminated, vars, StatusTyped
<1> QED
    BY <1>1, <1>2, <1>3, <1>4, <1>5, <1>6, <1>7, <1>8, <1>9, <1>10, <1>11, <1>12
       DEF Next, EngineStep, Loop, OrdinaryRefresh, Reconciliation, Environment

-----------------------------------------------------------------------------

(* The task holds a rollback only on the way to executing it, and waits with
   empty hands. *)
LEMMA HandsStep ==
    ASSUME TypeOK, HandsFollow, [Next]_vars
    PROVE  HandsFollow'
<1> USE DEF lanes, control, reading, timer, history, interface, engineOnly, uiUnchanged
<1> SUFFICES ASSUME Next PROVE HandsFollow'
    BY DEF vars, HandsFollow, UrgentInHand
<1> USE DEF HandsFollow, UrgentInHand, Live, At, Stop
<1>q. work \in Work \cup {NoWork} /\ nextWork \in Work \cup {NoWork}
    BY DEF TypeOK, WorkTyped
<1>1. CASE SendEvent \/ SendFails \/ Shutdown \/ GoIdle
    BY <1>1, <1>q DEF SendEvent, SendFails, Shutdown, GoIdle, HasWork, Work, NoWork
<1>2. CASE TakeHeldRollback \/ TakeQueuedRollback \/ TakeHeldRequest \/ TakePendingRequest
    BY <1>2, <1>q DEF TakeHeldRollback, TakeQueuedRollback, TakeHeldRequest, TakePendingRequest,
           Begin, Rollback, Normal, NoWork
<1>3. CASE StartTriggered \/ BeginReconciliation
    <2>1. CASE StartTriggered
        <3>1. /\ pc = "Top" /\ pendingRequests = <<>> /\ nextWork = NoWork /\ nextTrigger' = "None"
              /\ pc' \in {"Ordinary", "Stopped"}
              /\ UNCHANGED <<work, quota, nextWork, pendingRequests>>
            BY <2>1, Zenon DEF StartTriggered, HasWork, BeginRefresh
        <3> QED
            BY <3>1 DEF NoWork
    <2>2. CASE BeginReconciliation
        <3>1. /\ pc = "Reconcile" /\ pc' \in {"Absorb", "Stopped"} /\ UNCHANGED control
            BY <2>2, Zenon DEF BeginReconciliation, BeginRefresh
        <3> QED
            BY <3>1
    <2> QED
        BY <1>3, <2>1, <2>2
<1>4. CASE IdleRollback \/ IdleRequest
    BY <1>4 DEF IdleRollback, IdleRequest
<1>5. CASE IdleManual \/ IdlePeriodic
    <2>1. pc = "Idle" /\ pc' \in {"Top", "Ordinary", "Stopped"} /\ UNCHANGED control
        BY <1>5, Zenon DEF IdleManual, IdlePeriodic, BeginRefresh
    <2> QED
        BY <2>1
<1>6. CASE OrdinaryRollback \/ OrdinaryRequest
    <2>1. \E w : Preempt(w) /\ pc = "Ordinary"
        BY <1>6 DEF OrdinaryRollback, OrdinaryRequest
    <2>2. pc' \in {"Top", "Stopped"} /\ pc = "Ordinary" /\ UNCHANGED <<quota, work>>
        BY <2>1 DEF Preempt
    <2> QED
        BY <2>2
<1>7. CASE OrdinaryManual \/ OrdinaryPeriodic \/ OrdinaryOverview \/ MandatoryOverview
           \/ MandatoryPeriodic \/ MandatoryManual
    <2>1. pc' \in {pc, "Stopped"} /\ UNCHANGED control
        BY <1>7 DEF OrdinaryManual, OrdinaryPeriodic, OrdinaryOverview, MandatoryOverview,
           MandatoryPeriodic, MandatoryManual, ReadOverview, TickActive
    <2> QED
        BY <2>1
<1>8. CASE OrdinaryReadDone
    <2>1. /\ pc = "Ordinary" /\ pc' \in {"Top", "Stopped"}
          /\ UNCHANGED <<work, quota>>
        BY <1>8, Zenon DEF OrdinaryReadDone
    <2> QED
        BY <2>1
<1>9. CASE Execution
    <2>1. /\ pc = "Execute" /\ UNCHANGED <<quota, nextWork, pendingRequests>>
          /\ \/ pc' = "Execute" /\ UNCHANGED work
             \/ pc' = "Reconcile"
        BY <1>9 DEF Execution, ExecuteSingle, PlanRejected, PlanOperationApplied, PlanHalted,
           PlanCompleted, Executed
    <2> QED
        BY <2>1
<1>10. CASE AbsorbBegin \/ AbsorbBatch \/ AbsorbRequests
    BY <1>10 DEF AbsorbBegin, AbsorbBatch, AbsorbRequests
<1>11. CASE MandatoryReadDone \/ MandatoryRollback \/ MandatoryRequest
    BY <1>11 DEF MandatoryReadDone, MandatoryRollback, MandatoryRequest, Rollback
<1>12. CASE DrainBatch
    BY <1>12 DEF DrainBatch
<1>13. CASE CompleteReconciliation
    <2>1. /\ pc = "Boundary" /\ quota = 0 /\ UNCHANGED <<quota, nextWork>>
          /\ \/ pc' \in {"Top", "Stopped"}
             \/ pc' = "Urgent" /\ work' = Rollback(Head(rollbacks))
        BY <1>13, Zenon DEF CompleteReconciliation
    <2> QED
        BY <2>1 DEF Rollback
<1>14. CASE CancelReconciliation
    BY <1>14 DEF CancelReconciliation
<1>15. CASE ExecuteUrgent
    BY <1>15 DEF ExecuteUrgent, Begin, NoWork
<1>16. CASE Environment \/ Terminated
    <2>1. UNCHANGED <<pc, control>>
        BY <1>16 DEF Environment, UiSendRequest, UiSendRollback, UiSendManual, UiConsumeEvent,
            UiClose, TimerElapses, Terminated, vars
    <2> QED
        BY <2>1
<1> QED
    BY <1>1, <1>2, <1>3, <1>4, <1>5, <1>6, <1>7, <1>8, <1>9, <1>10, <1>11, <1>12, <1>13, <1>14,
       <1>15, <1>16
       DEF Next, EngineStep, Loop, OrdinaryRefresh, Reconciliation

-----------------------------------------------------------------------------

(* The scheduler is active exactly while the task reads, under the id the read
   was started with, and only a reconciliation reads after a mutation.  So no
   start, cancellation, completion or deadline is ever refused. *)
LEMMA SchedulerStep ==
    ASSUME TypeOK, SchedulerFollows, HandsFollow, [Next]_vars
    PROVE  RefreshTyped' /\ SchedulerFollows'
<1> USE EngineAssumption, SchedulerAssumption
<1> USE DEF lanes, control, reading, timer, history, interface, engineOnly, uiUnchanged
<1> SUFFICES ASSUME Next PROVE RefreshTyped' /\ SchedulerFollows'
    BY DEF vars, TypeOK, RefreshTyped, SchedulerFollows
<1> USE DEF BetweenReads, Reconciling, Live, At, Stop
<1>q. /\ RefreshTyped /\ scheduler \in Scheduler /\ scheduler.pendingStart = NoCount
      /\ scheduler.nextId \in 1..MaxId
      /\ scheduler.trailing \in BOOLEAN
      /\ scheduler.active # NoRefresh => scheduler.active.id \in 1..MaxId
      /\ manual \in Seq(ManualBatch)
    BY DEF TypeOK, RefreshTyped, LanesTyped, SchedulerFollows, Scheduler, ActiveRefresh
<1>f. ASSUME UNCHANGED <<scheduler, startId>>, pc' \in {pc, "Stopped"}
      PROVE  SchedulerFollows'
    BY <1>f DEF SchedulerFollows
<1>b. ASSUME NEW s \in Scheduler, NEW trigger \in Trigger, NEW status, NEW goto,
             s.active = NoRefresh, ~s.trailing,
             s.pendingStart = NoCount \/ trigger = "Manual",
             trigger = "PostMutation" => goto = "Absorb",
             trigger # "PostMutation" => goto = "Ordinary",
             BeginRefresh(s, trigger, status, goto)
      PROVE  SchedulerFollows' /\ scheduler' \in Scheduler /\ startId' \in 0..MaxId
    <2>1. /\ scheduler' = Start(s, trigger) /\ startId' = s.nextId /\ pc' = goto
        BY <1>b, BeginRefreshProperties
    <2>2. /\ Start(s, trigger) \in Scheduler
          /\ Start(s, trigger).active \in ActiveRefresh
          /\ Start(s, trigger).active.id = s.nextId
          /\ Start(s, trigger).active.trigger = trigger
          /\ Start(s, trigger).pendingStart =
                 IF trigger = "Manual" THEN NoCount ELSE s.pendingStart
        BY StartType
    <2>3. s.nextId \in 0..MaxId
        BY DEF Scheduler
    <2>4. Start(s, trigger).active # NoRefresh
        BY <2>2, ActiveIsPresent
    <2> QED
        BY <1>b, <2>1, <2>2, <2>3, <2>4 DEF SchedulerFollows
<1>k. ASSUME pc \in Reconciling \cup {"Ordinary"}, pc' \in Reconciling \cup {"Ordinary"},
             pc = "Ordinary" <=> pc' = "Ordinary",
             scheduler' \in Scheduler,
             scheduler'.pendingStart = scheduler.pendingStart,
             scheduler'.active # NoRefresh,
             scheduler'.active.id = scheduler.active.id,
             scheduler'.active.trigger = scheduler.active.trigger,
             UNCHANGED startId
      PROVE  SchedulerFollows'
    BY <1>k DEF SchedulerFollows
<1>r. ASSUME scheduler' = Retire(scheduler), pc' \in {"Top", "Urgent"}
      PROVE  SchedulerFollows' /\ scheduler' \in Scheduler
    BY <1>r, <1>q, RetireType DEF SchedulerFollows
<1>1. CASE SendEvent \/ SendFails \/ Shutdown \/ GoIdle
    <2>1. /\ UNCHANGED <<scheduler, startId, stage, nextTrigger, trailingManual, armed, due>>
          /\ pc' \in {pc, "Stopped"} \/ (pc = "Top" /\ pc' = "Idle")
        BY <1>1 DEF SendEvent, SendFails, Shutdown, GoIdle
    <2> QED
        BY <2>1, <1>q DEF RefreshTyped, SchedulerFollows
<1>2. CASE TakeHeldRollback \/ TakeQueuedRollback \/ TakeHeldRequest \/ TakePendingRequest
    <2>1. /\ UNCHANGED <<scheduler, startId, stage, nextTrigger, armed, due>>
          /\ trailingManual' = FALSE /\ pc = "Top" /\ pc' = "Execute"
        BY <1>2 DEF TakeHeldRollback, TakeQueuedRollback, TakeHeldRequest, TakePendingRequest, Begin
    <2> QED
        BY <2>1, <1>q DEF RefreshTyped, SchedulerFollows
<1>3. CASE StartTriggered
    <2>1. /\ BeginRefresh(scheduler, nextTrigger, watch, "Ordinary")
          /\ pc = "Top" /\ nextTrigger # "None"
          /\ stage' = "Overview" /\ nextTrigger' = "None"
          /\ UNCHANGED <<trailingManual, armed, due>>
        BY <1>3 DEF StartTriggered
    <2>2. nextTrigger \in {"Initial", "Manual"}
        BY <2>1, <1>q DEF RefreshTyped
    <2>3. SchedulerFollows' /\ scheduler' \in Scheduler /\ startId' \in 0..MaxId
        BY <2>1, <2>2, <1>q, <1>b DEF SchedulerFollows, Trigger
    <2> QED
        BY <2>1, <2>3, <1>q DEF RefreshTyped
<1>4. CASE IdleRollback \/ IdleRequest
    <2>1. /\ UNCHANGED <<scheduler, startId, stage, nextTrigger, trailingManual, armed, due>>
          /\ pc = "Idle" /\ pc' = "Top"
        BY <1>4 DEF IdleRollback, IdleRequest
    <2> QED
        BY <2>1, <1>q DEF RefreshTyped, SchedulerFollows
<1>5. CASE IdleManual
    <2> DEFINE n == Head(manual).count
    <2>1. /\ pc = "Idle" /\ manual # <<>> /\ scheduler.active = NoRefresh /\ ~scheduler.trailing
          /\ UNCHANGED <<nextTrigger, trailingManual, armed, due>>
        BY <1>5 DEF IdleManual, ManualReady, SchedulerFollows
    <2>2. n \in 1..MaxCount
        BY <2>1, <1>q, HeadBatch
    <2> HIDE DEF n
    <2>3. BatchFits(scheduler, n)
        BY <2>1, <1>q DEF BatchFits
    <2>4. /\ RecordManual(scheduler, n) \in Scheduler
          /\ RecordManual(scheduler, n).active = NoRefresh
          /\ ~RecordManual(scheduler, n).trailing
        BY <2>1, <2>2, <2>3, <1>q, RecordManualType
    <2>5. ManualDemand(scheduler) = "StartNow"
        BY <2>1, <1>q DEF ManualDemand
    <2>6. /\ stage' = "Overview"
          /\ BeginRefresh(RecordManual(scheduler, n), "Manual",
                          Becomes(Head(manual), "owed"), "Ordinary")
        BY <1>5, <2>3, <2>5, Zenon DEF IdleManual, n
    <2>7. SchedulerFollows' /\ scheduler' \in Scheduler /\ startId' \in 0..MaxId
        BY <2>4, <2>6, <1>b DEF Trigger
    <2> QED
        BY <2>1, <2>6, <2>7, <1>q DEF RefreshTyped
<1>6. CASE IdlePeriodic
    <2>1. /\ pc = "Idle" /\ scheduler.active = NoRefresh /\ ~scheduler.trailing
          /\ stage' = "Overview" /\ Disarm
          /\ UNCHANGED <<nextTrigger, trailingManual>>
        BY <1>6 DEF IdlePeriodic, SchedulerFollows
    <2>2. BeginRefresh(scheduler, "Periodic", watch, "Ordinary")
        BY <1>6, <2>1, Zenon DEF IdlePeriodic, PeriodicDemand
    <2>3. SchedulerFollows' /\ scheduler' \in Scheduler /\ startId' \in 0..MaxId
        BY <2>1, <2>2, <1>q, <1>b DEF Trigger
    <2> QED
        BY <2>1, <2>3, <1>q DEF RefreshTyped, Disarm
<1>7. CASE OrdinaryRollback \/ OrdinaryRequest
    <2>1. \E w : Preempt(w) /\ pc = "Ordinary" /\ scheduler.active # NoRefresh
                 /\ scheduler.active.trigger # "PostMutation"
        BY <1>7 DEF OrdinaryRollback, OrdinaryRequest, SchedulerFollows
    <2>2. ~ObserveFails /\ CanCancelForMutation(Observed)
        BY <2>1, <1>q, ObserveSucceeds, ObservedProperties DEF CanCancelForMutation, IsPreemptible
    <2>3. /\ scheduler' = Retire(Observed) /\ pc' = "Top" /\ stage' = "None" /\ Disarm
          /\ UNCHANGED <<startId, nextTrigger, trailingManual>>
        BY <2>1, <2>2 DEF Preempt
    <2>4. Retire(Observed) \in Scheduler /\ Retire(Observed).active = NoRefresh
          /\ ~Retire(Observed).trailing /\ Retire(Observed).pendingStart = NoCount
        BY <1>q, ObservedProperties, RetireType
    <2> QED
        BY <2>3, <2>4, <1>q DEF RefreshTyped, SchedulerFollows, Disarm
<1>8. CASE OrdinaryManual \/ MandatoryManual \/ DrainBatch
    <2>1. /\ ReceiveManual /\ manual # <<>> /\ pc \in Reconciling \cup {"Ordinary"}
          /\ UNCHANGED <<pc, startId, stage, nextTrigger, trailingManual, armed, due>>
        BY <1>8, EmptySeq DEF OrdinaryManual, MandatoryManual, DrainBatch, ManualReady,
                    TypeOK, LanesTyped
    <2>2. scheduler.active # NoRefresh
        BY <2>1 DEF SchedulerFollows
    <2>3. /\ scheduler' \in Scheduler
          /\ scheduler'.active # NoRefresh
          /\ scheduler'.active.id = scheduler.active.id
          /\ scheduler'.active.trigger = scheduler.active.trigger
          /\ scheduler'.pendingStart = scheduler.pendingStart
        BY <2>1, <2>2, <1>q, ReceiveManualProperties
    <2>4. SchedulerFollows'
        BY <2>1, <2>3, <1>k
    <2> QED
        BY <2>1, <2>3, <2>4, <1>q DEF RefreshTyped
<1>9. CASE OrdinaryPeriodic \/ MandatoryPeriodic
    <2>1. TickActive /\ pc \in {"Ordinary", "Mandatory"}
        BY <1>9 DEF OrdinaryPeriodic, MandatoryPeriodic
    <2>2. scheduler.active # NoRefresh /\ ~ObserveFails
        BY <2>1, ObserveSucceeds DEF SchedulerFollows
    <2>3. /\ scheduler' = Observed /\ Disarm
          /\ UNCHANGED <<pc, startId, stage, nextTrigger, trailingManual>>
        BY <2>1, <2>2 DEF TickActive
    <2>4. SchedulerFollows' /\ scheduler' \in Scheduler
        BY <2>1, <2>2, <2>3, <1>q, <1>k, ObservedProperties
    <2> QED
        BY <2>3, <2>4, <1>q DEF RefreshTyped, Disarm
<1>10. CASE OrdinaryOverview \/ MandatoryOverview
    <2>1. /\ stage' = "Hydration"
          /\ UNCHANGED <<pc, scheduler, startId, nextTrigger, trailingManual, armed, due>>
        BY <1>10 DEF OrdinaryOverview, MandatoryOverview, ReadOverview
    <2> QED
        BY <2>1, <1>f, <1>q DEF RefreshTyped
<1>11. CASE OrdinaryReadDone
    <2>1. pc = "Ordinary" /\ CanFinish(scheduler, startId)
        BY <1>11 DEF OrdinaryReadDone, SchedulerFollows, CanFinish
    <2>2. /\ pc' = "Top" /\ scheduler' = Retire(scheduler) /\ stage' = "None"
          /\ FinishSequence(scheduler.trailing)
          /\ UNCHANGED <<startId, trailingManual>>
        BY <1>11, <2>1, Zenon DEF OrdinaryReadDone
    <2>3. nextTrigger' \in {nextTrigger, "Manual"} /\ armed' \in {armed, TRUE} /\ due' \in {due, FALSE}
        BY <2>2 DEF FinishSequence
    <2> QED
        BY <2>2, <2>3, <1>r, <1>q DEF RefreshTyped
<1>12. CASE Execution
    <2>1. /\ UNCHANGED <<scheduler, startId, stage, nextTrigger, trailingManual, armed, due>>
          /\ pc = "Execute" /\ pc' \in {"Execute", "Reconcile"}
        BY <1>12 DEF Execution, ExecuteSingle, PlanRejected, PlanOperationApplied, PlanHalted,
           PlanCompleted, Executed
    <2> QED
        BY <2>1, <1>q DEF RefreshTyped, SchedulerFollows
<1>13. CASE BeginReconciliation
    <2>1. /\ BeginRefresh(scheduler, "PostMutation", watch, "Absorb") /\ pc = "Reconcile"
          /\ UNCHANGED <<stage, nextTrigger, trailingManual, armed, due>>
        BY <1>13 DEF BeginReconciliation
    <2>2. SchedulerFollows' /\ scheduler' \in Scheduler /\ startId' \in 0..MaxId
        BY <2>1, <1>q, <1>b DEF SchedulerFollows, Trigger
    <2> QED
        BY <2>1, <2>2, <1>q DEF RefreshTyped
<1>14. CASE AbsorbBegin \/ AbsorbRequests \/ MandatoryRequest
    <2>1. /\ stage' \in {stage, "Overview"}
          /\ pc \in Reconciling /\ pc' \in Reconciling
          /\ UNCHANGED <<scheduler, startId, nextTrigger, trailingManual, armed, due>>
        BY <1>14 DEF AbsorbBegin, AbsorbRequests, MandatoryRequest
    <2> QED
        BY <2>1, <1>q DEF RefreshTyped, SchedulerFollows
<1>15. CASE AbsorbBatch
    <2> DEFINE n == Head(manual).count
    <2>1. /\ pc = "AbsorbManual" /\ manual # <<>>
          /\ UNCHANGED <<pc, startId, stage, nextTrigger, trailingManual, armed, due>>
          /\ scheduler' = IF BatchFits(scheduler, n) THEN AbsorbManual(scheduler, n) ELSE scheduler
        BY <1>15, EmptySeq DEF AbsorbBatch, TypeOK, LanesTyped
    <2>2. n \in 1..MaxCount
        BY <2>1, <1>q, HeadBatch
    <2>3. scheduler.active # NoRefresh
        BY <2>1 DEF SchedulerFollows
    <2> HIDE DEF n
    <2>4. CASE BatchFits(scheduler, n)
        <3>1. /\ scheduler' \in Scheduler
              /\ scheduler'.active # NoRefresh
              /\ scheduler'.active.id = scheduler.active.id
              /\ scheduler'.active.trigger = scheduler.active.trigger
              /\ scheduler'.pendingStart = scheduler.pendingStart
            BY <2>1, <2>2, <2>3, <2>4, <1>q, AbsorbManualType
        <3>2. SchedulerFollows'
            BY <2>1, <3>1, <1>k
        <3> QED
            BY <2>1, <3>1, <3>2, <1>q DEF RefreshTyped
    <2>5. CASE ~BatchFits(scheduler, n)
        BY <2>1, <2>5, <1>f, <1>q DEF RefreshTyped
    <2> QED
        BY <2>4, <2>5
<1>16. CASE MandatoryReadDone \/ MandatoryRollback
    <2>1. pc = "Mandatory" /\ scheduler.active # NoRefresh /\ ~ObserveFails
        BY <1>16, ObserveSucceeds DEF MandatoryReadDone, MandatoryRollback, SchedulerFollows
    <2>2. /\ scheduler' = Observed /\ Disarm /\ stage' = "None" /\ pc' \in {"Boundary", "Preempt"}
          /\ UNCHANGED <<startId, nextTrigger, trailingManual>>
        BY <1>16, <2>1 DEF MandatoryReadDone, MandatoryRollback
    <2>3. SchedulerFollows' /\ scheduler' \in Scheduler
        BY <2>1, <2>2, <1>q, <1>k, ObservedProperties
    <2> QED
        BY <2>2, <2>3, <1>q DEF RefreshTyped, Disarm
<1>17. CASE CompleteReconciliation
    <2>1. pc = "Boundary" /\ CanFinish(scheduler, startId) /\ UNCHANGED <<startId, stage>>
        BY <1>17 DEF CompleteReconciliation, SchedulerFollows, CanFinish
    <2>2. CASE UiGone'
        <3>1. UNCHANGED <<scheduler, trailingManual, nextTrigger, armed, due>> /\ pc' = "Stopped"
            BY <1>17, <2>2, Zenon DEF CompleteReconciliation
        <3> QED
            BY <2>1, <3>1, <1>f, <1>q DEF RefreshTyped
    <2>3. CASE ~UiGone'
        <3>1. /\ scheduler' = Retire(scheduler)
              /\ \/ /\ pc' = "Urgent" /\ trailingManual' = (trailingManual \/ scheduler.trailing)
                    /\ UNCHANGED <<nextTrigger, armed, due>>
                 \/ /\ pc' = "Top" /\ trailingManual' = FALSE
                    /\ FinishSequence(trailingManual \/ scheduler.trailing)
            BY <1>17, <2>1, <2>3, Zenon DEF CompleteReconciliation
        <3>2. /\ nextTrigger' \in {nextTrigger, "Manual"} /\ armed' \in {armed, TRUE}
              /\ due' \in {due, FALSE} /\ trailingManual' \in BOOLEAN
            BY <3>1, <1>q DEF FinishSequence, RefreshTyped
        <3> QED
            BY <2>1, <3>1, <3>2, <1>r, <1>q DEF RefreshTyped
    <2> QED
        BY <2>2, <2>3
<1>18. CASE CancelReconciliation
    <2>1. pc = "Preempt" /\ CanCancelForRollback(scheduler)
        BY <1>18 DEF CancelReconciliation, SchedulerFollows, CanCancelForRollback
    <2>2. /\ scheduler' = Retire(scheduler) /\ pc' = "Urgent"
          /\ trailingManual' = (trailingManual \/ scheduler.trailing)
          /\ UNCHANGED <<startId, stage, nextTrigger, armed, due>>
        BY <1>18, <2>1 DEF CancelReconciliation
    <2> QED
        BY <2>2, <1>r, <1>q DEF RefreshTyped
<1>19. CASE ExecuteUrgent
    <2>1. /\ UNCHANGED <<scheduler, startId, stage, nextTrigger, trailingManual, armed, due>>
          /\ pc = "Urgent" /\ pc' = "Execute"
        BY <1>19 DEF ExecuteUrgent, Begin
    <2> QED
        BY <2>1, <1>q DEF RefreshTyped, SchedulerFollows
<1>20. CASE Environment \/ Terminated
    <2>1. /\ UNCHANGED <<pc, scheduler, startId, stage, nextTrigger, trailingManual, armed>>
          /\ due' \in {due, TRUE}
        BY <1>20 DEF Environment, UiSendRequest, UiSendRollback, UiSendManual, UiConsumeEvent,
            UiClose, TimerElapses, Terminated, vars
    <2> QED
        BY <2>1, <1>f, <1>q DEF RefreshTyped
<1> QED
    BY <1>1, <1>2, <1>3, <1>4, <1>5, <1>6, <1>7, <1>8, <1>9, <1>10, <1>11, <1>12, <1>13, <1>14,
       <1>15, <1>16, <1>17, <1>18, <1>19, <1>20
       DEF Next, EngineStep, Loop, OrdinaryRefresh, Reconciliation

-----------------------------------------------------------------------------

(* Each way back to the head of the loop re-arms the deadline or leaves
   something else that starts a refresh. *)
LEMMA WakeStep ==
    ASSUME TypeOK, SchedulerFollows, HandsFollow, WakeFollows, [Next]_vars
    PROVE  WakeFollows'
<1> USE DEF lanes, control, reading, timer, history, interface, engineOnly, uiUnchanged
<1> SUFFICES ASSUME Next PROVE WakeFollows'
    BY DEF vars, WakeFollows
<1> USE DEF WakeFollows, Live, At, Stop
<1>q. armed \in BOOLEAN /\ due \in BOOLEAN
    BY DEF TypeOK, RefreshTyped
<1>f. ASSUME pc' \notin {"Idle", "Top"}, armed' = armed, due' = due
      PROVE  WakeFollows'
    BY <1>f
<1>1. CASE SendEvent \/ SendFails \/ Shutdown
    BY <1>1 DEF SendEvent, SendFails, Shutdown
<1>2. CASE TakeHeldRollback \/ TakeQueuedRollback \/ TakeHeldRequest \/ TakePendingRequest
           \/ ExecuteUrgent
    BY <1>2 DEF TakeHeldRollback, TakeQueuedRollback, TakeHeldRequest, TakePendingRequest,
           ExecuteUrgent, Begin
<1>3. CASE GoIdle
    BY <1>3 DEF GoIdle, HasWork
<1>4. CASE StartTriggered \/ BeginReconciliation
    <2>1. pc' \in {"Ordinary", "Absorb", "Stopped"} /\ UNCHANGED timer
        BY <1>4, Zenon DEF StartTriggered, BeginReconciliation, BeginRefresh
    <2> QED
        BY <2>1
<1>5. CASE IdleRollback \/ IdleRequest
    BY <1>5 DEF IdleRollback, IdleRequest
<1>6. CASE IdleManual
    <2>1. pc = "Idle" /\ UNCHANGED timer
        BY <1>6 DEF IdleManual
    <2> QED
        BY <2>1
<1>7. CASE IdlePeriodic
    <2>1. pc' \in {"Ordinary", "Stopped"} /\ Disarm
        BY <1>7, Zenon DEF IdlePeriodic, BeginRefresh
    <2> QED
        BY <2>1 DEF Disarm
<1>8. CASE OrdinaryRollback \/ OrdinaryRequest
    <2>1. PICK w : Preempt(w) /\ w # NoWork
        BY <1>8 DEF OrdinaryRollback, OrdinaryRequest, Rollback, Normal, NoWork
    <2>2. \/ pc' = "Stopped" /\ UNCHANGED timer
          \/ pc' = "Top" /\ nextWork' = w /\ Disarm
        BY <2>1 DEF Preempt
    <2> QED
        BY <2>1, <2>2, <1>q DEF Disarm
<1>9. CASE OrdinaryManual \/ OrdinaryOverview \/ MandatoryOverview \/ MandatoryManual
           \/ MandatoryRequest \/ DrainBatch \/ AbsorbBegin \/ AbsorbBatch \/ AbsorbRequests
    <2>1. pc' \notin {"Idle", "Top"} /\ UNCHANGED timer
        BY <1>9 DEF OrdinaryManual, OrdinaryOverview, MandatoryOverview, MandatoryManual,
           MandatoryRequest, DrainBatch, AbsorbBegin, AbsorbBatch, AbsorbRequests, ReadOverview
    <2> QED
        BY <2>1
<1>10. CASE OrdinaryPeriodic \/ MandatoryPeriodic
    <2>1. pc' \notin {"Idle", "Top"} /\ (Disarm \/ UNCHANGED timer)
        BY <1>10 DEF OrdinaryPeriodic, MandatoryPeriodic, TickActive
    <2> QED
        BY <2>1, <1>q DEF Disarm
<1>11. CASE OrdinaryReadDone
    <2>1. \/ pc' = "Stopped" /\ UNCHANGED timer
          \/ pc' = "Top" /\ FinishSequence(scheduler.trailing)
        BY <1>11, Zenon DEF OrdinaryReadDone
    <2> QED
        BY <2>1 DEF FinishSequence
<1>12. CASE Execution
    <2>1. pc' \in {"Execute", "Reconcile"} /\ UNCHANGED timer
        BY <1>12 DEF Execution, ExecuteSingle, PlanRejected, PlanOperationApplied, PlanHalted,
           PlanCompleted, Executed
    <2> QED
        BY <2>1
<1>13. CASE MandatoryReadDone \/ MandatoryRollback
    <2>1. pc' \in {"Boundary", "Preempt", "Stopped"} /\ (Disarm \/ UNCHANGED timer)
        BY <1>13 DEF MandatoryReadDone, MandatoryRollback
    <2> QED
        BY <2>1, <1>q DEF Disarm
<1>14. CASE CompleteReconciliation
    <2>1. \/ pc' \in {"Stopped", "Urgent"} /\ UNCHANGED timer
          \/ pc' = "Top" /\ FinishSequence(trailingManual \/ scheduler.trailing)
        BY <1>14, Zenon DEF CompleteReconciliation
    <2> QED
        BY <2>1 DEF FinishSequence
<1>15. CASE CancelReconciliation
    BY <1>15 DEF CancelReconciliation
<1>16. CASE Environment \/ Terminated
    <2>1. /\ UNCHANGED <<pc, nextWork, nextTrigger, armed>>
          /\ due' = due \/ armed
        BY <1>16 DEF Environment, UiSendRequest, UiSendRollback, UiSendManual, UiConsumeEvent,
            UiClose, TimerElapses, Terminated, vars
    <2> QED
        BY <2>1
<1> QED
    BY <1>1, <1>2, <1>3, <1>4, <1>5, <1>6, <1>7, <1>8, <1>9, <1>10, <1>11, <1>12, <1>13, <1>14,
       <1>15, <1>16
       DEF Next, EngineStep, Loop, OrdinaryRefresh, Reconciliation

(* The firewall is touched only where a reconciliation follows, and the loop is
   reached again only after a complete one. *)
LEMMA ViewStep ==
    ASSUME TypeOK, HandsFollow, ViewFollows, [Next]_vars
    PROVE  ViewFollows'
<1> USE DEF lanes, control, reading, timer, history, interface, engineOnly, uiUnchanged
<1> SUFFICES ASSUME Next PROVE ViewFollows'
    BY DEF vars, ViewFollows
<1> USE DEF ViewFollows, Reconciling, Live, At, Stop
<1>f. ASSUME UNCHANGED <<unreconciled, trailingManual>>,
             pc' \in {pc, "Stopped"}
      PROVE  ViewFollows'
    BY <1>f
<1>1. CASE SendEvent \/ SendFails \/ Shutdown \/ GoIdle
    BY <1>1 DEF SendEvent, SendFails, Shutdown, GoIdle
<1>2. CASE TakeHeldRollback \/ TakeQueuedRollback \/ TakeHeldRequest \/ TakePendingRequest
           \/ ExecuteUrgent
    BY <1>2 DEF TakeHeldRollback, TakeQueuedRollback, TakeHeldRequest, TakePendingRequest,
           ExecuteUrgent, Begin
<1>3. CASE StartTriggered \/ IdleManual \/ IdlePeriodic
    <2>1. /\ pc \in {"Top", "Idle"} /\ pc' \in {"Ordinary", "Top", "Stopped"}
          /\ UNCHANGED <<unreconciled, trailingManual>>
        BY <1>3, Zenon DEF StartTriggered, IdleManual, IdlePeriodic, BeginRefresh
    <2> QED
        BY <2>1
<1>4. CASE IdleRollback \/ IdleRequest
    BY <1>4 DEF IdleRollback, IdleRequest
<1>5. CASE OrdinaryRollback \/ OrdinaryRequest
    <2>1. \E w : Preempt(w) /\ pc = "Ordinary"
        BY <1>5 DEF OrdinaryRollback, OrdinaryRequest
    <2>2. pc' \in {"Top", "Stopped"} /\ UNCHANGED <<unreconciled, trailingManual>>
        BY <2>1 DEF Preempt
    <2> QED
        BY <2>1, <2>2
<1>6. CASE OrdinaryManual \/ OrdinaryPeriodic \/ OrdinaryOverview \/ MandatoryOverview
           \/ MandatoryPeriodic \/ MandatoryManual \/ MandatoryRequest \/ DrainBatch \/ AbsorbBatch
    <2>1. UNCHANGED <<unreconciled, trailingManual>> /\ pc' \in {pc, "Stopped"}
        BY <1>6 DEF OrdinaryManual, OrdinaryPeriodic, OrdinaryOverview, MandatoryOverview,
           MandatoryPeriodic, MandatoryManual, MandatoryRequest, DrainBatch, AbsorbBatch,
           ReadOverview, TickActive
    <2> QED
        BY <2>1, <1>f
<1>7. CASE OrdinaryReadDone
    <2>1. /\ pc = "Ordinary" /\ pc' \in {"Top", "Stopped"}
          /\ UNCHANGED <<unreconciled, trailingManual>>
        BY <1>7, Zenon DEF OrdinaryReadDone
    <2> QED
        BY <2>1
<1>8. CASE Execution
    <2>1. /\ pc = "Execute" /\ pc' \in {"Execute", "Reconcile"}
          /\ UNCHANGED <<unreconciled, trailingManual>>
        BY <1>8 DEF Execution, ExecuteSingle, PlanRejected, PlanOperationApplied, PlanHalted,
           PlanCompleted, Executed
    <2> QED
        BY <2>1
<1>9. CASE BeginReconciliation
    <2>1. /\ pc = "Reconcile" /\ pc' \in {"Absorb", "Stopped"}
          /\ UNCHANGED <<unreconciled, trailingManual>>
        BY <1>9, Zenon DEF BeginReconciliation, BeginRefresh
    <2> QED
        BY <2>1
<1>10. CASE AbsorbBegin \/ AbsorbRequests \/ MandatoryReadDone \/ MandatoryRollback
    <2>1. /\ pc \in Reconciling /\ pc' \in Reconciling \cup {"Stopped"}
          /\ UNCHANGED <<unreconciled, trailingManual>>
        BY <1>10 DEF AbsorbBegin, AbsorbRequests, MandatoryReadDone, MandatoryRollback
    <2> QED
        BY <2>1
<1>11. CASE CompleteReconciliation
    <2>1. \/ pc' \in {"Stopped", "Urgent"}
          \/ pc' = "Top" /\ unreconciled' = FALSE /\ trailingManual' = FALSE
        BY <1>11, Zenon DEF CompleteReconciliation
    <2> QED
        BY <2>1
<1>12. CASE CancelReconciliation
    <2>1. pc' \in {"Stopped", "Urgent"}
        BY <1>12 DEF CancelReconciliation
    <2> QED
        BY <2>1
<1>13. CASE Environment \/ Terminated
    <2>1. UNCHANGED <<pc, unreconciled, trailingManual>>
        BY <1>13 DEF Environment, UiSendRequest, UiSendRollback, UiSendManual, UiConsumeEvent,
            UiClose, TimerElapses, Terminated, vars
    <2> QED
        BY <2>1
<1> QED
    BY <1>1, <1>2, <1>3, <1>4, <1>5, <1>6, <1>7, <1>8, <1>9, <1>10, <1>11, <1>12, <1>13
       DEF Next, EngineStep, Loop, OrdinaryRefresh, Reconciliation

-----------------------------------------------------------------------------

(* Taking the head of a numbered queue, and adding the next number to it. *)
LEMMA NumberedTail ==
    ASSUME NEW queue \in Seq(Nat), queue # <<>>, NEW base \in Nat, NumberedFrom(base, queue)
    PROVE  /\ Head(queue) = base + 1
           /\ NumberedFrom(base + 1, Tail(queue))
           /\ Len(Tail(queue)) = Len(queue) - 1
           /\ Len(queue) \in Nat /\ Len(queue) > 0
<1>1. /\ Len(queue) \in Nat /\ Len(queue) > 0
      /\ Head(queue) = queue[1]
    BY EmptySeq
<1>2. /\ Len(Tail(queue)) = Len(queue) - 1
      /\ \A i \in 1..Len(Tail(queue)) : Tail(queue)[i] = queue[i + 1]
    BY HeadTailProperties
<1>3. ASSUME NEW i \in 1..Len(Tail(queue))
      PROVE  Tail(queue)[i] = base + 1 + i
    <2>1. i + 1 \in 1..Len(queue) /\ Tail(queue)[i] = queue[i + 1]
        BY <1>1, <1>2, <1>3
    <2> QED
        BY <2>1 DEF NumberedFrom
<1> QED
    BY <1>1, <1>2, <1>3 DEF NumberedFrom

LEMMA NumberedAppend ==
    ASSUME NEW queue \in Seq(Nat), NEW base \in Nat, NumberedFrom(base, queue)
    PROVE  /\ NumberedFrom(base, Append(queue, base + Len(queue) + 1))
           /\ Len(Append(queue, base + Len(queue) + 1)) = Len(queue) + 1
           /\ Len(queue) \in Nat
<1> DEFINE e == base + Len(queue) + 1
<1>1. Len(queue) \in Nat /\ e \in Nat
    BY LenProperties
<1> HIDE DEF e
<1>2. /\ Len(Append(queue, e)) = Len(queue) + 1
      /\ \A i \in 1..Len(queue) : Append(queue, e)[i] = queue[i]
      /\ Append(queue, e)[Len(queue) + 1] = e
    BY <1>1, AppendProperties
<1>3. ASSUME NEW i \in 1..Len(Append(queue, e))
      PROVE  Append(queue, e)[i] = base + i
    <2>1. CASE i \in 1..Len(queue)
        BY <2>1, <1>2 DEF NumberedFrom
    <2>2. CASE i = Len(queue) + 1
        BY <2>2, <1>1, <1>2 DEF e
    <2> QED
        BY <2>1, <2>2, <1>1, <1>2, <1>3
<1> QED
    BY <1>1, <1>2, <1>3 DEF NumberedFrom, e

(* An empty queue is numbered from anywhere. *)
LEMMA NumberedEmpty ==
    ASSUME NEW base
    PROVE  NumberedFrom(base, <<>>) /\ Len(<<>>) = 0
BY DEF NumberedFrom

(* Requests moved from the lane keep their numbers. *)
LEMMA NumberedMove ==
    ASSUME requests \in Seq(Nat), pendingRequests \in Seq(Nat), NEW base \in Nat,
           Len(pendingRequests) <= RequestCapacity, MoveRequests,
           NumberedFrom(base, pendingRequests),
           NumberedFrom(base + Len(pendingRequests), requests)
    PROVE  /\ NumberedFrom(base, pendingRequests')
           /\ NumberedFrom(base + Len(pendingRequests'), requests')
           /\ Len(pendingRequests') + Len(requests') = Len(pendingRequests) + Len(requests)
           /\ Len(pendingRequests') \in Nat /\ Len(requests') \in Nat
<1>1. /\ Movable \in 0..Len(requests)
      /\ Len(pendingRequests') = Len(pendingRequests) + Movable
      /\ Len(requests') = Len(requests) - Movable
      /\ \A i \in 1..Len(pendingRequests') : pendingRequests'[i] =
                 IF i <= Len(pendingRequests) THEN pendingRequests[i]
                 ELSE requests[i - Len(pendingRequests)]
      /\ \A i \in 1..Len(requests') : requests'[i] = requests[Movable + i]
    BY MoveProperties
<1>2. Len(requests) \in Nat /\ Len(pendingRequests) \in Nat
    BY LenProperties
<1>3. ASSUME NEW i \in 1..Len(pendingRequests')
      PROVE  pendingRequests'[i] = base + i
    <2>1. CASE i <= Len(pendingRequests)
        <3>1. pendingRequests'[i] = pendingRequests[i] /\ i \in 1..Len(pendingRequests)
            BY <2>1, <1>1, <1>2, <1>3
        <3> QED
            BY <3>1 DEF NumberedFrom
    <2>2. CASE ~(i <= Len(pendingRequests))
        <3>1. /\ pendingRequests'[i] = requests[i - Len(pendingRequests)]
              /\ i - Len(pendingRequests) \in 1..Len(requests)
            BY <2>2, <1>1, <1>2, <1>3
        <3>2. requests[i - Len(pendingRequests)]
                = base + Len(pendingRequests) + (i - Len(pendingRequests))
            BY <3>1 DEF NumberedFrom
        <3> QED
            BY <3>1, <3>2, <1>2
    <2> QED
        BY <2>1, <2>2
<1>4. ASSUME NEW i \in 1..Len(requests')
      PROVE  requests'[i] = base + Len(pendingRequests') + i
    <2>1. requests'[i] = requests[Movable + i] /\ Movable + i \in 1..Len(requests)
        BY <1>1, <1>2, <1>4
    <2>2. requests[Movable + i] = base + Len(pendingRequests) + (Movable + i)
        BY <2>1 DEF NumberedFrom
    <2> QED
        BY <2>1, <2>2, <1>1, <1>2
<1> QED
    BY <1>1, <1>2, <1>3, <1>4 DEF NumberedFrom

(* The lanes hold numbers. *)
LEMMA LanesHoldNumbers ==
    ASSUME LanesTyped
    PROVE  requests \in Seq(Nat) /\ pendingRequests \in Seq(Nat) /\ rollbacks \in Seq(Nat)
<1>1. 1..MaxRequests \subseteq Nat /\ 1..MaxRollbacks \subseteq Nat
    OBVIOUS
<1> QED
    BY <1>1, SeqMonotonic DEF LanesTyped

(* No step loses, repeats or reorders a request. *)
LEMMA RequestsStep ==
    ASSUME TypeOK, HandsFollow, RequestsInOrder, [Next]_vars
    PROVE  /\ RequestsInOrder'
           /\ requestsSent' \in 0..MaxRequests /\ requestsBegun' \in 0..MaxRequests
<1> USE EngineAssumption
<1> USE DEF lanes, control, reading, timer, history, interface, engineOnly, uiUnchanged
<1> DEFINE Goal == /\ RequestsInOrder
                   /\ requestsSent \in 0..MaxRequests /\ requestsBegun \in 0..MaxRequests
<1> SUFFICES ASSUME Next PROVE Goal'
    BY DEF vars, RequestsInOrder, HeldRequests, TypeOK, CountersTyped
<1> USE DEF Live, At, Stop
<1>q. /\ requestsSent \in 0..MaxRequests /\ requestsBegun \in 0..MaxRequests
      /\ requests \in Seq(Nat) /\ pendingRequests \in Seq(Nat)
      /\ Len(requests) \in Nat /\ Len(pendingRequests) \in Nat
      /\ nextWork \in Work \cup {NoWork} /\ work \in Work \cup {NoWork}
      /\ HeldRequests \in {0, 1}
    BY LanesHoldNumbers, LenProperties DEF TypeOK, CountersTyped, WorkTyped, HeldRequests
<1>f. ASSUME UNCHANGED <<requests, pendingRequests, requestsSent, requestsBegun>>,
             nextWork' = nextWork \/ (nextWork.kind # "Normal" /\ nextWork'.kind # "Normal"),
             pc # "Stopped" \/ pc' = "Stopped"
      PROVE  Goal'
    BY <1>f, <1>q DEF RequestsInOrder, HeldRequests
<1>z. ASSUME pc' = "Stopped", UNCHANGED <<requestsSent, requestsBegun>>
      PROVE  Goal'
    BY <1>z, <1>q DEF RequestsInOrder
<1>1. CASE SendEvent \/ SendFails \/ Shutdown \/ GoIdle \/ StartTriggered \/ IdleManual
           \/ IdlePeriodic
    <2>1. /\ UNCHANGED <<requests, pendingRequests, requestsSent, requestsBegun, nextWork>>
          /\ pc # "Stopped"
        BY <1>1, Zenon DEF SendEvent, SendFails, Shutdown, GoIdle, StartTriggered, IdleManual,
              IdlePeriodic
    <2> QED
        BY <2>1, <1>f
<1>2. CASE TakeHeldRollback \/ TakeQueuedRollback
    <2>1. /\ UNCHANGED <<requests, pendingRequests, requestsSent, requestsBegun>>
          /\ nextWork' = nextWork \/ (nextWork.kind # "Normal" /\ nextWork'.kind # "Normal")
          /\ pc # "Stopped"
        BY <1>2 DEF TakeHeldRollback, TakeQueuedRollback, Begin, Rollback, NoWork
    <2> QED
        BY <2>1, <1>f
<1>3. CASE TakeHeldRequest
    <2>1. /\ nextWork.kind = "Normal" /\ nextWork'.kind = "None" /\ pc # "Stopped"
          /\ requestsBegun' = requestsBegun + 1
          /\ UNCHANGED <<requests, pendingRequests, requestsSent>>
        BY <1>3 DEF TakeHeldRequest, Begin, NoWork
    <2>2. HeldRequests = 1 /\ HeldRequests' = 0
        BY <2>1 DEF HeldRequests
    <2>3. requestsBegun' + HeldRequests' = requestsBegun + HeldRequests
        BY <2>1, <2>2, <1>q
    <2>4. RequestsInOrder'
        BY <2>1, <2>3 DEF RequestsInOrder
    <2>5. requestsBegun' \in 0..MaxRequests
        BY <2>1, <2>2, <1>q DEF RequestsInOrder
    <2> QED
        BY <2>1, <2>4, <2>5, <1>q
<1>4. CASE TakePendingRequest
    <2>1. /\ nextWork = NoWork /\ nextWork' = NoWork /\ pc # "Stopped"
          /\ pendingRequests # <<>> /\ pendingRequests' = Tail(pendingRequests)
          /\ requestsBegun' = requestsBegun + 1
          /\ UNCHANGED <<requests, requestsSent>>
        BY <1>4 DEF TakePendingRequest, Begin, Normal
    <2>2. HeldRequests = 0 /\ HeldRequests' = 0
        BY <2>1 DEF HeldRequests, NoWork
    <2>3. /\ NumberedFrom(requestsBegun, pendingRequests)
          /\ NumberedFrom(requestsBegun + Len(pendingRequests), requests)
          /\ requestsSent = requestsBegun + Len(pendingRequests) + Len(requests)
        BY <2>1, <2>2, <1>q DEF RequestsInOrder
    <2>4. /\ NumberedFrom(requestsBegun + 1, Tail(pendingRequests))
          /\ Len(Tail(pendingRequests)) = Len(pendingRequests) - 1
          /\ Len(pendingRequests) > 0
        BY <2>1, <2>3, <1>q, NumberedTail
    <2>5. requestsBegun' + Len(pendingRequests') = requestsBegun + Len(pendingRequests)
        BY <2>1, <2>4, <1>q
    <2>6. RequestsInOrder'
        BY <2>1, <2>2, <2>3, <2>4, <2>5, <1>q DEF RequestsInOrder, NoWork
    <2> QED
        BY <2>1, <2>3, <2>4, <2>6, <1>q
<1>5. CASE IdleRequest \/ OrdinaryRequest
    <2>1. /\ nextWork = NoWork /\ pendingRequests = <<>> /\ pc # "Stopped"
          /\ requests # <<>> /\ requests' = Tail(requests)
          /\ UNCHANGED <<pendingRequests, requestsSent, requestsBegun>>
          /\ \/ nextWork' = Normal(Head(requests))
             \/ pc' = "Stopped"
        BY <1>5 DEF IdleRequest, OrdinaryRequest, Preempt, RequestReady, HandsFollow
    <2>2. HeldRequests = 0
        BY <2>1 DEF HeldRequests, NoWork
    <2>3. /\ NumberedFrom(requestsBegun, requests)
          /\ requestsSent = requestsBegun + Len(requests)
        BY <2>1, <2>2, <1>q DEF RequestsInOrder
    <2>4. /\ Head(requests) = requestsBegun + 1
          /\ NumberedFrom(requestsBegun + 1, Tail(requests))
          /\ Len(Tail(requests)) = Len(requests) - 1
        BY <2>1, <2>3, <1>q, NumberedTail
    <2>5. CASE nextWork' = Normal(Head(requests))
        <3>1. HeldRequests' = 1 /\ nextWork'.id = requestsBegun + 1
            BY <2>4, <2>5 DEF HeldRequests, Normal
        <3>2. RequestsInOrder'
            BY <2>1, <2>3, <2>4, <3>1, <1>q, NumberedEmpty DEF RequestsInOrder
        <3> QED
            BY <2>1, <3>2, <1>q
    <2>6. CASE pc' = "Stopped"
        BY <2>1, <2>6, <1>z
    <2> QED
        BY <2>1, <2>5, <2>6
<1>6. CASE IdleRollback \/ OrdinaryRollback
    <2>1. /\ nextWork = NoWork /\ pc # "Stopped"
          /\ UNCHANGED <<requests, pendingRequests, requestsSent, requestsBegun>>
          /\ \/ nextWork' = Rollback(Head(rollbacks))
             \/ nextWork' = nextWork
        BY <1>6 DEF IdleRollback, OrdinaryRollback, Preempt, HandsFollow
    <2>2. nextWork' = nextWork \/ (nextWork.kind # "Normal" /\ nextWork'.kind # "Normal")
        BY <2>1 DEF Rollback, NoWork
    <2> QED
        BY <2>1, <2>2, <1>f
<1>7. CASE OrdinaryManual \/ OrdinaryPeriodic \/ OrdinaryOverview \/ OrdinaryReadDone
           \/ MandatoryOverview \/ MandatoryReadDone \/ MandatoryRollback \/ MandatoryPeriodic
           \/ MandatoryManual \/ DrainBatch \/ CancelReconciliation
    <2>1. /\ UNCHANGED <<requests, pendingRequests, requestsSent, requestsBegun, nextWork>>
          /\ pc # "Stopped"
        BY <1>7, Zenon DEF OrdinaryManual, OrdinaryPeriodic, OrdinaryOverview, OrdinaryReadDone,
           MandatoryOverview, MandatoryReadDone, MandatoryRollback, MandatoryPeriodic,
           MandatoryManual, DrainBatch, CancelReconciliation, TickActive, ReadOverview
    <2> QED
        BY <2>1, <1>f
<1>8. CASE Execution \/ BeginReconciliation \/ AbsorbBegin \/ AbsorbBatch
    <2>1. /\ UNCHANGED <<requests, pendingRequests, requestsSent, requestsBegun, nextWork>>
          /\ pc # "Stopped"
        BY <1>8, Zenon DEF Execution, ExecuteSingle, PlanRejected, PlanOperationApplied, PlanHalted,
           PlanCompleted, Executed, BeginReconciliation, AbsorbBegin, AbsorbBatch
    <2> QED
        BY <2>1, <1>f
<1>9. CASE AbsorbRequests \/ CompleteReconciliation
    <2>1. /\ MoveRequests /\ pc # "Stopped"
          /\ UNCHANGED <<nextWork, requestsSent, requestsBegun>>
        BY <1>9, Zenon DEF AbsorbRequests, CompleteReconciliation
    <2>2. /\ NumberedFrom(requestsBegun + HeldRequests, pendingRequests)
          /\ NumberedFrom(requestsBegun + HeldRequests + Len(pendingRequests), requests)
        BY <2>1 DEF RequestsInOrder
    <2>3. Len(pendingRequests) <= RequestCapacity
        BY DEF TypeOK, LanesTyped
    <2> DEFINE base == requestsBegun + HeldRequests
    <2>4. base \in Nat
        BY <1>q
    <2> HIDE DEF base
    <2>5. /\ NumberedFrom(base, pendingRequests')
          /\ NumberedFrom(base + Len(pendingRequests'), requests')
          /\ Len(pendingRequests') + Len(requests') = Len(pendingRequests) + Len(requests)
          /\ Len(pendingRequests') \in Nat /\ Len(requests') \in Nat
        BY <2>1, <2>2, <2>3, <2>4, <1>q, NumberedMove DEF base
    <2>6. requestsBegun' + HeldRequests' = base
        BY <2>1 DEF HeldRequests, base
    <2>7. requestsSent' = base + Len(pendingRequests') + Len(requests')
        <3>1. requestsSent = base + Len(pendingRequests) + Len(requests)
            BY <2>1 DEF RequestsInOrder, base
        <3>2. /\ Len(pendingRequests') + Len(requests') = Len(pendingRequests) + Len(requests)
              /\ Len(pendingRequests') \in Nat /\ Len(requests') \in Nat
              /\ Len(pendingRequests) \in Nat /\ Len(requests) \in Nat
              /\ requestsSent' = requestsSent
            BY <2>1, <2>5, <1>q
        <3> QED
            BY <3>1, <3>2, <2>4
    <2>8. RequestsInOrder'
        BY <2>1, <2>5, <2>6, <2>7 DEF RequestsInOrder
    <2> QED
        BY <2>1, <2>8, <1>q
<1>10. CASE MandatoryRequest
    <2>1. /\ requests # <<>> /\ requests' = Tail(requests) /\ pc # "Stopped"
          /\ pendingRequests' = Append(pendingRequests, Head(requests))
          /\ UNCHANGED <<nextWork, requestsSent, requestsBegun>>
        BY <1>10 DEF MandatoryRequest, RequestReady
    <2> DEFINE base == requestsBegun + HeldRequests
    <2>2. /\ NumberedFrom(base, pendingRequests)
          /\ NumberedFrom(base + Len(pendingRequests), requests)
          /\ base \in Nat /\ base + Len(pendingRequests) \in Nat
          /\ requestsSent = base + Len(pendingRequests) + Len(requests)
        BY <2>1, <1>q DEF RequestsInOrder
    <2>3. requestsBegun' + HeldRequests' = base
        BY <2>1 DEF HeldRequests
    <2> HIDE DEF base
    <2>4. /\ Head(requests) = base + Len(pendingRequests) + 1
          /\ NumberedFrom(base + Len(pendingRequests) + 1, Tail(requests))
          /\ Len(Tail(requests)) = Len(requests) - 1
        BY <2>1, <2>2, <1>q, NumberedTail
    <2>5. /\ NumberedFrom(base, pendingRequests')
          /\ Len(pendingRequests') = Len(pendingRequests) + 1
        BY <2>1, <2>2, <2>4, <1>q, NumberedAppend
    <2>6. /\ base + Len(pendingRequests') = base + Len(pendingRequests) + 1
          /\ requestsSent' = base + Len(pendingRequests') + Len(requests')
        BY <2>1, <2>2, <2>4, <2>5, <1>q
    <2>7. NumberedFrom(base + Len(pendingRequests'), requests')
        BY <2>1, <2>4, <2>6
    <2>8. nextWork'.kind = "Normal" => nextWork'.id = requestsBegun' + 1
        BY <2>1 DEF RequestsInOrder
    <2>9. RequestsInOrder'
        BY <2>3, <2>5, <2>6, <2>7, <2>8 DEF RequestsInOrder
    <2> QED
        BY <2>1, <2>9, <1>q
<1>11. CASE ExecuteUrgent
    <2>1. /\ UNCHANGED <<requests, pendingRequests, requestsSent, requestsBegun, nextWork>>
          /\ pc # "Stopped"
        BY <1>11 DEF ExecuteUrgent, Begin, HandsFollow, UrgentInHand
    <2> QED
        BY <2>1, <1>f
<1>12. CASE UiSendRequest
    <2>1. /\ requestsSent < MaxRequests /\ requestsSent' = requestsSent + 1
          /\ requests' = Append(requests, requestsSent + 1)
          /\ UNCHANGED <<pendingRequests, requestsBegun, nextWork, pc>>
        BY <1>12 DEF UiSendRequest
    <2>2. CASE pc = "Stopped"
        BY <2>1, <2>2, <1>q DEF RequestsInOrder
    <2>3. CASE pc # "Stopped"
        <3> DEFINE base == requestsBegun + HeldRequests + Len(pendingRequests)
        <3>1. /\ NumberedFrom(base, requests) /\ base \in Nat
              /\ requestsSent = base + Len(requests)
            BY <2>3, <1>q DEF RequestsInOrder
        <3>2. requestsBegun' + HeldRequests' + Len(pendingRequests') = base
            BY <2>1 DEF HeldRequests
        <3>3. /\ nextWork'.kind = "Normal" => nextWork'.id = requestsBegun' + 1
              /\ NumberedFrom(requestsBegun' + HeldRequests', pendingRequests')
            BY <2>1, <2>3 DEF RequestsInOrder, HeldRequests
        <3> HIDE DEF base
        <3>4. /\ NumberedFrom(base, requests')
              /\ Len(requests') = Len(requests) + 1
            BY <2>1, <3>1, <1>q, NumberedAppend
        <3>5. requestsSent' = base + Len(requests')
            BY <2>1, <3>1, <3>4, <1>q
        <3>6. RequestsInOrder'
            BY <3>2, <3>3, <3>4, <3>5 DEF RequestsInOrder
        <3> QED
            BY <2>1, <3>6, <1>q
    <2> QED
        BY <2>2, <2>3
<1>13. CASE UiSendRollback \/ UiSendManual \/ UiConsumeEvent \/ UiClose \/ TimerElapses
            \/ Terminated
    <2>1. UNCHANGED <<requests, pendingRequests, requestsSent, requestsBegun, nextWork, pc>>
        BY <1>13 DEF UiSendRollback, UiSendManual, UiConsumeEvent, UiClose, TimerElapses,
              Terminated, vars
    <2> QED
        BY <2>1, <1>f
<1> QED
    BY <1>1, <1>2, <1>3, <1>4, <1>5, <1>6, <1>7, <1>8, <1>9, <1>10, <1>11, <1>12, <1>13
       DEF Next, EngineStep, Loop, OrdinaryRefresh, Reconciliation, Environment

(* No step loses, repeats or reorders a rollback. *)
LEMMA RollbacksStep ==
    ASSUME TypeOK, HandsFollow, RollbacksInOrder, [Next]_vars
    PROVE  /\ RollbacksInOrder'
           /\ rollbacksSent' \in 0..MaxRollbacks /\ rollbacksBegun' \in 0..MaxRollbacks
<1> USE EngineAssumption
<1> USE DEF lanes, control, reading, timer, history, interface, engineOnly, uiUnchanged
<1> DEFINE Goal == /\ RollbacksInOrder
                   /\ rollbacksSent \in 0..MaxRollbacks /\ rollbacksBegun \in 0..MaxRollbacks
<1> SUFFICES ASSUME Next PROVE Goal'
    BY DEF vars, RollbacksInOrder, HeldRollbacks, UrgentInHand, TypeOK, CountersTyped
<1> USE DEF Live, At, Stop
<1>q. /\ rollbacksSent \in 0..MaxRollbacks /\ rollbacksBegun \in 0..MaxRollbacks
      /\ rollbacks \in Seq(Nat) /\ Len(rollbacks) \in Nat
      /\ nextWork \in Work \cup {NoWork} /\ work \in Work \cup {NoWork}
      /\ HeldRollbacks \in {0, 1}
    BY LanesHoldNumbers, LenProperties DEF TypeOK, CountersTyped, WorkTyped, HeldRollbacks
<1>f. ASSUME UNCHANGED <<rollbacks, rollbacksSent, rollbacksBegun>>,
             nextWork' = nextWork \/ (nextWork.kind # "Rollback" /\ nextWork'.kind # "Rollback"),
             pc \notin {"Preempt", "Urgent", "Stopped"}, pc' \notin {"Preempt", "Urgent"}
      PROVE  Goal'
    <2>1. ~UrgentInHand /\ ~UrgentInHand'
        BY <1>f DEF UrgentInHand
    <2>2. HeldRollbacks' = HeldRollbacks
        BY <1>f, <2>1 DEF HeldRollbacks
    <2> QED
        BY <1>f, <2>1, <2>2, <1>q DEF RollbacksInOrder
<1>g. ASSUME UNCHANGED <<rollbacks, rollbacksSent, rollbacksBegun, nextWork, work>>,
             pc' = pc \/ {pc, pc'} \subseteq {"Preempt", "Urgent"}
      PROVE  Goal'
    <2>1. UrgentInHand' = UrgentInHand
        BY <1>g DEF UrgentInHand
    <2>2. HeldRollbacks' = HeldRollbacks
        BY <1>g, <2>1 DEF HeldRollbacks
    <2> QED
        BY <1>g, <2>1, <2>2, <1>q DEF RollbacksInOrder
<1>z. ASSUME pc' = "Stopped", UNCHANGED <<rollbacksSent, rollbacksBegun>>
      PROVE  Goal'
    BY <1>z, <1>q DEF RollbacksInOrder
<1>t. ASSUME pc # "Stopped", nextWork.kind # "Rollback", ~UrgentInHand,
             rollbacks # <<>>, rollbacks' = Tail(rollbacks), UNCHANGED rollbacksSent
      PROVE  /\ Head(rollbacks) = rollbacksBegun + 1
             /\ NumberedFrom(rollbacksBegun + 1, rollbacks')
             /\ rollbacksSent' = rollbacksBegun + 1 + Len(rollbacks')
             /\ rollbacksBegun + 1 \in 0..MaxRollbacks
    <2>1. HeldRollbacks = 0
        BY <1>t DEF HeldRollbacks
    <2>2. NumberedFrom(rollbacksBegun, rollbacks) /\ rollbacksSent = rollbacksBegun + Len(rollbacks)
        BY <2>1, <1>t, <1>q DEF RollbacksInOrder
    <2>3. /\ Head(rollbacks) = rollbacksBegun + 1
          /\ NumberedFrom(rollbacksBegun + 1, Tail(rollbacks))
          /\ Len(Tail(rollbacks)) = Len(rollbacks) - 1
          /\ Len(rollbacks) > 0
        BY <2>2, <1>t, <1>q, NumberedTail
    <2> QED
        BY <2>2, <2>3, <1>t, <1>q
<1>h. ASSUME pc # "Stopped", nextWork.kind # "Rollback", ~UrgentInHand,
             rollbacks # <<>>, rollbacks' = Tail(rollbacks),
             UNCHANGED <<rollbacksSent, rollbacksBegun>>,
             \/ nextWork' = Rollback(Head(rollbacks)) /\ ~UrgentInHand'
             \/ UNCHANGED nextWork /\ UrgentInHand' /\ work' = Rollback(Head(rollbacks))
      PROVE  Goal'
    <2>1. /\ Head(rollbacks) = rollbacksBegun + 1
          /\ NumberedFrom(rollbacksBegun + 1, rollbacks')
          /\ rollbacksSent' = rollbacksBegun + 1 + Len(rollbacks')
        BY <1>h, <1>t
    <2>2. HeldRollbacks' = 1
        BY <1>h DEF HeldRollbacks, Rollback
    <2>3. /\ nextWork'.kind = "Rollback" => nextWork'.id = rollbacksBegun' + 1
          /\ UrgentInHand' => work'.id = rollbacksBegun' + 1
        BY <2>1, <1>h DEF Rollback
    <2>4. RollbacksInOrder'
        BY <2>1, <2>2, <2>3, <1>h DEF RollbacksInOrder
    <2> QED
        BY <2>4, <1>h, <1>q
<1>b. ASSUME pc # "Stopped", HeldRollbacks = 1, HeldRollbacks' = 0, UNCHANGED rollbacks,
             rollbacksBegun' = rollbacksBegun + 1, UNCHANGED rollbacksSent,
             nextWork'.kind # "Rollback", ~UrgentInHand'
      PROVE  Goal'
    <2>1. rollbacksBegun' + HeldRollbacks' = rollbacksBegun + HeldRollbacks
        BY <1>b, <1>q
    <2>2. RollbacksInOrder'
        BY <2>1, <1>b DEF RollbacksInOrder
    <2>3. rollbacksBegun + 1 \in 0..MaxRollbacks
        BY <1>b, <1>q DEF RollbacksInOrder
    <2> QED
        BY <2>2, <2>3, <1>b, <1>q
<1>1. CASE SendEvent \/ SendFails \/ Shutdown
    <2>1. /\ UNCHANGED <<rollbacks, rollbacksSent, rollbacksBegun, nextWork, work>>
          /\ pc # "Stopped" /\ pc' \in {pc, "Stopped"}
        BY <1>1 DEF SendEvent, SendFails, Shutdown
    <2> QED
        BY <2>1, <1>g, <1>z
<1>2. CASE GoIdle \/ StartTriggered \/ IdleManual \/ IdlePeriodic
    <2>1. /\ UNCHANGED <<rollbacks, rollbacksSent, rollbacksBegun, nextWork, work>>
          /\ pc \in {"Top", "Idle"} /\ pc' \in {"Top", "Idle", "Ordinary", "Stopped"}
        BY <1>2, Zenon DEF GoIdle, StartTriggered, IdleManual, IdlePeriodic, BeginRefresh
    <2> QED
        BY <2>1, <1>f
<1>3. CASE TakeHeldRollback
    <2>1. /\ pc = "Top" /\ pc' = "Execute" /\ nextWork.kind = "Rollback" /\ nextWork'.kind = "None"
          /\ rollbacksBegun' = rollbacksBegun + 1 /\ UNCHANGED <<rollbacks, rollbacksSent>>
        BY <1>3 DEF TakeHeldRollback, Begin, NoWork
    <2> QED
        BY <2>1, <1>b DEF HeldRollbacks, UrgentInHand
<1>4. CASE TakeQueuedRollback
    <2>1. /\ pc = "Top" /\ pc' = "Execute" /\ nextWork.kind # "Rollback"
          /\ rollbacks # <<>> /\ rollbacks' = Tail(rollbacks)
          /\ rollbacksBegun' = rollbacksBegun + 1 /\ UNCHANGED <<nextWork, rollbacksSent>>
        BY <1>4 DEF TakeQueuedRollback, Begin, Rollback, RollbackReady
    <2>2. /\ NumberedFrom(rollbacksBegun + 1, rollbacks')
          /\ rollbacksSent' = rollbacksBegun + 1 + Len(rollbacks')
          /\ rollbacksBegun + 1 \in 0..MaxRollbacks
        BY <2>1, <1>t DEF UrgentInHand
    <2>3. HeldRollbacks' = 0
        BY <2>1 DEF HeldRollbacks, UrgentInHand
    <2>4. rollbacksBegun' + HeldRollbacks' = rollbacksBegun + 1
        BY <2>1, <2>3, <1>q
    <2>5. RollbacksInOrder'
        BY <2>1, <2>2, <2>4 DEF RollbacksInOrder, UrgentInHand
    <2> QED
        BY <2>1, <2>2, <2>5, <1>q
<1>5. CASE TakeHeldRequest \/ TakePendingRequest
    <2>1. /\ pc = "Top" /\ pc' = "Execute"
          /\ nextWork.kind # "Rollback" /\ nextWork'.kind # "Rollback"
          /\ UNCHANGED <<rollbacks, rollbacksSent, rollbacksBegun>>
        BY <1>5 DEF TakeHeldRequest, TakePendingRequest, Begin, Normal, NoWork
    <2> QED
        BY <2>1, <1>f
<1>6. CASE IdleRequest \/ OrdinaryRequest
    <2>1. /\ pc \in {"Idle", "Ordinary"} /\ pc' \in {"Top", "Stopped"}
          /\ UNCHANGED <<rollbacks, rollbacksSent, rollbacksBegun>>
          /\ nextWork = NoWork /\ nextWork' \in {NoWork, Normal(Head(requests))}
        BY <1>6 DEF IdleRequest, OrdinaryRequest, Preempt, HandsFollow
    <2>2. nextWork.kind # "Rollback" /\ nextWork'.kind # "Rollback"
        BY <2>1 DEF NoWork, Normal
    <2> QED
        BY <2>1, <2>2, <1>f
<1>7. CASE IdleRollback \/ OrdinaryRollback
    <2>1. /\ pc \in {"Idle", "Ordinary"} /\ nextWork = NoWork
          /\ rollbacks # <<>> /\ rollbacks' = Tail(rollbacks)
          /\ UNCHANGED <<rollbacksSent, rollbacksBegun>>
          /\ \/ pc' = "Top" /\ nextWork' = Rollback(Head(rollbacks))
             \/ pc' = "Stopped"
        BY <1>7 DEF IdleRollback, OrdinaryRollback, Preempt, RollbackReady, HandsFollow
    <2>2. nextWork.kind # "Rollback"
        BY <2>1 DEF NoWork
    <2> QED
        BY <2>1, <2>2, <1>h, <1>z DEF UrgentInHand
<1>8. CASE OrdinaryManual \/ OrdinaryPeriodic \/ OrdinaryOverview \/ OrdinaryReadDone
           \/ MandatoryOverview \/ MandatoryPeriodic \/ MandatoryManual \/ MandatoryRequest
           \/ MandatoryReadDone
    <2>1. /\ UNCHANGED <<rollbacks, rollbacksSent, rollbacksBegun, nextWork, work>>
          /\ pc \in {"Ordinary", "Mandatory"}
          /\ pc' \in {"Ordinary", "Mandatory", "Top", "Boundary", "Stopped"}
        BY <1>8, Zenon DEF OrdinaryManual, OrdinaryPeriodic, OrdinaryOverview, OrdinaryReadDone,
           MandatoryOverview, MandatoryPeriodic, MandatoryManual, MandatoryRequest,
           MandatoryReadDone, TickActive, ReadOverview
    <2> QED
        BY <2>1, <1>f
<1>9. CASE Execution \/ BeginReconciliation \/ AbsorbBegin \/ AbsorbBatch \/ AbsorbRequests
    <2>1. /\ UNCHANGED <<rollbacks, rollbacksSent, rollbacksBegun, nextWork>>
          /\ pc \in {"Execute", "Reconcile", "Absorb", "AbsorbManual"}
          /\ pc' \in {"Execute", "Reconcile", "Absorb", "AbsorbManual", "Mandatory", "Stopped"}
        BY <1>9, Zenon DEF Execution, ExecuteSingle, PlanRejected, PlanOperationApplied, PlanHalted,
           PlanCompleted, Executed, BeginReconciliation, BeginRefresh, AbsorbBegin, AbsorbBatch,
           AbsorbRequests
    <2> QED
        BY <2>1, <1>f
<1>10. CASE MandatoryRollback
    <2>1. /\ pc = "Mandatory" /\ nextWork.kind # "Rollback"
          /\ rollbacks # <<>> /\ rollbacks' = Tail(rollbacks)
          /\ UNCHANGED <<nextWork, rollbacksSent, rollbacksBegun>>
          /\ \/ pc' = "Preempt" /\ work' = Rollback(Head(rollbacks))
             \/ pc' = "Stopped"
        BY <1>10 DEF MandatoryRollback, RollbackReady, HandsFollow
    <2> QED
        BY <2>1, <1>h, <1>z DEF UrgentInHand
<1>11. CASE DrainBatch
    <2>1. UNCHANGED <<rollbacks, rollbacksSent, rollbacksBegun, nextWork, work, pc>>
        BY <1>11 DEF DrainBatch
    <2> QED
        BY <2>1, <1>g
<1>12. CASE CompleteReconciliation
    <2>1. /\ pc = "Boundary" /\ nextWork.kind # "Rollback"
          /\ UNCHANGED <<nextWork, rollbacksSent, rollbacksBegun>>
          /\ \/ pc' = "Stopped"
             \/ /\ rollbacks # <<>> /\ rollbacks' = Tail(rollbacks)
                /\ pc' = "Urgent" /\ work' = Rollback(Head(rollbacks))
             \/ UNCHANGED rollbacks /\ pc' = "Top"
        BY <1>12, Zenon DEF CompleteReconciliation, RollbackReady, HandsFollow
    <2>2. CASE pc' = "Stopped"
        BY <2>1, <2>2, <1>z
    <2>3. CASE /\ rollbacks # <<>> /\ rollbacks' = Tail(rollbacks)
               /\ pc' = "Urgent" /\ work' = Rollback(Head(rollbacks))
        BY <2>1, <2>3, <1>h DEF UrgentInHand
    <2>4. CASE UNCHANGED rollbacks /\ pc' = "Top"
        BY <2>1, <2>4, <1>f
    <2> QED
        BY <2>1, <2>2, <2>3, <2>4
<1>13. CASE CancelReconciliation
    <2>1. /\ UNCHANGED <<rollbacks, rollbacksSent, rollbacksBegun, nextWork, work>>
          /\ pc = "Preempt" /\ pc' \in {"Urgent", "Stopped"}
        BY <1>13 DEF CancelReconciliation
    <2> QED
        BY <2>1, <1>g, <1>z
<1>14. CASE ExecuteUrgent
    <2>1. /\ pc = "Urgent" /\ pc' = "Execute" /\ nextWork.kind # "Rollback"
          /\ rollbacksBegun' = rollbacksBegun + 1
          /\ UNCHANGED <<rollbacks, rollbacksSent, nextWork>>
        BY <1>14 DEF ExecuteUrgent, Begin, HandsFollow, UrgentInHand
    <2> QED
        BY <2>1, <1>b DEF HeldRollbacks, UrgentInHand
<1>15. CASE UiSendRollback
    <2>1. /\ rollbacksSent < MaxRollbacks /\ rollbacksSent' = rollbacksSent + 1
          /\ rollbacks' = Append(rollbacks, rollbacksSent + 1)
          /\ UNCHANGED <<rollbacksBegun, nextWork, work, pc>>
        BY <1>15 DEF UiSendRollback
    <2>2. CASE pc = "Stopped"
        BY <2>1, <2>2, <1>q DEF RollbacksInOrder
    <2>3. CASE pc # "Stopped"
        <3> DEFINE base == rollbacksBegun + HeldRollbacks
        <3>1. /\ NumberedFrom(base, rollbacks) /\ base \in Nat
              /\ rollbacksSent = base + Len(rollbacks)
            BY <2>3, <1>q DEF RollbacksInOrder
        <3>2. rollbacksBegun' + HeldRollbacks' = base
            BY <2>1 DEF HeldRollbacks, UrgentInHand
        <3>3. /\ nextWork'.kind = "Rollback" => nextWork'.id = rollbacksBegun' + 1
              /\ UrgentInHand' => work'.id = rollbacksBegun' + 1
            BY <2>1, <2>3 DEF RollbacksInOrder, UrgentInHand
        <3> HIDE DEF base
        <3>4. /\ NumberedFrom(base, rollbacks')
              /\ Len(rollbacks') = Len(rollbacks) + 1
            BY <2>1, <3>1, <1>q, NumberedAppend
        <3>5. rollbacksSent' = base + Len(rollbacks')
            BY <2>1, <3>1, <3>4, <1>q
        <3>6. RollbacksInOrder'
            BY <3>2, <3>3, <3>4, <3>5 DEF RollbacksInOrder
        <3> QED
            BY <2>1, <3>6, <1>q
    <2> QED
        BY <2>2, <2>3
<1>16. CASE UiSendRequest \/ UiSendManual \/ UiConsumeEvent \/ UiClose \/ TimerElapses
            \/ Terminated
    <2>1. UNCHANGED <<rollbacks, rollbacksSent, rollbacksBegun, nextWork, work, pc>>
        BY <1>16 DEF UiSendRequest, UiSendManual, UiConsumeEvent, UiClose, TimerElapses,
              Terminated, vars
    <2> QED
        BY <2>1, <1>g
<1> QED
    BY <1>1, <1>2, <1>3, <1>4, <1>5, <1>6, <1>7, <1>8, <1>9, <1>10, <1>11, <1>12, <1>13, <1>14,
       <1>15, <1>16
       DEF Next, EngineStep, Loop, OrdinaryRefresh, Reconciliation, Environment

-----------------------------------------------------------------------------

(* A demand stays remembered: what forgets one trace of it leaves another. *)
LEMMA DemandStep ==
    ASSUME TypeOK, SchedulerFollows, HandsFollow, ViewFollows, DemandRemembered, [Next]_vars
    PROVE  DemandRemembered'
<1> USE DEF lanes, control, reading, timer, history, interface, engineOnly, uiUnchanged
<1> SUFFICES ASSUME Next PROVE DemandRemembered'
    BY DEF vars, DemandRemembered
<1> USE DEF Live, At, Stop
<1>q. scheduler \in Scheduler /\ manual \in Seq(ManualBatch)
    BY DEF TypeOK, RefreshTyped, LanesTyped
<1>w. ASSUME NEW w
      PROVE  /\ Serve(w) # "owed"
             /\ Served(w) = "owed" => w = "owed"
    BY DEF Serve, Served
<1>a. ASSUME pc' \in {"Execute", "Reconcile", "Preempt", "Urgent", "Stopped"}
      PROVE  DemandRemembered'
    BY <1>a DEF DemandRemembered
<1>f. ASSUME pc' = pc \/ pc \notin {"Execute", "Reconcile", "Preempt", "Urgent", "Stopped"},
             watch' = "owed" => watch = "owed" \/ scheduler'.trailing,
             scheduler.trailing => scheduler'.trailing,
             UNCHANGED <<trailingManual, nextTrigger, nextWork>>
      PROVE  DemandRemembered'
    BY <1>f DEF DemandRemembered
<1>i. pc = "Idle" => watch # "owed"
    BY DEF DemandRemembered, SchedulerFollows, HandsFollow, ViewFollows, BetweenReads
<1>1. CASE SendEvent
    BY <1>1, <1>f DEF SendEvent
<1>2. CASE SendFails \/ Shutdown \/ TakeHeldRollback \/ TakeQueuedRollback \/ TakeHeldRequest
           \/ TakePendingRequest \/ Execution \/ CancelReconciliation \/ ExecuteUrgent
    <2>1. pc' \in {"Execute", "Reconcile", "Urgent", "Stopped"}
        BY <1>2 DEF SendFails, Shutdown, TakeHeldRollback, TakeQueuedRollback, TakeHeldRequest,
           TakePendingRequest, Execution, ExecuteSingle, PlanRejected, PlanOperationApplied,
           PlanHalted, PlanCompleted, Executed, CancelReconciliation, ExecuteUrgent, Begin
    <2> QED
        BY <2>1, <1>a
<1>3. CASE GoIdle
    <2>1. watch # "owed"
        BY <1>3 DEF GoIdle, HasWork, DemandRemembered, SchedulerFollows, ViewFollows, BetweenReads
    <2> QED
        BY <1>3, <2>1 DEF GoIdle, DemandRemembered
<1>4. CASE StartTriggered \/ IdlePeriodic \/ BeginReconciliation
    <2>1. pc' = "Stopped" \/ watch' = Serve(watch)
        BY <1>4, Zenon DEF StartTriggered, IdlePeriodic, BeginReconciliation, BeginRefresh
    <2> QED
        BY <2>1, <1>a, <1>w DEF DemandRemembered
<1>5. CASE IdleRollback \/ IdleRequest
    <2>1. watch' # "owed"
        BY <1>5, <1>i DEF IdleRollback, IdleRequest
    <2> QED
        BY <2>1 DEF DemandRemembered
<1>6. CASE IdleManual
    <2>1. BatchFits(scheduler, Head(manual).count)
        BY <1>6 DEF IdleManual, BatchFits, SchedulerFollows, BetweenReads
    <2>2. pc' = "Stopped" \/ watch' = Serve(Becomes(Head(manual), "owed"))
        BY <1>6, <2>1, Zenon DEF IdleManual, BeginRefresh
    <2> QED
        BY <2>2, <1>a, <1>w DEF DemandRemembered
<1>7. CASE OrdinaryRollback \/ OrdinaryRequest
    <2>1. PICK w : Preempt(w) /\ w # NoWork
        BY <1>7 DEF OrdinaryRollback, OrdinaryRequest, Rollback, Normal, NoWork
    <2>2. pc' = "Stopped" \/ nextWork' # NoWork
        BY <2>1 DEF Preempt
    <2> QED
        BY <2>2, <1>a DEF DemandRemembered
<1>8. CASE OrdinaryManual \/ MandatoryManual \/ DrainBatch
    <2>1. /\ ReceiveManual /\ manual # <<>> /\ scheduler.active # NoRefresh
          /\ UNCHANGED <<pc, trailingManual, nextTrigger, nextWork>>
        BY <1>8, EmptySeq DEF OrdinaryManual, MandatoryManual, DrainBatch, ManualReady,
             TypeOK, LanesTyped, SchedulerFollows, Reconciling
    <2>2. /\ scheduler.trailing => scheduler'.trailing
          /\ watch' = "owed" => scheduler'.trailing \/ watch' = watch
        BY <2>1, <1>q, ReceiveManualProperties
    <2> QED
        BY <2>1, <2>2, <1>f
<1>9. CASE AbsorbBatch
    <2> DEFINE n == Head(manual).count
    <2>1. /\ manual # <<>> /\ UNCHANGED <<pc, trailingManual, nextTrigger, nextWork>>
          /\ scheduler' = IF BatchFits(scheduler, n) THEN AbsorbManual(scheduler, n) ELSE scheduler
          /\ \/ watch' = Becomes(Head(manual), "serving")
             \/ watch' = Becomes(Head(manual), "rejected")
        BY <1>9, EmptySeq DEF AbsorbBatch, TypeOK, LanesTyped
    <2>2. n \in 1..MaxCount
        BY <2>1, <1>q, HeadBatch
    <2> HIDE DEF n
    <2>3. scheduler'.trailing = scheduler.trailing
        BY <2>1, <2>2, <1>q, AbsorbManualType
    <2>4. watch' = "owed" => watch = "owed"
        BY <2>1 DEF Becomes
    <2> QED
        BY <2>1, <2>3, <2>4, <1>f
<1>10. CASE OrdinaryPeriodic \/ MandatoryPeriodic
    <2>1. \/ pc' = "Stopped"
          \/ /\ scheduler' = Observed
             /\ UNCHANGED <<pc, watch, trailingManual, nextTrigger, nextWork>>
        BY <1>10 DEF OrdinaryPeriodic, MandatoryPeriodic, TickActive
    <2>2. Observed.trailing = scheduler.trailing
        BY <1>q, ObservedProperties
    <2> QED
        BY <2>1, <2>2, <1>a, <1>f
<1>11. CASE OrdinaryOverview \/ MandatoryOverview \/ AbsorbBegin \/ AbsorbRequests
            \/ MandatoryRequest
    <2>1. /\ pc \notin {"Execute", "Reconcile", "Preempt", "Urgent", "Stopped"}
          /\ UNCHANGED <<watch, scheduler, trailingManual, nextTrigger, nextWork>>
        BY <1>11 DEF OrdinaryOverview, MandatoryOverview, ReadOverview, AbsorbBegin,
              AbsorbRequests, MandatoryRequest
    <2> QED
        BY <2>1, <1>f
<1>12. CASE OrdinaryReadDone
    <2>1. \/ pc' = "Stopped"
          \/ /\ pc = "Ordinary" /\ watch' = Served(watch) /\ FinishSequence(scheduler.trailing)
             /\ UNCHANGED nextWork
        BY <1>12, Zenon DEF OrdinaryReadDone
    <2>2. pc = "Ordinary" /\ watch = "owed" => scheduler.trailing
        BY DEF DemandRemembered, HandsFollow, ViewFollows
    <2> QED
        BY <2>1, <2>2, <1>a, <1>w DEF FinishSequence, DemandRemembered
<1>13. CASE MandatoryReadDone \/ MandatoryRollback
    <2>1. \/ pc' \in {"Stopped", "Preempt"}
          \/ /\ pc = "Mandatory" /\ scheduler' = Observed
             /\ UNCHANGED <<watch, trailingManual, nextTrigger, nextWork>>
        BY <1>13 DEF MandatoryReadDone, MandatoryRollback
    <2>2. Observed.trailing = scheduler.trailing
        BY <1>q, ObservedProperties
    <2> QED
        BY <2>1, <2>2, <1>a, <1>f
<1>14. CASE CompleteReconciliation
    <2>1. \/ pc' \in {"Stopped", "Urgent"}
          \/ /\ pc = "Boundary" /\ watch' = Served(watch) /\ UNCHANGED nextWork
             /\ FinishSequence(trailingManual \/ scheduler.trailing)
        BY <1>14, Zenon DEF CompleteReconciliation
    <2> QED
        BY <2>1, <1>a, <1>w DEF FinishSequence, DemandRemembered
<1>15. CASE Environment \/ Terminated
    <2>1. /\ UNCHANGED <<pc, scheduler, trailingManual, nextTrigger, nextWork>>
          /\ watch' \in {watch, "queued"}
        BY <1>15 DEF Environment, UiSendRequest, UiSendRollback, UiSendManual, UiConsumeEvent,
              UiClose, TimerElapses, Terminated, vars
    <2> QED
        BY <2>1, <1>f
<1> QED
    BY <1>1, <1>2, <1>3, <1>4, <1>5, <1>6, <1>7, <1>8, <1>9, <1>10, <1>11, <1>12, <1>13, <1>14,
       <1>15
       DEF Next, EngineStep, Loop, OrdinaryRefresh, Reconciliation

-----------------------------------------------------------------------------

(* The inductive invariant of the engine task. *)
Inductive ==
    TypeOK /\ Control /\ RequestsInOrder /\ RollbacksInOrder /\ DemandRemembered

LEMMA InductiveInit == Init => Inductive
<1> SUFFICES ASSUME Init PROVE Inductive
    OBVIOUS
<1> USE EngineAssumption, SchedulerAssumption DEF Init
<1>1. TypeOK
    <2>1. LanesTyped /\ EventsTyped
        BY EmptySeq DEF LanesTyped, EventsTyped
    <2>2. WorkTyped /\ CountersTyped
        BY DEF WorkTyped, CountersTyped
    <2>3. StatusTyped
        <3>1. uiRefresh \in 0..MaxId
            OBVIOUS
        <3>2. /\ pc \in ControlState /\ unreconciled \in BOOLEAN /\ uiUnread \in BOOLEAN
              /\ watch \in {"unsent", "queued", "owed", "serving", "served", "rejected"}
            BY DEF ControlState
        <3>3. closed \in 0..4
            OBVIOUS
        <3> QED
            BY <3>1, <3>2, <3>3, Zenon DEF StatusTyped
    <2>4. scheduler \in Scheduler /\ startId \in 0..MaxId
        BY NewType
    <2>5. RefreshTyped
        BY <2>4, Zenon DEF RefreshTyped
    <2> QED
        BY <2>1, <2>2, <2>3, <2>5 DEF TypeOK
<1>2. Control
    BY DEF Control, SchedulerFollows, HandsFollow, WakeFollows, ViewFollows, BetweenReads,
           Reconciling, NewScheduler, UrgentInHand, NoWork
<1>3. RequestsInOrder /\ RollbacksInOrder
    BY NumberedEmpty DEF RequestsInOrder, RollbacksInOrder, HeldRequests, HeldRollbacks,
           UrgentInHand, NoWork
<1>4. DemandRemembered
    BY DEF DemandRemembered
<1> QED
    BY <1>1, <1>2, <1>3, <1>4 DEF Inductive

LEMMA InductiveStep == Inductive /\ [Next]_vars => Inductive'
<1> SUFFICES ASSUME Inductive, [Next]_vars PROVE Inductive'
    OBVIOUS
<1> USE DEF Inductive, Control
<1>1. CountersTyped'
    BY RequestsStep, RollbacksStep DEF CountersTyped
<1>2. TypeOK'
    BY <1>1, LanesStep, EventsStep, WorkStep, SchedulerStep, StatusStep DEF TypeOK
<1>3. Control'
    BY SchedulerStep, HandsStep, WakeStep, ViewStep
<1> QED
    BY <1>2, <1>3, RequestsStep, RollbacksStep, DemandStep

(* Inductive is an invariant of the engine. *)
THEOREM EngineInvariant == Spec => []Inductive
BY InductiveInit, InductiveStep, PTL DEF Spec

-----------------------------------------------------------------------------
(* The invariants the runs check, for every capacity, bound and set of plans. *)

(* Every variable keeps its type and every queue its capacity. *)
THEOREM EngineTypeOK == Spec => []TypeOK
<1>1. Inductive => TypeOK
    BY DEF Inductive
<1> QED
    BY <1>1, EngineInvariant, PTL

(* Requests are executed in the order they were sent, and none is lost; rollbacks
   too, each of them once. *)
THEOREM EngineLanesInOrder == Spec => []LanesInOrder
<1>1. Inductive => LanesInOrder
    BY DEF Inductive, LanesInOrder
<1> QED
    BY <1>1, EngineInvariant, PTL

(* A demand that was accepted and not yet served is never forgotten, and the waiting
   task always has its periodic deadline armed. *)
THEOREM EngineNextReadAssured == Spec => []NextReadAssured
<1>1. Inductive => NextReadAssured
    BY DEF Inductive, Control, WakeFollows, NextReadAssured, DeadlineArmed
<1> QED
    BY <1>1, EngineInvariant, PTL

-----------------------------------------------------------------------------
(* Action properties *)

(* No requested mutation starts while a rollback waits. *)
THEOREM EngineRollbackFirst == Spec => RollbackFirst
<1> DEFINE A == requestsBegun' # requestsBegun => rollbacks = <<>> /\ nextWork.kind # "Rollback"
<1>1. Inductive /\ [Next]_vars => [A]_vars
    <2> SUFFICES ASSUME Inductive, Next PROVE A
        BY DEF vars
    <2> USE DEF lanes, control, reading, timer, history, interface, engineOnly, uiUnchanged
    <2>1. CASE TakeHeldRollback \/ TakeQueuedRollback \/ ExecuteUrgent
        BY <2>1 DEF TakeHeldRollback, TakeQueuedRollback, ExecuteUrgent, Begin, Rollback, At,
               Inductive, Control, HandsFollow, UrgentInHand
    <2>2. CASE TakeHeldRequest \/ TakePendingRequest
        BY <2>2 DEF TakeHeldRequest, TakePendingRequest, RollbackReady, NoWork
    <2>3. CASE SendEvent \/ SendFails \/ Shutdown \/ GoIdle \/ StartTriggered \/ IdleRollback
               \/ IdleRequest \/ IdleManual \/ IdlePeriodic \/ OrdinaryRefresh
        BY <2>3 DEF SendEvent, SendFails, Shutdown, GoIdle, StartTriggered, IdleRollback,
               IdleRequest, IdleManual, IdlePeriodic, OrdinaryRefresh, OrdinaryRollback,
               OrdinaryRequest, Preempt, OrdinaryManual, OrdinaryPeriodic, TickActive,
               OrdinaryOverview, ReadOverview, OrdinaryReadDone
    <2>4. CASE Execution \/ (Reconciliation /\ ~ExecuteUrgent)
        BY <2>4 DEF Execution, ExecuteSingle, PlanRejected, PlanOperationApplied, PlanHalted,
               PlanCompleted, Executed, Reconciliation, BeginReconciliation, AbsorbBegin,
               AbsorbBatch, AbsorbRequests, MandatoryOverview, ReadOverview, MandatoryReadDone,
               MandatoryRollback, MandatoryPeriodic, TickActive, MandatoryManual,
               MandatoryRequest, DrainBatch, CompleteReconciliation, CancelReconciliation
    <2>5. CASE Environment \/ Terminated
        BY <2>5 DEF Environment, UiSendRequest, UiSendRollback, UiSendManual, UiConsumeEvent,
               UiClose, TimerElapses, Terminated, vars
    <2> QED
        BY <2>1, <2>2, <2>3, <2>4, <2>5 DEF Next, EngineStep, Loop
<1> QED
    BY <1>1, EngineInvariant, PTL DEF Spec, RollbackFirst

(* A refusal of the scheduler would end the task; none ever happens. *)
LEMMA NoRefusal ==
    ASSUME Inductive, Next, pc # "Stopped", pc' = "Stopped"
    PROVE  UiGone \/ UiGone'
<1> USE DEF lanes, control, reading, timer, history, interface, engineOnly, uiUnchanged
<1> USE DEF Live, At, Inductive, Control, SchedulerFollows, BetweenReads, Reconciling
<1>q. scheduler \in Scheduler /\ manual \in Seq(ManualBatch)
    BY DEF TypeOK, RefreshTyped, LanesTyped
<1>o. Observed \in Scheduler /\ (Observed.active = NoRefresh <=> scheduler.active = NoRefresh)
      /\ Observed.active.trigger = scheduler.active.trigger
    BY <1>q, ObservedProperties
<1>1. CASE SendEvent \/ SendFails \/ Shutdown
    BY <1>1 DEF SendEvent, SendFails, Shutdown, UiGone
<1>2. CASE TakeHeldRollback \/ TakeQueuedRollback \/ TakeHeldRequest \/ TakePendingRequest
           \/ GoIdle \/ IdleRollback \/ IdleRequest \/ ExecuteUrgent
    BY <1>2 DEF TakeHeldRollback, TakeQueuedRollback, TakeHeldRequest, TakePendingRequest,
           GoIdle, IdleRollback, IdleRequest, ExecuteUrgent, Begin
<1>3. CASE StartTriggered \/ BeginReconciliation
    BY <1>3, Zenon DEF StartTriggered, BeginReconciliation, BeginRefresh, CanStart
<1>4. CASE IdleManual
    <2> DEFINE n == Head(manual).count
    <2>1. /\ manual # <<>> /\ scheduler.active = NoRefresh /\ scheduler.pendingStart = NoCount
        BY <1>4 DEF IdleManual, ManualReady
    <2>2. n \in 1..MaxCount
        BY <2>1, <1>q, HeadBatch
    <2> HIDE DEF n
    <2>3. BatchFits(scheduler, n) /\ ManualDemand(scheduler) = "StartNow"
        BY <2>1 DEF BatchFits, ManualDemand
    <2>4. RecordManual(scheduler, n).active = NoRefresh
        BY <2>1, <2>2, <2>3, <1>q, RecordManualType
    <2>5. pc' = "Ordinary"
        BY <1>4, <2>3, <2>4, Zenon DEF IdleManual, BeginRefresh, CanStart, n
    <2> QED
        BY <2>5
<1>5. CASE IdlePeriodic
    <2>1. scheduler.active = NoRefresh
        BY <1>5 DEF IdlePeriodic
    <2>2. pc' = "Ordinary"
        BY <1>5, <2>1, Zenon DEF IdlePeriodic, PeriodicDemand, BeginRefresh, CanStart
    <2> QED
        BY <2>2
<1>6. CASE OrdinaryRollback \/ OrdinaryRequest
    <2>1. \E w : Preempt(w) /\ scheduler.active # NoRefresh
                 /\ scheduler.active.trigger # "PostMutation"
        BY <1>6 DEF OrdinaryRollback, OrdinaryRequest
    <2>2. ~ObserveFails /\ CanCancelForMutation(Observed)
        BY <2>1, <1>o, ObserveSucceeds DEF CanCancelForMutation, IsPreemptible
    <2>3. pc' = "Top"
        BY <2>1, <2>2 DEF Preempt
    <2> QED
        BY <2>3
<1>7. CASE OrdinaryManual \/ OrdinaryOverview \/ MandatoryOverview \/ MandatoryManual
           \/ MandatoryRequest \/ DrainBatch \/ AbsorbBegin \/ AbsorbBatch \/ AbsorbRequests
    BY <1>7 DEF OrdinaryManual, OrdinaryOverview, MandatoryOverview, ReadOverview,
           MandatoryManual, MandatoryRequest, DrainBatch, AbsorbBegin, AbsorbBatch, AbsorbRequests
<1>8. CASE OrdinaryPeriodic \/ MandatoryPeriodic \/ MandatoryReadDone \/ MandatoryRollback
    <2>1. ~ObserveFails
        BY <1>8, ObserveSucceeds DEF OrdinaryPeriodic, MandatoryPeriodic, MandatoryReadDone,
               MandatoryRollback
    <2> QED
        BY <1>8, <2>1 DEF OrdinaryPeriodic, MandatoryPeriodic, TickActive, MandatoryReadDone,
               MandatoryRollback
<1>9. CASE OrdinaryReadDone
    <2>1. CanFinish(scheduler, startId)
        BY <1>9 DEF OrdinaryReadDone, CanFinish
    <2> QED
        BY <1>9, <2>1, Zenon DEF OrdinaryReadDone
<1>10. CASE Execution
    BY <1>10 DEF Execution, ExecuteSingle, PlanRejected, PlanOperationApplied, PlanHalted,
           PlanCompleted, Executed
<1>11. CASE CompleteReconciliation
    <2>1. CanFinish(scheduler, startId)
        BY <1>11 DEF CompleteReconciliation, CanFinish
    <2> QED
        BY <1>11, <2>1, Zenon DEF CompleteReconciliation
<1>12. CASE CancelReconciliation
    BY <1>12 DEF CancelReconciliation, CanCancelForRollback
<1>13. CASE Environment \/ Terminated
    BY <1>13 DEF Environment, UiSendRequest, UiSendRollback, UiSendManual, UiConsumeEvent,
           UiClose, TimerElapses, Terminated, vars
<1> QED
    BY <1>1, <1>2, <1>3, <1>4, <1>5, <1>6, <1>7, <1>8, <1>9, <1>10, <1>11, <1>12, <1>13
       DEF Next, EngineStep, Loop, OrdinaryRefresh, Reconciliation

(* The task ends only because the interface is gone. *)
THEOREM EngineEndsOnlyWithInterface == Spec => EndsOnlyWithInterface
<1>1. Inductive /\ [Next]_vars => [pc # "Stopped" /\ pc' = "Stopped" => UiGone \/ UiGone']_vars
    BY NoRefusal DEF vars
<1> QED
    BY <1>1, EngineInvariant, PTL DEF Spec, EndsOnlyWithInterface


-----------------------------------------------------------------------------
(* The contract *)

(* What a step does to the place of the task, to the view of the firewall and,
   where the task stays, to what it is doing. *)
LEMMA ControlFlow ==
    ASSUME Inductive, Next
    PROVE  \/ /\ pc' = pc /\ unreconciled' = unreconciled
              /\ pc = "Execute" => work' = work
              /\ pc = "Ordinary" => scheduler'.active.trigger = scheduler.active.trigger
           \/ pc # "Stopped" /\ pc' = "Stopped" /\ unreconciled' = unreconciled
           \/ /\ pc \in {"Top", "Urgent"} /\ pc' = "Execute" /\ unreconciled'
              /\ pc = "Urgent" => work' = work
           \/ pc = "Execute" /\ pc' = "Reconcile" /\ unreconciled' = unreconciled
           \/ pc = "Reconcile" /\ pc' = "Absorb" /\ unreconciled' = unreconciled
           \/ pc \in {"Top", "Idle"} /\ pc' \in {"Top", "Idle", "Ordinary"}
                 /\ unreconciled' = unreconciled
           \/ pc \in Reconciling /\ pc' \in Reconciling /\ unreconciled' = unreconciled
           \/ pc = "Ordinary" /\ pc' = "Top"
           \/ pc = "Boundary" /\ pc' \in {"Top", "Urgent"} /\ ~unreconciled'
           \/ pc = "Preempt" /\ pc' = "Urgent" /\ unreconciled' = unreconciled
<1> USE DEF lanes, control, reading, timer, history, interface, engineOnly, uiUnchanged
<1> USE DEF Live, At, Stop
<1>q. scheduler \in Scheduler /\ manual \in Seq(ManualBatch)
    BY DEF Inductive, TypeOK, RefreshTyped, LanesTyped
<1>o. Observed.active.trigger = scheduler.active.trigger
    BY <1>q, ObservedProperties
<1>1. CASE SendEvent \/ SendFails \/ Shutdown
    BY <1>1 DEF SendEvent, SendFails, Shutdown
<1>2. CASE TakeHeldRollback \/ TakeQueuedRollback \/ TakeHeldRequest \/ TakePendingRequest
           \/ ExecuteUrgent
    BY <1>2 DEF TakeHeldRollback, TakeQueuedRollback, TakeHeldRequest, TakePendingRequest,
           ExecuteUrgent, Begin
<1>3. CASE StartTriggered \/ IdlePeriodic
    <2>1. pc \in {"Top", "Idle"} /\ pc' \in {"Stopped", "Ordinary"}
          /\ unreconciled' = unreconciled
        BY <1>3, Zenon DEF StartTriggered, IdlePeriodic, BeginRefresh
    <2> QED
        BY <2>1
<1>4. CASE IdleManual
    <2>1. pc = "Idle" /\ pc' \in {"Stopped", "Ordinary", "Top"} /\ unreconciled' = unreconciled
        BY <1>4, Zenon DEF IdleManual, BeginRefresh
    <2> QED
        BY <2>1
<1>5. CASE GoIdle \/ IdleRollback \/ IdleRequest
    BY <1>5 DEF GoIdle, IdleRollback, IdleRequest
<1>6. CASE OrdinaryRollback \/ OrdinaryRequest
    <2>1. pc = "Ordinary" /\ pc' \in {"Stopped", "Top"} /\ unreconciled' = unreconciled
        BY <1>6, Zenon DEF OrdinaryRollback, OrdinaryRequest, Preempt
    <2> QED
        BY <2>1
<1>7. CASE OrdinaryManual
    <2>1. ReceiveManual /\ manual # <<>>
        BY <1>7 DEF OrdinaryManual, ManualReady
    <2>2. scheduler'.active.trigger = scheduler.active.trigger
        BY <2>1, <1>q, ReceiveManualProperties
    <2>3. pc' = pc /\ unreconciled' = unreconciled /\ work' = work
        BY <1>7 DEF OrdinaryManual
    <2> QED
        BY <2>2, <2>3
<1>8. CASE OrdinaryPeriodic \/ MandatoryPeriodic
    BY <1>8, <1>o DEF OrdinaryPeriodic, MandatoryPeriodic, TickActive, Reconciling
<1>9. CASE OrdinaryOverview \/ MandatoryOverview
    BY <1>9 DEF OrdinaryOverview, MandatoryOverview, ReadOverview
<1>10. CASE OrdinaryReadDone
    <2>1. pc = "Ordinary" /\ pc' \in {"Stopped", "Top"} /\ unreconciled' = unreconciled
        BY <1>10, Zenon DEF OrdinaryReadDone
    <2> QED
        BY <2>1
<1>11. CASE Execution
    BY <1>11 DEF Execution, ExecuteSingle, PlanRejected, PlanOperationApplied, PlanHalted,
           PlanCompleted, Executed
<1>12. CASE BeginReconciliation
    <2>1. pc = "Reconcile" /\ pc' \in {"Stopped", "Absorb"} /\ unreconciled' = unreconciled
        BY <1>12, Zenon DEF BeginReconciliation, BeginRefresh
    <2> QED
        BY <2>1
<1>13. CASE AbsorbBegin \/ AbsorbBatch \/ AbsorbRequests \/ MandatoryReadDone
            \/ MandatoryRollback \/ MandatoryManual \/ MandatoryRequest \/ DrainBatch
    BY <1>13 DEF AbsorbBegin, AbsorbBatch, AbsorbRequests, MandatoryReadDone, MandatoryRollback,
           MandatoryManual, MandatoryRequest, DrainBatch, Reconciling
<1>14. CASE CompleteReconciliation
    <2>1. pc = "Boundary" /\ \/ pc' = "Stopped" /\ unreconciled' = unreconciled
                             \/ pc' \in {"Top", "Urgent"} /\ unreconciled' = FALSE
        BY <1>14, Zenon DEF CompleteReconciliation
    <2> QED
        BY <2>1
<1>15. CASE CancelReconciliation
    BY <1>15 DEF CancelReconciliation
<1>16. CASE Environment \/ Terminated
    BY <1>16 DEF Environment, UiSendRequest, UiSendRollback, UiSendManual, UiConsumeEvent,
           UiClose, TimerElapses, Terminated, vars
<1> QED
    BY <1>1, <1>2, <1>3, <1>4, <1>5, <1>6, <1>7, <1>8, <1>9, <1>10, <1>11, <1>12, <1>13,
       <1>14, <1>15, <1>16
       DEF Next, EngineStep, Loop, OrdinaryRefresh, Reconciliation

(* What the task is doing to the firewall at each of its places. *)
ActivityFollows ==
    /\ pc \in ControlState /\ unreconciled \in BOOLEAN
    /\ pc = "Stopped" => Activity = "Halted"
    /\ pc \in {"Top", "Idle", "Reconcile", "Urgent"} => Activity = "None"
    /\ pc = "Execute" => Activity = work.kind /\ work.kind \in {"Normal", "Rollback"}
    /\ pc = "Ordinary" => Activity = scheduler.active.trigger
          /\ Activity \in {"Initial", "Periodic", "Manual"}
    /\ pc \in Reconciling => Activity = "PostMutation"
    /\ pc \in {"Top", "Idle", "Ordinary"} => ~unreconciled
    /\ pc \in Reconciling \cup {"Execute", "Reconcile"} => unreconciled
    /\ pc = "Urgent" => work.kind = "Rollback"

LEMMA ActivityAt == Inductive => ActivityFollows
<1> SUFFICES ASSUME Inductive PROVE ActivityFollows
    OBVIOUS
<1>1. pc \in ControlState /\ unreconciled \in BOOLEAN /\ scheduler \in Scheduler
      /\ work \in Work \cup {NoWork}
    BY DEF Inductive, TypeOK, StatusTyped, RefreshTyped, WorkTyped
<1>2. pc = "Execute" => work.kind \in {"Normal", "Rollback"}
    BY <1>1 DEF Inductive, Control, HandsFollow, Work
<1>3. pc = "Urgent" => work.kind = "Rollback"
    BY DEF Inductive, Control, HandsFollow, UrgentInHand
<1>4. scheduler.active # NoRefresh => scheduler.active.trigger \in Trigger
    BY <1>1 DEF Scheduler, ActiveRefresh
<1>5. pc = "Ordinary" => scheduler.active.trigger \in {"Initial", "Periodic", "Manual"}
    BY <1>4 DEF Inductive, Control, SchedulerFollows, Trigger
<1>6. pc \in {"Top", "Idle", "Reconcile", "Urgent"} => scheduler.active.trigger = "None"
    BY DEF Inductive, Control, SchedulerFollows, BetweenReads, NoRefresh
<1>7. pc \in Reconciling => scheduler.active.trigger = "PostMutation"
    BY DEF Inductive, Control, SchedulerFollows, Reconciling
<1>8. /\ pc \in {"Top", "Idle", "Ordinary"} => ~unreconciled
      /\ pc \in Reconciling \cup {"Execute", "Reconcile"} => unreconciled
    BY DEF Inductive, Control, ViewFollows
<1> QED
    BY <1>1, <1>2, <1>3, <1>5, <1>6, <1>7, <1>8 DEF Activity, ActivityFollows, Reconciling

LEMMA ActivityAfter == Inductive' => ActivityFollows'
BY ActivityAt, PTL

(* Every step of the engine is a step of the contract, or changes nothing of it. *)
LEMMA ContractStep ==
    ASSUME Inductive, Inductive', Next
    PROVE  Contract!Next \/ UNCHANGED <<Activity, unreconciled>>
<1> DEFINE a == Activity
<1> DEFINE b == Activity'
<1>1. /\ pc \in ControlState /\ unreconciled \in BOOLEAN
      /\ pc = "Stopped" => a = "Halted"
      /\ pc \in {"Top", "Idle", "Reconcile", "Urgent"} => a = "None"
      /\ pc = "Execute" => a = work.kind /\ work.kind \in {"Normal", "Rollback"}
      /\ pc = "Ordinary" => a = scheduler.active.trigger
            /\ a \in {"Initial", "Periodic", "Manual"}
      /\ pc \in Reconciling => a = "PostMutation"
      /\ pc \in {"Top", "Idle", "Ordinary"} => ~unreconciled
      /\ pc \in Reconciling \cup {"Execute", "Reconcile"} => unreconciled
      /\ pc = "Urgent" => work.kind = "Rollback"
    BY ActivityAt DEF ActivityFollows
<1>2. /\ pc' \in ControlState /\ unreconciled' \in BOOLEAN
      /\ pc' = "Stopped" => b = "Halted"
      /\ pc' \in {"Top", "Idle", "Reconcile", "Urgent"} => b = "None"
      /\ pc' = "Execute" => b = work'.kind /\ work'.kind \in {"Normal", "Rollback"}
      /\ pc' = "Ordinary" => b = scheduler'.active.trigger
            /\ b \in {"Initial", "Periodic", "Manual"}
      /\ pc' \in Reconciling => b = "PostMutation"
      /\ pc' \in {"Top", "Idle", "Ordinary"} => ~unreconciled'
      /\ pc' \in Reconciling \cup {"Execute", "Reconcile"} => unreconciled'
    BY ActivityAfter DEF ActivityFollows
<1> HIDE DEF a, b
<1> DEFINE Same == b = a /\ unreconciled' = unreconciled
<1> DEFINE Mutate(kind) ==
        a = "None" /\ (kind = "Normal" => ~unreconciled) /\ b = kind /\ unreconciled' = TRUE
<1> DEFINE Read(trigger) ==
        /\ a = "None" /\ (unreconciled <=> trigger = "PostMutation") /\ b = trigger
        /\ unreconciled' = unreconciled
<1>3. \/ Same
      \/ \E kind \in {"Normal", "Rollback"} : Mutate(kind)
      \/ a \in {"Normal", "Rollback"} /\ b = "None" /\ unreconciled' = unreconciled
      \/ \E trigger \in {"Initial", "Periodic", "Manual", "PostMutation"} : Read(trigger)
      \/ /\ a \in {"Initial", "Periodic", "Manual", "PostMutation"} /\ b = "None"
         /\ unreconciled' = FALSE \/ unreconciled' = unreconciled
      \/ a # "Halted" /\ b = "Halted" /\ unreconciled' = unreconciled
    <2>1. CASE pc' = pc /\ unreconciled' = unreconciled
               /\ (pc = "Execute" => work' = work)
               /\ (pc = "Ordinary" => scheduler'.active.trigger = scheduler.active.trigger)
        BY <2>1, <1>1, <1>2 DEF ControlState, Reconciling
    <2>2. CASE pc # "Stopped" /\ pc' = "Stopped" /\ unreconciled' = unreconciled
        BY <2>2, <1>1, <1>2 DEF ControlState, Reconciling
    <2>3. CASE pc \in {"Top", "Urgent"} /\ pc' = "Execute" /\ unreconciled'
               /\ (pc = "Urgent" => work' = work)
        <3>1. Mutate(work'.kind) /\ work'.kind \in {"Normal", "Rollback"}
            BY <2>3, <1>1, <1>2 DEF Reconciling
        <3> QED
            BY <3>1
    <2>4. CASE pc = "Execute" /\ pc' = "Reconcile" /\ unreconciled' = unreconciled
        BY <2>4, <1>1, <1>2
    <2>5. CASE pc = "Reconcile" /\ pc' = "Absorb" /\ unreconciled' = unreconciled
        <3>1. Read("PostMutation")
            BY <2>5, <1>1, <1>2 DEF Reconciling
        <3> QED
            BY <3>1
    <2>6. CASE pc \in {"Top", "Idle"} /\ pc' \in {"Top", "Idle", "Ordinary"}
               /\ unreconciled' = unreconciled
        <3>1. CASE pc' = "Ordinary"
            <4>1. Read(b) /\ b \in {"Initial", "Periodic", "Manual"}
                BY <2>6, <3>1, <1>1, <1>2
            <4> QED
                BY <4>1
        <3>2. CASE pc' # "Ordinary"
            BY <2>6, <3>2, <1>1, <1>2
        <3> HIDE DEF Same, Mutate, Read
        <3> QED
            BY <3>1, <3>2
    <2>7. CASE pc \in Reconciling /\ pc' \in Reconciling /\ unreconciled' = unreconciled
        BY <2>7, <1>1, <1>2
    <2>8. CASE pc = "Ordinary" /\ pc' = "Top"
        BY <2>8, <1>1, <1>2
    <2>9. CASE pc = "Boundary" /\ pc' \in {"Top", "Urgent"} /\ ~unreconciled'
        BY <2>9, <1>1, <1>2 DEF Reconciling
    <2>10. CASE pc = "Preempt" /\ pc' = "Urgent" /\ unreconciled' = unreconciled
        BY <2>10, <1>1, <1>2 DEF Reconciling
    <2> HIDE DEF Same, Mutate, Read
    <2> QED
        BY <2>1, <2>2, <2>3, <2>4, <2>5, <2>6, <2>7, <2>8, <2>9, <2>10, ControlFlow
<1> USE DEF a, b
<1> HIDE DEF Activity
<1> QED
    BY <1>3 DEF Contract!Next, Contract!BeginMutation, Contract!EndMutation,
       Contract!BeginRead, Contract!CompleteRead, Contract!CancelRead, Contract!Halt,
       Contract!Mutations, Contract!Reads

(* The engine implements its contract: one thing at a time, and a complete
   post-mutation read between a mutation and the next requested one. *)
THEOREM EngineImplementsContract == Spec => ImplementsContract
<1>1. Init => Contract!Init
    BY DEF Init, Contract!Init, Activity, NewScheduler, NoRefresh
<1>2. Inductive /\ Inductive' /\ [Next]_vars => [Contract!Next]_(Contract!vars)
    <2>1. ASSUME UNCHANGED vars PROVE UNCHANGED Contract!vars
        BY <2>1 DEF vars, control, reading, history, Contract!vars, Activity
    <2> QED
        BY <2>1, ContractStep DEF Contract!vars
<1> QED
    BY <1>1, <1>2, EngineInvariant, PTL DEF Spec, ImplementsContract, Contract!Spec

-----------------------------------------------------------------------------
(* What the interface is told *)

(* The interface's belief: the refresh it takes for active, and whether it has
   taken an operation since the last completion it accepted. *)
View == [refresh : 0..MaxId, unread : BOOLEAN]
InterfaceView == [refresh |-> uiRefresh, unread |-> uiUnread]

(* The belief after an event, as UiConsumeEvent computes it. *)
After(e, v) ==
    [refresh |-> IF e.type = "RefreshStarted" THEN e.id
                 ELSE IF e.type \in {"RefreshFinished", "RefreshCancelled"} /\ v.refresh = e.id
                      THEN 0 ELSE v.refresh,
     unread |-> IF e.type = "OperationFinished" THEN TRUE
                ELSE IF e.type = "RefreshFinished" /\ v.refresh = e.id
                     THEN FALSE ELSE v.unread]

(* The event is in its place for an interface of this belief. *)
Timely(e, v) ==
    /\ e.type = "RefreshStarted" => v.refresh = 0
    /\ e.type \in RefreshEvents \ {"RefreshStarted"} => v.refresh = e.id
    /\ e.type = "RefreshFinished" /\ v.unread => e.trigger = "PostMutation"

(* These events, each in its place, lead from one belief to the other. *)
Leads(s, from, to) ==
    \E path \in [0..Len(s) -> View] :
        /\ path[0] = from /\ path[Len(s)] = to
        /\ \A i \in 1..Len(s) : Timely(s[i], path[i - 1]) /\ path[i] = After(s[i], path[i - 1])

(* The belief agrees with the engine: the active refresh is the scheduler's,
   and an operation that no completion followed is not reconciled yet. *)
Agrees(v) == v.refresh = scheduler.active.id /\ (v.unread => unreconciled)

(* The events in the channel lead the interface to some belief, and what the
   task is sending leads on to one that agrees with the engine. *)
ToldInOrder ==
    ~EventsClosed =>
        \E mid \in View :
            /\ Leads(events, InterfaceView, mid)
            /\ pc # "Stopped" => \E end \in View : Leads(sending, mid, end) /\ Agrees(end)

NothingAfterClose == EventsClosed => events = <<>>

Told == ToldInOrder /\ NothingAfterClose

LEMMA AfterIsView ==
    ASSUME NEW e \in Event, NEW v \in View
    PROVE  After(e, v) \in View
<1>1. e.type = "RefreshStarted" => e.id \in 0..MaxId
    BY DEF Event, RefreshEvents, WorkEvents
<1>2. v.refresh \in 0..MaxId /\ v.unread \in BOOLEAN /\ 0 \in 0..MaxId
    BY SchedulerAssumption DEF View
<1> QED
    BY <1>1, <1>2 DEF After, View

LEMMA LeadsNowhere ==
    ASSUME NEW v \in View, NEW w \in View
    PROVE  Leads(<<>>, v, w) <=> v = w
<1>1. Leads(<<>>, v, w) => v = w
    BY DEF Leads
<1>2. Leads(<<>>, v, v)
    <2> DEFINE path == [i \in 0..0 |-> v]
    <2>1. path \in [0..0 -> View] /\ path[0] = v
        OBVIOUS
    <2> HIDE DEF path
    <2>2. Len(<<>>) = 0
        BY EmptySeq
    <2> QED
        BY <2>1, <2>2 DEF Leads
<1> QED
    BY <1>1, <1>2

(* The first event of those that lead somewhere is in its place, and the others
   lead there from the belief after it. *)
LEMMA LeadsHead ==
    ASSUME NEW s \in Seq(Event), s # <<>>, NEW v \in View, NEW w \in View, Leads(s, v, w)
    PROVE  /\ Timely(Head(s), v)
           /\ After(Head(s), v) \in View
           /\ Leads(Tail(s), After(Head(s), v), w)
<1> DEFINE first == Head(s)
<1> DEFINE rest == Tail(s)
<1>1. /\ Len(s) \in Nat \ {0} /\ first \in Event /\ first = s[1]
      /\ Len(rest) = Len(s) - 1
      /\ \A i \in 1..(Len(s) - 1) : rest[i] = s[i + 1]
    BY HeadTailProperties, LenProperties, EmptySeq
<1> HIDE DEF first, rest
<1>2. PICK path \in [0..Len(s) -> View] :
         /\ path[0] = v /\ path[Len(s)] = w
         /\ \A i \in 1..Len(s) : Timely(s[i], path[i - 1]) /\ path[i] = After(s[i], path[i - 1])
    BY DEF Leads
<1>3. Timely(first, v) /\ path[1] = After(first, v) /\ path[1] \in View
    <2>1. 1 \in 1..Len(s) /\ 1 \in 0..Len(s) /\ 1 - 1 = 0
        BY <1>1
    <2>2. Timely(s[1], path[0]) /\ path[1] = After(s[1], path[0])
        BY <1>2, <2>1
    <2> QED
        BY <1>1, <1>2, <2>1, <2>2
<1> DEFINE onward == [i \in 0..Len(rest) |-> path[i + 1]]
<1>4. onward \in [0..Len(rest) -> View]
    <2>1. \A i \in 0..Len(rest) : i + 1 \in 0..Len(s)
        BY <1>1
    <2> QED
        BY <2>1
<1>5. onward[0] = path[1] /\ onward[Len(rest)] = w
    <2>1. 0 \in 0..Len(rest) /\ Len(rest) \in 0..Len(rest) /\ Len(rest) + 1 = Len(s) /\ 0 + 1 = 1
        BY <1>1
    <2> QED
        BY <1>2, <2>1
<1>6. ASSUME NEW i \in 1..Len(rest)
      PROVE  Timely(rest[i], onward[i - 1]) /\ onward[i] = After(rest[i], onward[i - 1])
    <2>1. /\ i + 1 \in 1..Len(s) /\ i \in 0..Len(rest) /\ i - 1 \in 0..Len(rest)
          /\ i + 1 - 1 = i /\ i - 1 + 1 = i
        BY <1>1
    <2>2. rest[i] = s[i + 1] /\ onward[i] = path[i + 1] /\ onward[i - 1] = path[i]
        BY <1>1, <2>1
    <2>3. Timely(s[i + 1], path[i]) /\ path[i + 1] = After(s[i + 1], path[i])
        BY <1>2, <2>1
    <2> HIDE DEF onward
    <2> QED
        BY <2>2, <2>3
<1> HIDE DEF onward
<1>7. Leads(rest, path[1], w)
    BY <1>4, <1>5, <1>6 DEF Leads
<1> QED
    BY <1>3, <1>7 DEF first, rest

(* One more event in its place leads on to the belief after it. *)
LEMMA LeadsOn ==
    ASSUME NEW s \in Seq(Event), NEW e \in Event, NEW v \in View, NEW w \in View,
           Leads(s, v, w), Timely(e, w)
    PROVE  Leads(Append(s, e), v, After(e, w))
<1> DEFINE more == Append(s, e)
<1> DEFINE last == After(e, w)
<1>1. /\ Len(s) \in Nat /\ Len(more) = Len(s) + 1 /\ more[Len(s) + 1] = e
      /\ \A i \in 1..Len(s) : more[i] = s[i]
    BY AppendProperties, LenProperties
<1>2. last \in View
    BY AfterIsView
<1> HIDE DEF more, last
<1>3. PICK path \in [0..Len(s) -> View] :
         /\ path[0] = v /\ path[Len(s)] = w
         /\ \A i \in 1..Len(s) : Timely(s[i], path[i - 1]) /\ path[i] = After(s[i], path[i - 1])
    BY DEF Leads
<1> DEFINE longer == [i \in 0..Len(more) |-> IF i = Len(more) THEN last ELSE path[i]]
<1>4. longer \in [0..Len(more) -> View]
    <2>1. \A i \in 0..Len(more) : i # Len(more) => i \in 0..Len(s)
        BY <1>1
    <2> QED
        BY <1>2, <2>1
<1>5. \A i \in 0..Len(s) : longer[i] = path[i]
    <2>1. \A i \in 0..Len(s) : i \in 0..Len(more) /\ i # Len(more)
        BY <1>1
    <2> QED
        BY <2>1
<1>6. longer[Len(more)] = last
    <2>1. Len(more) \in 0..Len(more)
        BY <1>1
    <2> QED
        BY <2>1
<1> HIDE DEF longer
<1>7. longer[0] = v
    <2>1. 0 \in 0..Len(s)
        BY <1>1
    <2> QED
        BY <1>3, <1>5, <2>1
<1>8. ASSUME NEW i \in 1..Len(more)
      PROVE  Timely(more[i], longer[i - 1]) /\ longer[i] = After(more[i], longer[i - 1])
    <2>1. CASE i \in 1..Len(s)
        <3>1. i \in 0..Len(s) /\ i - 1 \in 0..Len(s)
            BY <1>1, <2>1
        <3>2. more[i] = s[i] /\ longer[i] = path[i] /\ longer[i - 1] = path[i - 1]
            BY <1>1, <1>5, <2>1, <3>1
        <3> QED
            BY <1>3, <2>1, <3>2
    <2>2. CASE i = Len(s) + 1
        <3>1. i - 1 = Len(s) /\ Len(s) \in 0..Len(s) /\ i = Len(more)
            BY <1>1, <2>2
        <3>2. more[i] = e /\ longer[i] = last /\ longer[i - 1] = w
            BY <1>1, <1>3, <1>5, <1>6, <2>2, <3>1
        <3> QED
            BY <3>2 DEF last
    <2> QED
        BY <1>1, <2>1, <2>2
<1> QED
    BY <1>4, <1>6, <1>7, <1>8 DEF Leads, more, last

(* One event, or two, that an interface of this belief is sent. *)
LEMMA LeadsOne ==
    ASSUME NEW e \in Event, NEW v \in View, Timely(e, v)
    PROVE  After(e, v) \in View /\ Leads(<<e>>, v, After(e, v))
<1>1. <<>> \in Seq(Event) /\ Append(<<>>, e) = <<e>>
    OBVIOUS
<1>2. Leads(<<>>, v, v)
    BY LeadsNowhere
<1> QED
    BY <1>1, <1>2, LeadsOn, AfterIsView

LEMMA LeadsTwo ==
    ASSUME NEW e \in Event, NEW f \in Event, NEW v \in View, Timely(e, v), Timely(f, After(e, v))
    PROVE  After(f, After(e, v)) \in View /\ Leads(<<e, f>>, v, After(f, After(e, v)))
<1>1. <<e>> \in Seq(Event) /\ Append(<<e>>, f) = <<e, f>>
    <2>1. <<e>> \in Seq(Event)
        OBVIOUS
    <2>2. Append(<<e>>, f) = <<e, f>>
        <3> DEFINE s == Append(<<e>>, f)
        <3> DEFINE t == <<e, f>>
        <3>1. /\ s \in Seq(Event) /\ Len(s) = Len(<<e>>) + 1 /\ s[Len(<<e>>) + 1] = f
              /\ \A i \in 1..Len(<<e>>) : s[i] = <<e>>[i]
            BY <2>1, AppendProperties
        <3>2. Len(<<e>>) = 1 /\ <<e>>[1] = e
            OBVIOUS
        <3>3. t \in Seq(Event) /\ Len(t) = 2 /\ t[1] = e /\ t[2] = f
            OBVIOUS
        <3> HIDE DEF s, t
        <3>4. Len(s) = Len(t) /\ \A i \in 1..Len(s) : s[i] = t[i]
            BY <3>1, <3>2, <3>3
        <3>5. s = t
            BY <3>1, <3>3, <3>4, SeqEqual
        <3> QED
            BY <3>5 DEF s, t
    <2> QED
        BY <2>1, <2>2
<1>2. After(e, v) \in View /\ Leads(<<e>>, v, After(e, v))
    BY LeadsOne
<1> QED
    BY <1>1, <1>2, LeadsOn, AfterIsView

-----------------------------------------------------------------------------
(* What each kind of event does to a belief that agrees with the engine. *)

LEMMA WorkEventAfter ==
    ASSUME NEW type \in WorkEvents, NEW id \in Nat, NEW v \in View
    PROVE  /\ WorkEvent(type, id) \in Event
           /\ Timely(WorkEvent(type, id), v)
           /\ After(WorkEvent(type, id), v).refresh = v.refresh
           /\ After(WorkEvent(type, id), v).unread = (type = "OperationFinished" \/ v.unread)
<1>1. WorkEvent(type, id) \in Event
    BY WorkEventType
<1>2. WorkEvent(type, id).type = type /\ type \notin RefreshEvents
    BY DEF WorkEvent, WorkEvents, RefreshEvents
<1>3. Timely(WorkEvent(type, id), v)
    BY <1>2 DEF Timely, RefreshEvents
<1>4. type # "RefreshStarted" /\ type # "RefreshFinished" /\ type # "RefreshCancelled"
    BY <1>2 DEF RefreshEvents
<1>5. v.unread \in BOOLEAN
    BY DEF View
<1>6. After(WorkEvent(type, id), v).refresh = v.refresh
    BY <1>2, <1>4 DEF After
<1>7. After(WorkEvent(type, id), v).unread = (IF type = "OperationFinished" THEN TRUE ELSE v.unread)
    BY <1>2, <1>4 DEF After
<1> QED
    BY <1>1, <1>3, <1>5, <1>6, <1>7

LEMMA StartedAfter ==
    ASSUME NEW id \in 1..MaxId, NEW trigger \in Trigger, NEW v \in View, v.refresh = 0,
           NEW e, e = [type |-> "RefreshStarted", id |-> id, trigger |-> trigger]
    PROVE  /\ e \in Event /\ Timely(e, v)
           /\ After(e, v).refresh = id
           /\ After(e, v).unread = v.unread
BY DEF Event, RefreshEvents, Timely, After

LEMMA RefreshEventAfter ==
    ASSUME NEW active \in ActiveRefresh, NEW v \in View, v.refresh = active.id
    PROVE  /\ LET e == RefreshEvent("RefreshOverviewReady", active)
              IN  e \in Event /\ Timely(e, v) /\ After(e, v).refresh = v.refresh
                              /\ After(e, v).unread = v.unread
           /\ LET e == RefreshEvent("RefreshCancelled", active)
              IN  e \in Event /\ Timely(e, v) /\ After(e, v).refresh = 0
                              /\ After(e, v).unread = v.unread
           /\ (v.unread => active.trigger = "PostMutation") =>
                 LET e == RefreshEvent("RefreshFinished", active)
                 IN  e \in Event /\ Timely(e, v) /\ After(e, v).refresh = 0
                                 /\ ~After(e, v).unread
<1>1. \A type \in RefreshEvents :
         /\ RefreshEvent(type, active) \in Event
         /\ RefreshEvent(type, active).type = type
         /\ RefreshEvent(type, active).id = active.id
         /\ RefreshEvent(type, active).trigger = active.trigger
    BY RefreshEventType DEF RefreshEvent
<1> QED
    BY <1>1 DEF RefreshEvents, Timely, After

-----------------------------------------------------------------------------
(* The step of a task that has nothing left to send: what it sends next leads
   on to a belief that agrees with the engine again. *)

TellsOn(mid) == \E end \in View : Leads(sending', mid, end) /\ Agrees(end)'

LEMMA TellsNothing ==
    ASSUME NEW mid \in View, Agrees(mid), sending' = <<>>,
           scheduler'.active.id = scheduler.active.id, unreconciled => unreconciled'
    PROVE  TellsOn(mid)
<1>1. Leads(sending', mid, mid)
    BY LeadsNowhere
<1>2. Agrees(mid)'
    BY DEF Agrees
<1> QED
    BY <1>1, <1>2 DEF TellsOn

LEMMA TellsRejected ==
    ASSUME NEW mid \in View, Agrees(mid), NEW count \in Nat,
           sending' = <<WorkEvent("ManualDemandRejected", count)>>,
           scheduler'.active.id = scheduler.active.id, unreconciled => unreconciled'
    PROVE  TellsOn(mid)
<1> DEFINE e == WorkEvent("ManualDemandRejected", count)
<1>1. /\ e \in Event /\ Timely(e, mid)
      /\ After(e, mid).refresh = mid.refresh
      /\ After(e, mid).unread = ("ManualDemandRejected" = "OperationFinished" \/ mid.unread)
    BY WorkEventAfter DEF WorkEvents
<1> HIDE DEF e
<1>2. After(e, mid) \in View /\ Leads(<<e>>, mid, After(e, mid))
    BY <1>1, LeadsOne
<1>3. Agrees(After(e, mid))'
    BY <1>1, <1>2 DEF Agrees, View
<1> QED
    BY <1>2, <1>3 DEF TellsOn, e

LEMMA TellsStart ==
    ASSUME NEW mid \in View, Agrees(mid), scheduler.active = NoRefresh,
           NEW s \in Scheduler, NEW trigger \in Trigger, NEW status, NEW goto,
           s.active = NoRefresh, BeginRefresh(s, trigger, status, goto),
           unreconciled' = unreconciled
    PROVE  TellsOn(mid)
<1> DEFINE e == [type |-> "RefreshStarted", id |-> s.nextId, trigger |-> trigger]
<1>1. scheduler'.active.id = s.nextId /\ s.nextId \in 1..MaxId
    BY BeginRefreshProperties, StartType DEF Scheduler
<1>2. sending' = <<e>>
    BY Zenon DEF BeginRefresh, CanStart
<1>3. mid.refresh = 0
    BY DEF Agrees, NoRefresh
<1>4. /\ e \in Event /\ Timely(e, mid)
      /\ After(e, mid).refresh = s.nextId /\ After(e, mid).unread = mid.unread
    BY <1>1, <1>3, StartedAfter
<1> HIDE DEF e
<1>5. After(e, mid) \in View /\ Leads(<<e>>, mid, After(e, mid))
    BY <1>4, LeadsOne
<1>6. Agrees(After(e, mid))'
    BY <1>1, <1>4 DEF Agrees
<1> QED
    BY <1>2, <1>5, <1>6 DEF TellsOn

LEMMA TellsEnd ==
    ASSUME NEW mid \in View, Agrees(mid), NEW active \in ActiveRefresh, active = scheduler.active,
           NEW type \in {"RefreshFinished", "RefreshCancelled"},
           type = "RefreshFinished" =>
              (unreconciled => active.trigger = "PostMutation"),
           type = "RefreshCancelled" => unreconciled' = unreconciled,
           sending' = <<RefreshEvent(type, active)>>, scheduler'.active = NoRefresh
    PROVE  TellsOn(mid)
<1> DEFINE e == RefreshEvent(type, active)
<1>1. mid.refresh = active.id /\ (mid.unread => unreconciled)
    BY DEF Agrees
<1>2. CASE type = "RefreshFinished"
    <2>1. e \in Event /\ Timely(e, mid) /\ After(e, mid).refresh = 0 /\ ~After(e, mid).unread
        BY <1>1, <1>2, RefreshEventAfter
    <2> HIDE DEF e
    <2>2. After(e, mid) \in View /\ Leads(<<e>>, mid, After(e, mid))
        BY <2>1, LeadsOne
    <2>3. Agrees(After(e, mid))'
        BY <2>1 DEF Agrees, NoRefresh
    <2> QED
        BY <2>2, <2>3 DEF TellsOn, e
<1>3. CASE type = "RefreshCancelled"
    <2>1. /\ e \in Event /\ Timely(e, mid)
          /\ After(e, mid).refresh = 0 /\ After(e, mid).unread = mid.unread
        BY <1>1, <1>3, RefreshEventAfter
    <2> HIDE DEF e
    <2>2. After(e, mid) \in View /\ Leads(<<e>>, mid, After(e, mid))
        BY <2>1, LeadsOne
    <2>3. Agrees(After(e, mid))'
        BY <1>1, <1>3, <2>1 DEF Agrees, NoRefresh
    <2> QED
        BY <2>2, <2>3 DEF TellsOn, e
<1> QED
    BY <1>2, <1>3

(* The reports of an execution, on a firewall that is not reconciled. *)
LEMMA TellsReports ==
    ASSUME NEW mid \in View, Agrees(mid), NEW id \in Nat,
           sending' \in {<<WorkEvent("OperationFinished", id)>>,
                         <<WorkEvent("PlanFinished", id)>>,
                         <<WorkEvent("OperationFinished", id), WorkEvent("PlanFinished", id)>>},
           scheduler' = scheduler, unreconciled'
    PROVE  TellsOn(mid)
<1> DEFINE op == WorkEvent("OperationFinished", id)
<1> DEFINE plan == WorkEvent("PlanFinished", id)
<1>1. \A v \in View : /\ op \in Event /\ Timely(op, v) /\ After(op, v).refresh = v.refresh
                      /\ plan \in Event /\ Timely(plan, v) /\ After(plan, v).refresh = v.refresh
    BY WorkEventAfter DEF WorkEvents
<1>2. \A v \in View : v.refresh = mid.refresh => Agrees(v)'
    BY DEF Agrees
<1>3. sending' \in {<<op>>, <<plan>>, <<op, plan>>}
    OBVIOUS
<1> HIDE DEF op, plan
<1>4. CASE sending' = <<op>>
    <2>1. After(op, mid) \in View /\ Leads(<<op>>, mid, After(op, mid))
        BY <1>1, LeadsOne
    <2> QED
        BY <1>1, <1>2, <1>4, <2>1 DEF TellsOn
<1>5. CASE sending' = <<plan>>
    <2>1. After(plan, mid) \in View /\ Leads(<<plan>>, mid, After(plan, mid))
        BY <1>1, LeadsOne
    <2> QED
        BY <1>1, <1>2, <1>5, <2>1 DEF TellsOn
<1>6. CASE sending' = <<op, plan>>
    <2>1. After(op, mid) \in View
        BY <1>1, AfterIsView
    <2>2. /\ After(plan, After(op, mid)) \in View
          /\ Leads(<<op, plan>>, mid, After(plan, After(op, mid)))
        BY <1>1, <2>1, LeadsTwo
    <2>3. After(plan, After(op, mid)).refresh = mid.refresh
        BY <1>1, <2>1
    <2> QED
        BY <1>2, <1>6, <2>2, <2>3 DEF TellsOn
<1> QED
    BY <1>3, <1>4, <1>5, <1>6

LEMMA TellsStep ==
    ASSUME Inductive, Next, sending = <<>>, pc # "Stopped", pc' # "Stopped",
           NEW mid \in View, Agrees(mid)
    PROVE  TellsOn(mid)
<1> USE DEF lanes, control, reading, timer, history, interface, engineOnly, uiUnchanged
<1> USE DEF Live, At, Stop
<1>q. /\ scheduler \in Scheduler /\ manual \in Seq(ManualBatch) /\ unreconciled \in BOOLEAN
      /\ work \in Work \cup {NoWork} /\ nextTrigger \in {"None", "Initial", "Manual"}
    BY DEF Inductive, TypeOK, RefreshTyped, LanesTyped, StatusTyped, WorkTyped
<1>s. /\ pc \in BetweenReads => scheduler.active = NoRefresh
      /\ pc \in Reconciling \cup {"Ordinary"} =>
            /\ scheduler.active # NoRefresh /\ scheduler.active \in ActiveRefresh
            /\ startId = scheduler.active.id
            /\ scheduler.active.trigger = "PostMutation" <=> pc # "Ordinary"
    BY <1>q DEF Inductive, Control, SchedulerFollows, Scheduler
<1>v. /\ pc \in {"Top", "Idle", "Ordinary"} => ~unreconciled
      /\ pc \in Reconciling \cup {"Execute", "Reconcile"} => unreconciled
    BY DEF Inductive, Control, ViewFollows
<1>w. pc = "Execute" => work.id \in Nat
    BY <1>q, EngineAssumption DEF Inductive, Control, HandsFollow, Work
<1>o. /\ Observed \in Scheduler /\ Observed.active.id = scheduler.active.id
      /\ Observed.active = NoRefresh <=> scheduler.active = NoRefresh
      /\ Observed.active.trigger = scheduler.active.trigger
    BY <1>q, ObservedProperties
<1>1. CASE SendEvent \/ SendFails \/ Shutdown
    BY <1>1 DEF SendEvent, SendFails, Shutdown
<1>2. CASE TakeHeldRollback \/ TakeQueuedRollback \/ TakeHeldRequest \/ TakePendingRequest
           \/ ExecuteUrgent
    <2>1. sending' = <<>> /\ scheduler' = scheduler /\ unreconciled' = TRUE
        BY <1>2 DEF TakeHeldRollback, TakeQueuedRollback, TakeHeldRequest, TakePendingRequest,
               ExecuteUrgent, Begin
    <2> QED
        BY <2>1, TellsNothing
<1>3. CASE GoIdle \/ IdleRollback \/ IdleRequest \/ AbsorbBegin \/ AbsorbRequests
           \/ MandatoryRequest \/ OrdinaryOverview \/ MandatoryOverview
    <2>1. sending' = <<>> /\ scheduler' = scheduler /\ unreconciled' = unreconciled
        BY <1>3 DEF GoIdle, IdleRollback, IdleRequest, AbsorbBegin, AbsorbRequests,
               MandatoryRequest, OrdinaryOverview, MandatoryOverview, ReadOverview
    <2> QED
        BY <2>1, TellsNothing
<1>4. CASE StartTriggered
    <2>1. /\ BeginRefresh(scheduler, nextTrigger, watch, "Ordinary")
          /\ nextTrigger \in Trigger /\ pc = "Top" /\ unreconciled' = unreconciled
        BY <1>4, <1>q DEF StartTriggered, Trigger
    <2> QED
        BY <2>1, <1>q, <1>s, TellsStart DEF BetweenReads
<1>5. CASE IdleManual
    <2> DEFINE batch == Head(manual)
    <2> DEFINE counted == RecordManual(scheduler, batch.count)
    <2>1. /\ manual # <<>> /\ pc = "Idle" /\ scheduler.active = NoRefresh
          /\ unreconciled' = unreconciled
        BY <1>5, <1>s DEF IdleManual, ManualReady, BetweenReads
    <2>2. batch \in ManualBatch /\ batch.count \in 1..MaxCount
        BY <2>1, <1>q, HeadBatch
    <2>3. CASE ~BatchFits(scheduler, batch.count)
        <3>1. ReceiveManual
            BY <1>5, <2>3 DEF IdleManual
        <3>2. /\ sending' = <<WorkEvent("ManualDemandRejected", batch.count)>>
              /\ scheduler' = scheduler
            BY <2>3, <3>1 DEF ReceiveManual
        <3>3. batch.count \in Nat
            BY <2>2, SchedulerAssumption
        <3> HIDE DEF batch
        <3> QED
            BY <2>1, <3>2, <3>3, TellsRejected
    <2>4. CASE BatchFits(scheduler, batch.count)
        <3>1. BeginRefresh(counted, "Manual", Becomes(batch, "owed"), "Ordinary")
            BY <1>5, <2>4, Zenon DEF IdleManual
        <3>2. counted \in Scheduler /\ counted.active = NoRefresh
            BY <2>1, <2>2, <2>4, <1>q, RecordManualType
        <3>3. "Manual" \in Trigger
            BY DEF Trigger
        <3> HIDE DEF counted, batch
        <3> QED
            BY <2>1, <3>1, <3>2, <3>3, TellsStart
    <2> QED
        BY <2>3, <2>4
<1>6. CASE IdlePeriodic
    <2>1. /\ BeginRefresh(scheduler, "Periodic", watch, "Ordinary")
          /\ "Periodic" \in Trigger /\ pc = "Idle" /\ unreconciled' = unreconciled
        BY <1>6, Zenon DEF IdlePeriodic, Trigger
    <2> QED
        BY <2>1, <1>q, <1>s, TellsStart DEF BetweenReads
<1>7. CASE OrdinaryRollback \/ OrdinaryRequest
    <2>1. \E w : Preempt(w) /\ pc = "Ordinary"
        BY <1>7 DEF OrdinaryRollback, OrdinaryRequest
    <2>2. /\ scheduler' = Retire(Observed) /\ unreconciled' = unreconciled
          /\ sending' = <<RefreshEvent("RefreshCancelled", scheduler.active)>>
        BY <2>1 DEF Preempt
    <2>3. scheduler'.active = NoRefresh
        BY <2>2, <1>o, RetireType
    <2>4. scheduler.active \in ActiveRefresh
        BY <2>1, <1>s
    <2> QED
        BY <2>2, <2>3, <2>4, TellsEnd
<1>8. CASE OrdinaryManual \/ MandatoryManual \/ DrainBatch
    <2> DEFINE batch == Head(manual)
    <2>1. ReceiveManual /\ manual # <<>> /\ unreconciled' = unreconciled
        <3>1. CASE OrdinaryManual \/ MandatoryManual
            BY <3>1 DEF OrdinaryManual, MandatoryManual, ManualReady
        <3>2. CASE DrainBatch
            <4>1. quota > 0 /\ quota \in 0..Len(manual)
                BY <3>2 DEF DrainBatch, Inductive, TypeOK, LanesTyped
            <4>2. manual # <<>>
                BY <4>1, <1>q, EmptySeq
            <4> QED
                BY <3>2, <4>2 DEF DrainBatch
        <3> QED
            BY <1>8, <3>1, <3>2
    <2>2. batch.count \in Nat /\ scheduler'.active.id = scheduler.active.id
        BY <2>1, <1>q, ReceiveManualProperties, SchedulerAssumption
    <2>3. sending' = <<>> \/ sending' = <<WorkEvent("ManualDemandRejected", batch.count)>>
        BY <2>1 DEF ReceiveManual
    <2> HIDE DEF batch
    <2> QED
        BY <2>1, <2>2, <2>3, TellsNothing, TellsRejected
<1>9. CASE OrdinaryPeriodic \/ MandatoryPeriodic \/ MandatoryReadDone \/ MandatoryRollback
    <2>1. sending' = <<>> /\ scheduler' = Observed /\ unreconciled' = unreconciled
        BY <1>9 DEF OrdinaryPeriodic, MandatoryPeriodic, TickActive, MandatoryReadDone,
               MandatoryRollback
    <2> QED
        BY <2>1, <1>o, TellsNothing
<1>10. CASE OrdinaryReadDone
    <2>1. /\ scheduler' = Retire(scheduler) /\ unreconciled' = unreconciled /\ pc = "Ordinary"
          /\ sending' = <<RefreshEvent("RefreshFinished", scheduler.active)>>
        BY <1>10, Zenon DEF OrdinaryReadDone
    <2>2. scheduler'.active = NoRefresh /\ scheduler.active \in ActiveRefresh /\ ~unreconciled
        BY <2>1, <1>q, <1>s, <1>v, RetireType
    <2> QED
        BY <2>1, <2>2, TellsEnd
<1>11. CASE PlanOperationApplied
    <2>1. /\ sending' = <<OperationReport>> /\ scheduler' = scheduler
          /\ unreconciled' = unreconciled /\ pc = "Execute"
        BY <1>11 DEF PlanOperationApplied
    <2>2. unreconciled'
        BY <2>1, <1>v
    <2> QED
        BY <1>w, <2>1, <2>2, TellsReports DEF OperationReport
<1>12. CASE ExecuteSingle \/ PlanRejected \/ PlanHalted \/ PlanCompleted
    <2>1. /\ \/ sending' = <<OperationReport>> \/ sending' = <<PlanReport>>
             \/ sending' = <<OperationReport, PlanReport>>
          /\ scheduler' = scheduler /\ unreconciled' = unreconciled /\ pc = "Execute"
        BY <1>12 DEF ExecuteSingle, PlanRejected, PlanHalted, PlanCompleted, Executed
    <2>2. unreconciled'
        BY <2>1, <1>v
    <2> QED
        BY <1>w, <2>1, <2>2, TellsReports DEF OperationReport, PlanReport
<1>13. CASE BeginReconciliation
    <2>1. /\ BeginRefresh(scheduler, "PostMutation", watch, "Absorb")
          /\ "PostMutation" \in Trigger /\ pc = "Reconcile" /\ unreconciled' = unreconciled
        BY <1>13 DEF BeginReconciliation, Trigger
    <2> QED
        BY <2>1, <1>q, <1>s, TellsStart DEF BetweenReads
<1>14. CASE AbsorbBatch
    <2> DEFINE batch == Head(manual)
    <2>1. quota > 0 /\ quota \in 0..Len(manual) /\ unreconciled' = unreconciled
        BY <1>14 DEF AbsorbBatch, Inductive, TypeOK, LanesTyped
    <2>2. manual # <<>>
        BY <2>1, <1>q, EmptySeq
    <2>3. batch.count \in 1..MaxCount /\ batch.count \in Nat
        BY <2>2, <1>q, HeadBatch, SchedulerAssumption
    <2>4. CASE BatchFits(scheduler, batch.count)
        <3>1. sending' = <<>> /\ scheduler' = AbsorbManual(scheduler, batch.count)
            BY <1>14, <2>4 DEF AbsorbBatch
        <3>2. scheduler'.active.id = scheduler.active.id
            BY <2>3, <2>4, <3>1, <1>q, AbsorbManualType
        <3> QED
            BY <2>1, <3>1, <3>2, TellsNothing
    <2>5. CASE ~BatchFits(scheduler, batch.count)
        <3>1. /\ sending' = <<WorkEvent("ManualDemandRejected", batch.count)>>
              /\ scheduler' = scheduler
            BY <1>14, <2>5 DEF AbsorbBatch
        <3> HIDE DEF batch
        <3> QED
            BY <2>1, <2>3, <3>1, TellsRejected
    <2> QED
        BY <2>4, <2>5
<1>15. CASE CompleteReconciliation
    <2>1. /\ scheduler' = Retire(scheduler) /\ pc = "Boundary"
          /\ sending' = <<RefreshEvent("RefreshFinished", scheduler.active)>>
        BY <1>15, Zenon DEF CompleteReconciliation
    <2>2. /\ scheduler'.active = NoRefresh /\ scheduler.active \in ActiveRefresh
          /\ scheduler.active.trigger = "PostMutation"
        BY <2>1, <1>q, <1>s, RetireType DEF Reconciling
    <2> QED
        BY <2>1, <2>2, TellsEnd
<1>16. CASE CancelReconciliation
    <2>1. /\ scheduler' = Retire(scheduler) /\ unreconciled' = unreconciled /\ pc = "Preempt"
          /\ sending' = <<RefreshEvent("RefreshCancelled", scheduler.active)>>
        BY <1>16 DEF CancelReconciliation
    <2>2. scheduler'.active = NoRefresh /\ scheduler.active \in ActiveRefresh
        BY <2>1, <1>q, <1>s, RetireType DEF Reconciling
    <2> QED
        BY <2>1, <2>2, TellsEnd
<1>17. CASE Environment \/ Terminated
    <2>1. sending' = sending /\ scheduler' = scheduler /\ unreconciled' = unreconciled
        BY <1>17 DEF Environment, UiSendRequest, UiSendRollback, UiSendManual, UiConsumeEvent,
               UiClose, TimerElapses, Terminated, vars
    <2> QED
        BY <2>1, TellsNothing
<1> QED
    BY <1>1, <1>2, <1>3, <1>4, <1>5, <1>6, <1>7, <1>8, <1>9, <1>10, <1>11, <1>12, <1>13,
       <1>14, <1>15, <1>16, <1>17
       DEF Next, EngineStep, Loop, OrdinaryRefresh, Execution, Reconciliation

(* A step of the task other than sending leaves the channel alone; only a read
   puts its overview there. *)
LEMMA ChannelAt ==
    ASSUME Inductive, Next, ~SendEvent, ~SendFails
    PROVE  \/ /\ UiConsumeEvent \/ UiClose
              /\ UNCHANGED <<sending, pc, scheduler, unreconciled>>
           \/ /\ ~EventsClosed => sending = <<>> /\ pc # "Stopped"
              /\ UNCHANGED <<closed, uiRefresh, uiUnread>>
              /\ \/ events' = events
                 \/ /\ events' = Append(events, RefreshEvent("RefreshOverviewReady", scheduler.active))
                    /\ scheduler.active \in ActiveRefresh /\ ~EventsClosed
                    /\ UNCHANGED <<sending, pc, scheduler, unreconciled>>
           \/ UNCHANGED <<events, closed, uiRefresh, uiUnread, sending, pc, scheduler, unreconciled>>
<1> USE DEF lanes, control, reading, timer, history, interface, engineOnly, uiUnchanged
<1> USE DEF Live, At, Stop
<1>1. CASE OrdinaryOverview \/ MandatoryOverview
    <2>1. scheduler.active \in ActiveRefresh
        BY <1>1 DEF OrdinaryOverview, MandatoryOverview, Inductive, TypeOK, RefreshTyped, Control,
               SchedulerFollows, Reconciling, Scheduler
    <2> QED
        BY <1>1, <2>1 DEF OrdinaryOverview, MandatoryOverview, ReadOverview, UiGone
<1>2. CASE Shutdown \/ TakeHeldRollback \/ TakeQueuedRollback \/ TakeHeldRequest
           \/ TakePendingRequest \/ StartTriggered \/ GoIdle
    BY <1>2 DEF Shutdown, TakeHeldRollback, TakeQueuedRollback, TakeHeldRequest,
           TakePendingRequest, StartTriggered, GoIdle
<1>3. CASE IdleRollback \/ IdleRequest \/ IdleManual \/ IdlePeriodic
    BY <1>3 DEF IdleRollback, IdleRequest, IdleManual, IdlePeriodic
<1>4. CASE OrdinaryRollback \/ OrdinaryRequest
    BY <1>4 DEF OrdinaryRollback, OrdinaryRequest, Preempt
<1>5. CASE OrdinaryManual \/ OrdinaryPeriodic \/ OrdinaryReadDone
           \/ MandatoryManual \/ MandatoryPeriodic
    BY <1>5 DEF OrdinaryManual, OrdinaryPeriodic, OrdinaryReadDone, MandatoryManual,
           MandatoryPeriodic, TickActive
<1>6. CASE Execution
    BY <1>6 DEF Execution, ExecuteSingle, PlanRejected, PlanOperationApplied, PlanHalted,
           PlanCompleted, Executed
<1>7. CASE BeginReconciliation \/ AbsorbBegin \/ AbsorbBatch \/ AbsorbRequests
           \/ MandatoryReadDone \/ MandatoryRollback \/ MandatoryRequest
    BY <1>7 DEF BeginReconciliation, AbsorbBegin, AbsorbBatch, AbsorbRequests,
           MandatoryReadDone, MandatoryRollback, MandatoryRequest
<1>8. CASE DrainBatch \/ CompleteReconciliation \/ CancelReconciliation \/ ExecuteUrgent
    BY <1>8 DEF DrainBatch, CompleteReconciliation, CancelReconciliation, ExecuteUrgent
<1>9. CASE UiConsumeEvent \/ UiClose
    BY <1>9 DEF UiConsumeEvent, UiClose
<1>10. CASE UiSendRequest \/ UiSendRollback \/ UiSendManual \/ TimerElapses \/ Terminated
    BY <1>10 DEF UiSendRequest, UiSendRollback, UiSendManual, TimerElapses, Terminated, vars
<1> QED
    BY <1>1, <1>2, <1>3, <1>4, <1>5, <1>6, <1>7, <1>8, <1>9, <1>10
       DEF Next, EngineStep, Loop, OrdinaryRefresh, Reconciliation, Environment

(* What the interface makes of the event it takes is what After says. *)
LEMMA ConsumedView ==
    ASSUME Inductive, UiConsumeEvent
    PROVE  InterfaceView' = After(Head(events), InterfaceView)
<1>1. Head(events) \in Event
    BY HeadTailProperties DEF UiConsumeEvent, Inductive, TypeOK, EventsTyped
<1> DEFINE e == Head(events)
<1>2. /\ uiRefresh' = IF e.type = "RefreshStarted" THEN e.id
                      ELSE IF e.type \in {"RefreshFinished", "RefreshCancelled"} /\ uiRefresh = e.id
                           THEN 0 ELSE uiRefresh
      /\ uiUnread' = IF e.type = "OperationFinished" THEN TRUE
                     ELSE IF e.type = "RefreshFinished" /\ uiRefresh = e.id
                          THEN FALSE ELSE uiUnread
    BY DEF UiConsumeEvent
<1> HIDE DEF e
<1>3. InterfaceView' = After(e, InterfaceView)
    BY <1>2 DEF InterfaceView, After
<1> QED
    BY <1>3 DEF e

LEMMA InterfaceHasView == Inductive => InterfaceView \in View
BY DEF Inductive, TypeOK, StatusTyped, InterfaceView, View

LEMMA ToldInit == Init => Told
<1> SUFFICES ASSUME Init PROVE Told
    OBVIOUS
<1>1. /\ events = <<>> /\ sending = <<>> /\ ~EventsClosed
      /\ InterfaceView.refresh = scheduler.active.id /\ ~InterfaceView.unread
    BY DEF Init, EventsClosed, InterfaceView, NewScheduler, NoRefresh
<1>2. InterfaceView \in View
    BY InductiveInit, InterfaceHasView
<1>3. Leads(<<>>, InterfaceView, InterfaceView) /\ Agrees(InterfaceView)
    BY <1>1, <1>2, LeadsNowhere DEF Agrees
<1> QED
    BY <1>1, <1>2, <1>3 DEF Told, ToldInOrder, NothingAfterClose

LEMMA ToldStep ==
    ASSUME Inductive, Told, [Next]_vars
    PROVE  Told'
<1> USE DEF lanes, control, reading, timer, history, interface, engineOnly, uiUnchanged
<1>0. CASE UNCHANGED <<events, closed, uiRefresh, uiUnread, sending, pc, scheduler, unreconciled>>
    BY <1>0 DEF Told, ToldInOrder, NothingAfterClose, EventsClosed, InterfaceView, Agrees
<1>1. CASE UNCHANGED vars
    BY <1>0, <1>1 DEF vars
<1> DEFINE view == InterfaceView
<1>q. events \in Seq(Event) /\ sending \in Seq(Event) /\ view \in View
    BY InterfaceHasView DEF Inductive, TypeOK, EventsTyped
<1>2. CASE SendFails
    <2>1. EventsClosed /\ EventsClosed' /\ events' = events
        BY <1>2 DEF SendFails, EventsClosed
    <2> QED
        BY <2>1 DEF Told, ToldInOrder, NothingAfterClose
<1>3. CASE SendEvent
    <2>1. /\ sending # <<>> /\ pc # "Stopped" /\ ~EventsClosed
          /\ events' = Append(events, Head(sending)) /\ sending' = Tail(sending)
          /\ UNCHANGED <<closed, uiRefresh, uiUnread, pc, scheduler, unreconciled>>
        BY <1>3 DEF SendEvent
    <2>2. PICK mid \in View, end \in View :
             Leads(events, view, mid) /\ Leads(sending, mid, end) /\ Agrees(end)
        BY <2>1 DEF Told, ToldInOrder
    <2> DEFINE first == Head(sending)
    <2> DEFINE next == After(first, mid)
    <2>3. first \in Event
        BY <2>1, <1>q, HeadTailProperties
    <2>4. Timely(first, mid) /\ next \in View /\ Leads(Tail(sending), next, end)
        BY <2>1, <2>2, <1>q, LeadsHead
    <2>5. Leads(Append(events, first), view, next)
        BY <2>2, <2>3, <2>4, <1>q, LeadsOn
    <2> HIDE DEF next
    <2>6. ~EventsClosed' /\ InterfaceView' = view /\ Agrees(end)'
        BY <2>1, <2>2 DEF EventsClosed, InterfaceView, Agrees
    <2>7. Leads(events', InterfaceView', next) /\ Leads(sending', next, end)
        BY <2>1, <2>4, <2>5, <2>6
    <2> QED
        BY <2>4, <2>6, <2>7 DEF Told, ToldInOrder, NothingAfterClose
<1>4. CASE UiConsumeEvent
    <2>1. /\ events # <<>> /\ ~EventsClosed /\ events' = Tail(events)
          /\ UNCHANGED <<closed, sending, pc, scheduler, unreconciled>>
        BY <1>4 DEF UiConsumeEvent
    <2>2. PICK mid \in View :
             /\ Leads(events, view, mid)
             /\ pc # "Stopped" => \E end \in View : Leads(sending, mid, end) /\ Agrees(end)
        BY <2>1 DEF Told, ToldInOrder
    <2>3. Leads(Tail(events), After(Head(events), view), mid)
        BY <2>1, <2>2, <1>q, LeadsHead
    <2>4. InterfaceView' = After(Head(events), view)
        BY <1>4, ConsumedView
    <2>5. Leads(events', InterfaceView', mid)
        BY <2>1, <2>3, <2>4
    <2>6. ~EventsClosed' /\ \A end \in View : Agrees(end) => Agrees(end)'
        BY <2>1 DEF EventsClosed, Agrees
    <2> QED
        BY <2>1, <2>2, <2>5, <2>6 DEF Told, ToldInOrder, NothingAfterClose
<1>5. CASE UiClose
    <2>1. CASE closed' = 4
        <3>1. events' = <<>> /\ EventsClosed'
            BY <1>5, <2>1 DEF UiClose, EventsClosed
        <3> QED
            BY <3>1 DEF Told, ToldInOrder, NothingAfterClose
    <2>2. CASE closed' # 4
        <3>1. /\ ~EventsClosed /\ ~EventsClosed'
              /\ UNCHANGED <<events, uiRefresh, uiUnread, sending, pc, scheduler, unreconciled>>
            BY <1>5, <2>2 DEF UiClose, EventsClosed
        <3> QED
            BY <3>1 DEF Told, ToldInOrder, NothingAfterClose, InterfaceView, Agrees
    <2> QED
        BY <2>1, <2>2
<1>6. ASSUME EventsClosed, UNCHANGED <<events, closed>> PROVE Told'
    BY <1>6 DEF Told, ToldInOrder, NothingAfterClose, EventsClosed
<1>7. ASSUME ~EventsClosed, sending = <<>>, pc # "Stopped",
             UNCHANGED <<closed, uiRefresh, uiUnread>>
      PROVE  /\ ~EventsClosed' /\ InterfaceView' = view
             /\ \E mid \in View : Leads(events, view, mid) /\ Agrees(mid)
    <2>1. PICK mid \in View, end \in View :
             Leads(events, view, mid) /\ Leads(sending, mid, end) /\ Agrees(end)
        BY <1>7 DEF Told, ToldInOrder
    <2>2. mid = end
        BY <1>7, <2>1, LeadsNowhere
    <2> QED
        BY <1>7, <2>1, <2>2 DEF EventsClosed, InterfaceView
<1>8. ASSUME Next, ~EventsClosed, sending = <<>>, pc # "Stopped",
             UNCHANGED <<events, closed, uiRefresh, uiUnread>>
      PROVE  Told'
    <2>1. PICK mid \in View : Leads(events, view, mid) /\ Agrees(mid)
        BY <1>7, <1>8
    <2>2. ~EventsClosed' /\ InterfaceView' = view
        BY <1>7, <1>8
    <2>3. Leads(events', InterfaceView', mid)
        BY <1>8, <2>1, <2>2
    <2>4. pc' # "Stopped" => \E end \in View : Leads(sending', mid, end) /\ Agrees(end)'
        BY <1>8, <2>1, TellsStep DEF TellsOn
    <2> QED
        BY <2>2, <2>3, <2>4 DEF Told, ToldInOrder, NothingAfterClose
<1>9. ASSUME ~EventsClosed, sending = <<>>, pc # "Stopped", scheduler.active \in ActiveRefresh,
             events' = Append(events, RefreshEvent("RefreshOverviewReady", scheduler.active)),
             UNCHANGED <<closed, uiRefresh, uiUnread, sending, pc, scheduler, unreconciled>>
      PROVE  Told'
    <2> DEFINE e == RefreshEvent("RefreshOverviewReady", scheduler.active)
    <2>1. PICK mid \in View : Leads(events, view, mid) /\ Agrees(mid)
        BY <1>7, <1>9
    <2>2. ~EventsClosed' /\ InterfaceView' = view
        BY <1>7, <1>9
    <2>3. /\ mid.refresh = scheduler.active.id /\ (mid.unread => unreconciled)
        BY <2>1 DEF Agrees
    <2>4. /\ e \in Event /\ Timely(e, mid) /\ After(e, mid).refresh = mid.refresh
          /\ After(e, mid).unread = mid.unread
        BY <1>9, <2>3, RefreshEventAfter
    <2> HIDE DEF e
    <2>5. PICK next \in View : next = After(e, mid)
        BY <2>4, AfterIsView
    <2>6. Leads(events', InterfaceView', next)
        BY <1>9, <1>q, <2>1, <2>2, <2>4, <2>5, LeadsOn DEF e
    <2>7. Leads(sending', next, next)
        BY <1>9, LeadsNowhere
    <2>8. Agrees(next)'
        BY <1>9, <2>3, <2>4, <2>5 DEF Agrees
    <2> QED
        BY <2>2, <2>6, <2>7, <2>8 DEF Told, ToldInOrder, NothingAfterClose
<1>10. CASE Next /\ ~SendEvent /\ ~SendFails
    <2> DEFINE e == RefreshEvent("RefreshOverviewReady", scheduler.active)
    <2>1. \/ UiConsumeEvent \/ UiClose
          \/ /\ ~EventsClosed => sending = <<>> /\ pc # "Stopped"
             /\ UNCHANGED <<closed, uiRefresh, uiUnread>>
             /\ \/ events' = events
                \/ /\ events' = Append(events, e)
                   /\ scheduler.active \in ActiveRefresh /\ ~EventsClosed
                   /\ UNCHANGED <<sending, pc, scheduler, unreconciled>>
          \/ UNCHANGED <<events, closed, uiRefresh, uiUnread, sending, pc, scheduler, unreconciled>>
        BY <1>10, ChannelAt
    <2>2. CASE UNCHANGED <<closed, uiRefresh, uiUnread, events>> /\ ~EventsClosed
               /\ sending = <<>> /\ pc # "Stopped"
        BY <1>8, <1>10, <2>2
    <2>3. CASE /\ ~EventsClosed /\ sending = <<>> /\ pc # "Stopped"
               /\ events' = Append(events, e)
               /\ scheduler.active \in ActiveRefresh
               /\ UNCHANGED <<closed, uiRefresh, uiUnread, sending, pc, scheduler, unreconciled>>
        BY <1>9, <2>3
    <2> HIDE DEF e
    <2>4. CASE EventsClosed /\ UNCHANGED <<events, closed>>
        BY <1>6, <2>4
    <2> QED
        BY <1>0, <1>4, <1>5, <2>1, <2>2, <2>3, <2>4
<1> QED
    BY <1>1, <1>2, <1>3, <1>10

THEOREM EngineTold == Spec => []Told
<1>1. Inductive /\ Told /\ [Next]_vars => Told'
    BY ToldStep
<1> QED
    BY <1>1, ToldInit, EngineInvariant, PTL DEF Spec

LEMMA HeadIsTimely ==
    ASSUME Inductive, Told, events # <<>>
    PROVE  ~EventsClosed /\ Timely(Head(events), InterfaceView)
<1>1. ~EventsClosed
    BY DEF Told, NothingAfterClose
<1>2. PICK mid \in View : Leads(events, InterfaceView, mid)
    BY <1>1 DEF Told, ToldInOrder
<1>3. events \in Seq(Event) /\ InterfaceView \in View
    BY InterfaceHasView DEF Inductive, TypeOK, EventsTyped
<1> QED
    BY <1>1, <1>2, <1>3, LeadsHead

(* Every event of a refresh that the interface takes belongs to the refresh it
   believes active, and a refresh starts only when it believes none is. *)
THEOREM EngineLifecycleInOrder == Spec => LifecycleInOrder
<1>1. ASSUME Inductive, Told
      PROVE  [LET event == Head(events) IN
              events # <<>> /\ events' = Tail(events) /\ closed' = closed =>
                 /\ event.type = "RefreshStarted" => uiRefresh = 0
                 /\ event.type \in RefreshEvents \ {"RefreshStarted"} => uiRefresh = event.id
             ]_events
    <2>1. events # <<>> => Timely(Head(events), InterfaceView)
        BY <1>1, HeadIsTimely
    <2>2. InterfaceView.refresh = uiRefresh
        BY DEF InterfaceView
    <2> QED
        BY <2>1, <2>2 DEF Timely
<1> QED
    BY <1>1, EngineInvariant, EngineTold, PTL DEF LifecycleInOrder

(* The first completion that the interface accepts after an operation is that of
   a post-mutation read. *)
THEOREM EngineVerifiedAfterwards == Spec => VerifiedAfterwards
<1> USE DEF lanes, control, reading, timer, history, interface, engineOnly, uiUnchanged
<1>1. ASSUME Inductive, Told, [Next]_vars
      PROVE  [uiUnread /\ ~uiUnread' => Head(events).trigger = "PostMutation"]_vars
    <2> SUFFICES ASSUME Next, uiUnread, ~uiUnread'
                 PROVE  Head(events).trigger = "PostMutation"
        BY <1>1
    <2>1. UiConsumeEvent
        <3>1. ~SendEvent /\ ~SendFails
            BY DEF SendEvent, SendFails
        <3> QED
            BY <1>1, <3>1, ChannelAt DEF UiClose
    <2>2. events # <<>> /\ Timely(Head(events), InterfaceView)
        BY <1>1, <2>1, HeadIsTimely DEF UiConsumeEvent
    <2>3. Head(events).type = "RefreshFinished"
        BY <2>1 DEF UiConsumeEvent
    <2> QED
        BY <2>2, <2>3 DEF Timely, InterfaceView
<1> QED
    BY <1>1, EngineInvariant, EngineTold, PTL DEF Spec, VerifiedAfterwards

====
