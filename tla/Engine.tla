------------------------------- MODULE Engine -------------------------------
(***************************************************************************)
(* The engine task of src/application/engine.rs: the one task that owns    *)
(* the firewall backend.  It takes mutations, manual refresh demand and    *)
(* rollbacks from three bounded lanes, schedules refreshes, and reports on *)
(* a bounded event channel.                                                *)
(*                                                                         *)
(* One action is the code between two awaits.  `pc` is the await the task  *)
(* is at; `sending` is what it still has to send before the next action:   *)
(* `events.send(..).await` blocks while the channel is full and ends the   *)
(* task when the user interface has dropped the receiver.  A poll of a     *)
(* biased select is one step, so an arm requires that no earlier arm is    *)
(* ready.  The backend's reads and commands end in any way, at any time.   *)
(***************************************************************************)
EXTENDS RefreshScheduler, Sequences

CONSTANTS
    RequestCapacity,    \* of the request lane and of `pending_requests`
    ManualCapacity,     \* of the manual-demand lane
    RollbackCapacity,   \* of the rollback lane
    EventCapacity,      \* of the event channel
    MaxRequests,        \* bound: mutation requests the user interface sends
    MaxRollbacks,       \* bound: rollbacks it sends
    MaxBatch,           \* bound: manual demands in one batch
    Plans,              \* the requests that are plans
    PlanSize,           \* operations of each request
    ReadOnly            \* the engine refuses every mutation

ASSUME EngineAssumption ==
    /\ RequestCapacity \in Nat \ {0}
    /\ ManualCapacity \in Nat \ {0}
    /\ RollbackCapacity \in Nat \ {0}
    /\ EventCapacity \in Nat \ {0}
    /\ MaxRequests \in Nat
    /\ MaxRollbacks \in Nat
    /\ MaxBatch \in 1..MaxCount
    /\ Plans \subseteq 1..MaxRequests
    /\ PlanSize \in [1..MaxRequests -> Nat]
    /\ ReadOnly \in BOOLEAN

VARIABLES
    requests, manual, rollbacks,    \* the input lanes
    events,                         \* the event channel
    closed,                         \* how many of the four ends the interface dropped
    pc, sending,                    \* where the task is, what it is sending
    work, opsLeft, quota,           \* work in hand, its operations left, batches to drain
    nextWork, pendingRequests,      \* next_work, pending_requests
    nextTrigger, trailingManual,    \* next_trigger, trailing_manual of a reconciliation
    scheduler, startId, stage,      \* the scheduler, start.id, the read's stage
    armed, due,                     \* the periodic deadline: armed, and elapsed
    requestsSent, rollbacksSent,    \* history: what the interface has sent
    requestsBegun, rollbacksBegun,  \* history: what the engine has begun to execute
    unreconciled,                   \* history: mutated since the last complete read
    watch,                          \* history: what became of one chosen manual batch
    uiRefresh, uiUnread             \* the interface: active_refresh; operation since its last completion

lanes == <<requests, manual, rollbacks>>
control == <<work, opsLeft, quota, nextWork, pendingRequests, nextTrigger, trailingManual>>
reading == <<scheduler, startId, stage>>
timer == <<armed, due>>
history == <<requestsBegun, rollbacksBegun, unreconciled, watch>>
interface == <<closed, requestsSent, rollbacksSent, uiRefresh, uiUnread>>
vars == <<lanes, events, pc, sending, control, reading, timer, history, interface>>

-----------------------------------------------------------------------------
(* Messages *)

NoWork == [kind |-> "None", id |-> 0]
Normal(k) == [kind |-> "Normal", id |-> k]
Rollback(k) == [kind |-> "Rollback", id |-> k]
Work == [kind : {"Normal"}, id : 1..MaxRequests]
            \cup [kind : {"Rollback"}, id : 1..MaxRollbacks]

ManualBatch == [count : 1..MaxBatch, watched : BOOLEAN]

RefreshEvents == {"RefreshStarted", "RefreshOverviewReady", "RefreshFinished", "RefreshCancelled"}
WorkEvents == {"OperationFinished", "PlanFinished", "ManualDemandRejected"}
Event == [type : RefreshEvents, id : 1..MaxId, trigger : Trigger]
            \cup [type : WorkEvents, id : Nat, trigger : {"None"}]

RefreshEvent(type, active) == [type |-> type, id |-> active.id, trigger |-> active.trigger]
WorkEvent(type, id) == [type |-> type, id |-> id, trigger |-> "None"]

-----------------------------------------------------------------------------
(* What a step can observe *)

EventsClosed == closed = 4
LanesDone == closed >= 3 /\ requests = <<>> /\ manual = <<>> /\ rollbacks = <<>>
UiGone == LanesDone \/ EventsClosed

(* The task is at await p with nothing left to send. *)
At(p) == pc = p /\ sending = <<>>
Live(p) == At(p) /\ ~UiGone

(* Faulty variant of RollbackReady: looks for a second rollback. *)
RollbackReadyLate == Len(rollbacks) > 1

RollbackReady == rollbacks # <<>>
RequestReady == requests # <<>>
ManualReady == manual # <<>>
TimerReady == armed /\ due

HasWork == nextWork # NoWork \/ RollbackReady \/ pendingRequests # <<>>

(* observe_due, called before a refresh is cancelled or completed. *)
Observed == IF TimerReady THEN RecordPeriodic(scheduler) ELSE scheduler
ObserveFails == TimerReady /\ PeriodicDemand(scheduler) # "Coalesced"
Disarm == armed' = (armed /\ ~due) /\ due' = FALSE

(* The watched batch: a refresh that starts later serves it, a cancelled one
   does not. *)
Serve(w) == IF w = "owed" THEN "serving" ELSE w
Unserve(w) == IF w = "serving" THEN "owed" ELSE w
Served(w) == IF w = "serving" THEN "served" ELSE w
Becomes(batch, status) == IF batch.watched THEN status ELSE watch

-----------------------------------------------------------------------------
(* Pieces of actions *)

Stop == pc' = "Stopped"

(* scheduler.start and send_refresh_started; `goto` is the await that follows. *)
BeginRefresh(s, trigger, status, goto) ==
    IF CanStart(s)
    THEN /\ scheduler' = Start(s, trigger)
         /\ startId' = s.nextId
         /\ sending' = <<[type |-> "RefreshStarted", id |-> s.nextId, trigger |-> trigger]>>
         /\ watch' = Serve(status)
         /\ pc' = goto
    ELSE Stop /\ scheduler' = s /\ UNCHANGED <<startId, sending, watch>>

(* record_manual_demand for the batch at the head of the lane. *)
ReceiveManual ==
    LET batch == Head(manual)
        fits == BatchFits(scheduler, batch.count)
    IN  /\ manual' = Tail(manual)
        /\ scheduler' = IF fits THEN RecordManual(scheduler, batch.count) ELSE scheduler
        /\ sending' = IF fits THEN <<>> ELSE <<WorkEvent("ManualDemandRejected", batch.count)>>
        /\ watch' = Becomes(batch, IF fits THEN "owed" ELSE "rejected")

(* Faulty variant of FinishSequence: the deadline is not re-armed. *)
FinishSequenceUnarmed(trailing) ==
    /\ nextTrigger' = IF trailing THEN "Manual" ELSE nextTrigger
    /\ UNCHANGED timer

(* finish_sequence: a pending trigger wins over re-arming the deadline. *)
FinishSequence(trailing) ==
    /\ nextTrigger' = IF trailing THEN "Manual" ELSE nextTrigger
    /\ IF ~trailing /\ nextTrigger = "None"
       THEN armed' = TRUE /\ due' = FALSE
       ELSE UNCHANGED timer

(* Requests already in the lane go to `pending_requests`, while it has room. *)
Room == RequestCapacity - Len(pendingRequests)

(* Faulty variant of Movable: takes the whole lane. *)
MovableUnbounded == Len(requests)

Movable == IF Len(requests) < Room THEN Len(requests) ELSE Room
MoveRequests ==
    /\ pendingRequests' = pendingRequests \o SubSeq(requests, 1, Movable)
    /\ requests' = SubSeq(requests, Movable + 1, Len(requests))

(* The record of work that starts executing. *)
Begin(w) ==
    /\ pc' = "Execute"
    /\ opsLeft' = IF w.kind = "Normal" /\ w.id \in Plans THEN PlanSize[w.id] ELSE 0
    /\ requestsBegun' = IF w.kind = "Normal" THEN requestsBegun + 1 ELSE requestsBegun
    /\ rollbacksBegun' = IF w.kind = "Rollback" THEN rollbacksBegun + 1 ELSE rollbacksBegun
    /\ unreconciled' = TRUE
    /\ UNCHANGED watch

-----------------------------------------------------------------------------
(* The event channel *)

SendEvent ==
    /\ sending # <<>> /\ pc # "Stopped"
    /\ ~EventsClosed
    /\ Len(events) < EventCapacity
    /\ events' = Append(events, Head(sending))
    /\ sending' = Tail(sending)
    /\ UNCHANGED <<lanes, pc, control, reading, timer, history, interface>>

SendFails ==
    /\ sending # <<>> /\ pc # "Stopped"
    /\ EventsClosed
    /\ Stop
    /\ sending' = <<>>
    /\ UNCHANGED <<lanes, events, control, reading, timer, history, interface>>

(* Faulty variant of Shutdown: only the head of the loop looks. *)
ShutdownAtTop ==
    /\ pc = "Top" /\ sending = <<>>
    /\ UiGone
    /\ Stop
    /\ UNCHANGED <<lanes, events, sending, control, reading, timer, history, interface>>

(* The loops test this at their head, the selects have an arm for it.  Work in
   hand is dropped. *)
Shutdown ==
    /\ pc \in {"Top", "Idle", "Ordinary", "Mandatory"} /\ sending = <<>>
    /\ UiGone
    /\ Stop
    /\ UNCHANGED <<lanes, events, sending, control, reading, timer, history, interface>>

-----------------------------------------------------------------------------
(* The head of `run`: take_next_work, then a pending trigger, then wait. *)

TakeHeldRollback ==
    /\ Live("Top")
    /\ nextWork.kind = "Rollback"
    /\ Begin(nextWork)
    /\ work' = nextWork
    /\ nextWork' = NoWork
    /\ trailingManual' = FALSE
    /\ UNCHANGED <<lanes, events, sending, quota, pendingRequests, nextTrigger,
                   reading, timer, interface>>

(* Faulty variant of TakeQueuedRollback: the held request is taken, then lost. *)
TakeQueuedRollbackForgets ==
    /\ Live("Top")
    /\ nextWork.kind # "Rollback" /\ RollbackReady
    /\ Begin(Rollback(Head(rollbacks)))
    /\ work' = Rollback(Head(rollbacks))
    /\ rollbacks' = Tail(rollbacks)
    /\ nextWork' = NoWork
    /\ trailingManual' = FALSE
    /\ UNCHANGED <<requests, manual, events, sending, quota, pendingRequests,
                   nextTrigger, reading, timer, interface>>

TakeQueuedRollback ==
    /\ Live("Top")
    /\ nextWork.kind # "Rollback" /\ RollbackReady
    /\ Begin(Rollback(Head(rollbacks)))
    /\ work' = Rollback(Head(rollbacks))
    /\ rollbacks' = Tail(rollbacks)
    /\ trailingManual' = FALSE
    /\ UNCHANGED <<requests, manual, events, sending, quota, nextWork, pendingRequests,
                   nextTrigger, reading, timer, interface>>

TakeHeldRequest ==
    /\ Live("Top")
    /\ nextWork.kind = "Normal" /\ ~RollbackReady
    /\ Begin(nextWork)
    /\ work' = nextWork
    /\ nextWork' = NoWork
    /\ trailingManual' = FALSE
    /\ UNCHANGED <<lanes, events, sending, quota, pendingRequests, nextTrigger,
                   reading, timer, interface>>

(* Faulty variant of TakePendingRequest: does not look at the rollback lane. *)
TakePendingRequestFirst ==
    /\ Live("Top")
    /\ nextWork = NoWork /\ pendingRequests # <<>>
    /\ Begin(Normal(Head(pendingRequests)))
    /\ work' = Normal(Head(pendingRequests))
    /\ pendingRequests' = Tail(pendingRequests)
    /\ trailingManual' = FALSE
    /\ UNCHANGED <<lanes, events, sending, quota, nextWork, nextTrigger,
                   reading, timer, interface>>

TakePendingRequest ==
    /\ Live("Top")
    /\ nextWork = NoWork /\ ~RollbackReady /\ pendingRequests # <<>>
    /\ Begin(Normal(Head(pendingRequests)))
    /\ work' = Normal(Head(pendingRequests))
    /\ pendingRequests' = Tail(pendingRequests)
    /\ trailingManual' = FALSE
    /\ UNCHANGED <<lanes, events, sending, quota, nextWork, nextTrigger,
                   reading, timer, interface>>

StartTriggered ==
    /\ Live("Top")
    /\ ~HasWork /\ nextTrigger # "None"
    /\ BeginRefresh(scheduler, nextTrigger, watch, "Ordinary")
    /\ stage' = "Overview"
    /\ nextTrigger' = "None"
    /\ UNCHANGED <<lanes, events, work, opsLeft, quota, nextWork, pendingRequests, trailingManual,
                   timer, requestsBegun, rollbacksBegun, unreconciled, interface>>

GoIdle ==
    /\ Live("Top")
    /\ ~HasWork /\ nextTrigger = "None"
    /\ pc' = "Idle"
    /\ UNCHANGED <<lanes, events, sending, control, reading, timer, history, interface>>

-----------------------------------------------------------------------------
(* The idle select *)

IdleRollback ==
    /\ Live("Idle")
    /\ RollbackReady
    /\ nextWork' = Rollback(Head(rollbacks))
    /\ rollbacks' = Tail(rollbacks)
    /\ pc' = "Top"
    /\ UNCHANGED <<requests, manual, events, sending, work, opsLeft, quota, pendingRequests,
                   nextTrigger, trailingManual, reading, timer, history, interface>>

IdleRequest ==
    /\ Live("Idle")
    /\ ~RollbackReady /\ RequestReady
    /\ nextWork' = Normal(Head(requests))
    /\ requests' = Tail(requests)
    /\ pc' = "Top"
    /\ UNCHANGED <<manual, rollbacks, events, sending, work, opsLeft, quota, pendingRequests,
                   nextTrigger, trailingManual, reading, timer, history, interface>>

(* A batch that overflows is refused and the loop starts over; one that the
   idle scheduler does not answer with StartNow ends the task. *)
IdleManual ==
    /\ Live("Idle")
    /\ ~RollbackReady /\ ~RequestReady /\ ManualReady
    /\ LET batch == Head(manual) IN
       IF ~BatchFits(scheduler, batch.count)
       THEN ReceiveManual /\ pc' = "Top" /\ UNCHANGED <<startId, stage>>
       ELSE /\ manual' = Tail(manual)
            /\ stage' = "Overview"
            /\ IF ManualDemand(scheduler) # "StartNow"
               THEN Stop /\ UNCHANGED <<scheduler, startId, sending, watch>>
               ELSE BeginRefresh(RecordManual(scheduler, batch.count), "Manual",
                                 Becomes(batch, "owed"), "Ordinary")
    /\ UNCHANGED <<requests, rollbacks, events, control, timer,
                   requestsBegun, rollbacksBegun, unreconciled, interface>>

IdlePeriodic ==
    /\ Live("Idle")
    /\ ~RollbackReady /\ ~RequestReady /\ ~ManualReady /\ TimerReady
    /\ Disarm
    /\ stage' = "Overview"
    /\ IF PeriodicDemand(scheduler) # "StartNow"
       THEN Stop /\ UNCHANGED <<scheduler, startId, sending, watch>>
       ELSE BeginRefresh(scheduler, "Periodic", watch, "Ordinary")
    /\ UNCHANGED <<lanes, events, control, requestsBegun, rollbacksBegun, unreconciled, interface>>

-----------------------------------------------------------------------------
(* drive_ordinary_refresh: any work cancels the read, the read comes last. *)

Preempt(w) ==
    /\ IF ObserveFails \/ ~CanCancelForMutation(Observed)
       THEN Stop /\ UNCHANGED <<nextWork, scheduler, stage, sending, timer, watch>>
       ELSE /\ pc' = "Top"
            /\ nextWork' = w
            /\ scheduler' = Retire(Observed)
            /\ stage' = "None"
            /\ sending' = <<RefreshEvent("RefreshCancelled", scheduler.active)>>
            /\ Disarm
            /\ watch' = Unserve(watch)
    /\ UNCHANGED <<events, work, opsLeft, quota, pendingRequests, nextTrigger, trailingManual,
                   startId, requestsBegun, rollbacksBegun, unreconciled, interface>>

OrdinaryRollback ==
    /\ Live("Ordinary")
    /\ RollbackReady
    /\ rollbacks' = Tail(rollbacks)
    /\ Preempt(Rollback(Head(rollbacks)))
    /\ UNCHANGED <<requests, manual>>

OrdinaryRequest ==
    /\ Live("Ordinary")
    /\ ~RollbackReady /\ RequestReady
    /\ requests' = Tail(requests)
    /\ Preempt(Normal(Head(requests)))
    /\ UNCHANGED <<manual, rollbacks>>

OrdinaryManual ==
    /\ Live("Ordinary")
    /\ ~RollbackReady /\ ~RequestReady /\ ManualReady
    /\ ReceiveManual
    /\ UNCHANGED <<requests, rollbacks, events, pc, control, startId, stage, timer,
                   requestsBegun, rollbacksBegun, unreconciled, interface>>

(* record_active: the deadline is coalesced into the active refresh. *)
TickActive ==
    /\ IF ObserveFails THEN Stop /\ UNCHANGED <<scheduler, timer>>
       ELSE scheduler' = Observed /\ Disarm /\ UNCHANGED pc
    /\ UNCHANGED <<lanes, events, sending, control, startId, stage, history, interface>>

OrdinaryPeriodic ==
    /\ Live("Ordinary")
    /\ ~RollbackReady /\ ~RequestReady /\ ~ManualReady /\ TimerReady
    /\ TickActive

(* read_staged_snapshot up to hydration: a backend with an overview sends it
   from inside the read, which waits for room without blocking other arms. *)
ReadOverview ==
    /\ stage = "Overview"
    /\ \/ /\ Len(events) < EventCapacity
          /\ events' = Append(events, RefreshEvent("RefreshOverviewReady", scheduler.active))
       \/ UNCHANGED events
    /\ stage' = "Hydration"
    /\ UNCHANGED <<lanes, pc, sending, control, scheduler, startId, timer, history, interface>>

OrdinaryOverview ==
    /\ Live("Ordinary")
    /\ ~RollbackReady /\ ~RequestReady /\ ~ManualReady /\ ~TimerReady
    /\ ReadOverview

(* The read ends, well or badly, after either stage; finish_ordinary_refresh. *)
OrdinaryReadDone ==
    /\ Live("Ordinary")
    /\ ~RollbackReady /\ ~RequestReady /\ ~ManualReady /\ ~TimerReady
    /\ stage' = "None"
    /\ IF ~CanFinish(scheduler, startId)
       THEN Stop /\ UNCHANGED <<scheduler, sending, nextTrigger, timer, watch>>
       ELSE /\ pc' = "Top"
            /\ scheduler' = Retire(scheduler)
            /\ sending' = <<RefreshEvent("RefreshFinished", scheduler.active)>>
            /\ watch' = Served(watch)
            /\ FinishSequence(scheduler.trailing)
    /\ UNCHANGED <<lanes, events, work, opsLeft, quota, nextWork, pendingRequests, trailingManual,
                   startId, requestsBegun, rollbacksBegun, unreconciled, interface>>

-----------------------------------------------------------------------------
(* execute_work, as seen from the loop: which events it sends and when a plan
   stops.  How an operation is applied, guarded and reported is the subject of
   a module of its own. *)

(* Faulty variant of Executed: straight back to the head of the loop. *)
ExecutedUnreconciled(report) ==
    /\ sending' = report
    /\ pc' = "Top"
    /\ work' = NoWork
    /\ opsLeft' = 0
    /\ UNCHANGED <<lanes, events, quota, nextWork, pendingRequests, nextTrigger, trailingManual,
                   reading, timer, history, interface>>

Executed(report) ==
    /\ sending' = report
    /\ pc' = "Reconcile"
    /\ work' = NoWork
    /\ opsLeft' = 0
    /\ UNCHANGED <<lanes, events, quota, nextWork, pendingRequests, nextTrigger, trailingManual,
                   reading, timer, history, interface>>

IsPlan == work.kind = "Normal" /\ work.id \in Plans
OperationReport == WorkEvent("OperationFinished", work.id)
PlanReport == WorkEvent("PlanFinished", work.id)

(* apply and apply_rollback report one operation, whatever its outcome. *)
ExecuteSingle ==
    /\ At("Execute") /\ ~IsPlan
    /\ Executed(<<OperationReport>>)

(* reject_plan_preflight: stale or invalid before anything ran. *)
PlanRejected ==
    /\ At("Execute") /\ IsPlan /\ ~ReadOnly
    /\ opsLeft = PlanSize[work.id]
    /\ Executed(IF opsLeft = 0 THEN <<PlanReport>> ELSE <<OperationReport, PlanReport>>)

PlanOperationApplied ==
    /\ At("Execute") /\ IsPlan /\ ~ReadOnly
    /\ opsLeft > 0
    /\ opsLeft' = opsLeft - 1
    /\ sending' = <<OperationReport>>
    /\ UNCHANGED <<lanes, events, pc, work, quota, nextWork, pendingRequests, nextTrigger,
                   trailingManual, reading, timer, history, interface>>

(* Fail-fast: the first operation that is not fully applied ends the plan. *)
PlanHalted ==
    /\ At("Execute") /\ IsPlan
    /\ opsLeft > 0
    /\ Executed(<<OperationReport, PlanReport>>)

PlanCompleted ==
    /\ At("Execute") /\ IsPlan
    /\ opsLeft = 0
    /\ Executed(<<PlanReport>>)

-----------------------------------------------------------------------------
(* reconcile_after_request *)

BeginReconciliation ==
    /\ At("Reconcile")
    /\ BeginRefresh(scheduler, "PostMutation", watch, "Absorb")
    /\ UNCHANGED <<lanes, events, control, stage, timer,
                   requestsBegun, rollbacksBegun, unreconciled, interface>>

(* absorb_observed_requests reads how many batches the lane holds, ... *)
AbsorbBegin ==
    /\ At("Absorb")
    /\ quota' = Len(manual)
    /\ pc' = "AbsorbManual"
    /\ UNCHANGED <<lanes, events, sending, work, opsLeft, nextWork, pendingRequests, nextTrigger,
                   trailingManual, reading, timer, history, interface>>

(* ... counts each of them into the refresh that is about to read, ... *)
AbsorbBatch ==
    /\ At("AbsorbManual") /\ quota > 0
    /\ LET batch == Head(manual)
           fits == BatchFits(scheduler, batch.count)
       IN  /\ scheduler' = IF fits THEN AbsorbManual(scheduler, batch.count) ELSE scheduler
           /\ sending' = IF fits THEN <<>> ELSE <<WorkEvent("ManualDemandRejected", batch.count)>>
           /\ watch' = Becomes(batch, IF fits THEN "serving" ELSE "rejected")
    /\ manual' = Tail(manual)
    /\ quota' = quota - 1
    /\ UNCHANGED <<requests, rollbacks, events, pc, work, opsLeft, nextWork, pendingRequests,
                   nextTrigger, trailingManual, startId, stage, timer,
                   requestsBegun, rollbacksBegun, unreconciled, interface>>

(* ... then takes the requests the lane holds, and the read begins. *)
AbsorbRequests ==
    /\ At("AbsorbManual") /\ quota = 0
    /\ MoveRequests
    /\ pc' = "Mandatory"
    /\ stage' = "Overview"
    /\ UNCHANGED <<manual, rollbacks, events, sending, work, opsLeft, quota, nextWork, nextTrigger,
                   trailingManual, scheduler, startId, timer, history, interface>>

-----------------------------------------------------------------------------
(* drive_mandatory_refresh: the read is polled first, only a rollback cancels. *)

MandatoryOverview ==
    /\ Live("Mandatory")
    /\ ReadOverview

MandatoryReadDone ==
    /\ Live("Mandatory")
    /\ IF ObserveFails
       THEN Stop /\ UNCHANGED <<scheduler, stage, timer, quota>>
       ELSE /\ pc' = "Boundary"
            /\ scheduler' = Observed
            /\ Disarm
            /\ stage' = "None"
            /\ quota' = Len(manual)
    /\ UNCHANGED <<lanes, events, sending, work, opsLeft, nextWork, pendingRequests, nextTrigger,
                   trailingManual, startId, history, interface>>

MandatoryRollback ==
    /\ Live("Mandatory")
    /\ RollbackReady
    /\ rollbacks' = Tail(rollbacks)
    /\ IF ObserveFails
       THEN Stop /\ UNCHANGED <<work, scheduler, stage, timer, quota>>
       ELSE /\ pc' = "Preempt"
            /\ work' = Rollback(Head(rollbacks))
            /\ scheduler' = Observed
            /\ Disarm
            /\ stage' = "None"
            /\ quota' = Len(manual)
    /\ UNCHANGED <<requests, manual, events, sending, opsLeft, nextWork, pendingRequests,
                   nextTrigger, trailingManual, startId, history, interface>>

MandatoryPeriodic ==
    /\ Live("Mandatory")
    /\ ~RollbackReady /\ TimerReady
    /\ TickActive

MandatoryManual ==
    /\ Live("Mandatory")
    /\ ~RollbackReady /\ ~TimerReady /\ ManualReady
    /\ ReceiveManual
    /\ UNCHANGED <<requests, rollbacks, events, pc, control, startId, stage, timer,
                   requestsBegun, rollbacksBegun, unreconciled, interface>>

MandatoryRequest ==
    /\ Live("Mandatory")
    /\ ~RollbackReady /\ ~TimerReady /\ ~ManualReady
    /\ RequestReady /\ Len(pendingRequests) < RequestCapacity
    /\ pendingRequests' = Append(pendingRequests, Head(requests))
    /\ requests' = Tail(requests)
    /\ UNCHANGED <<manual, rollbacks, events, pc, sending, work, opsLeft, quota, nextWork,
                   nextTrigger, trailingManual, reading, timer, history, interface>>

(* record_available_manual_refreshes, before a read is completed or cancelled. *)
DrainBatch ==
    /\ pc \in {"Boundary", "Preempt"} /\ sending = <<>>
    /\ quota > 0
    /\ ReceiveManual
    /\ quota' = quota - 1
    /\ UNCHANGED <<requests, rollbacks, events, pc, work, opsLeft, nextWork, pendingRequests,
                   nextTrigger, trailingManual, startId, stage, timer,
                   requestsBegun, rollbacksBegun, unreconciled, interface>>

(* The rest of drain_post_mutation_boundary, then the completion. *)
CompleteReconciliation ==
    LET urgent == RollbackReady
        trailing == trailingManual \/ scheduler.trailing
    IN  /\ At("Boundary") /\ quota = 0
        /\ rollbacks' = IF urgent THEN Tail(rollbacks) ELSE rollbacks
        /\ MoveRequests
        /\ UNCHANGED <<manual, events, opsLeft, quota, nextWork, startId, stage,
                       requestsBegun, rollbacksBegun, interface>>
        /\ IF UiGone' \/ ~CanFinish(scheduler, startId)
           THEN /\ Stop
                /\ UNCHANGED <<work, sending, scheduler, trailingManual, nextTrigger, timer,
                               unreconciled, watch>>
           ELSE /\ scheduler' = Retire(scheduler)
                /\ sending' = <<RefreshEvent("RefreshFinished", scheduler.active)>>
                /\ unreconciled' = FALSE
                /\ watch' = Served(watch)
                /\ IF urgent
                   THEN /\ pc' = "Urgent"
                        /\ work' = Rollback(Head(rollbacks))
                        /\ trailingManual' = trailing
                        /\ UNCHANGED <<nextTrigger, timer>>
                   ELSE /\ pc' = "Top"
                        /\ trailingManual' = FALSE
                        /\ FinishSequence(trailing)
                        /\ UNCHANGED work

(* Faulty variant of CancelReconciliation: the interface is not told. *)
CancelReconciliationSilent ==
    /\ At("Preempt") /\ quota = 0
    /\ pc' = "Urgent"
    /\ scheduler' = Retire(scheduler)
    /\ trailingManual' = (trailingManual \/ scheduler.trailing)
    /\ watch' = Unserve(watch)
    /\ UNCHANGED <<lanes, events, sending, work, opsLeft, quota, nextWork, pendingRequests,
                   nextTrigger, startId, stage, timer, requestsBegun, rollbacksBegun,
                   unreconciled, interface>>

CancelReconciliation ==
    /\ At("Preempt") /\ quota = 0
    /\ IF ~CanCancelForRollback(scheduler)
       THEN Stop /\ UNCHANGED <<scheduler, sending, trailingManual, watch>>
       ELSE /\ pc' = "Urgent"
            /\ scheduler' = Retire(scheduler)
            /\ sending' = <<RefreshEvent("RefreshCancelled", scheduler.active)>>
            /\ trailingManual' = (trailingManual \/ scheduler.trailing)
            /\ watch' = Unserve(watch)
    /\ UNCHANGED <<lanes, events, work, opsLeft, quota, nextWork, pendingRequests, nextTrigger,
                   startId, stage, timer, requestsBegun, rollbacksBegun, unreconciled, interface>>

(* The rollback that interrupted or followed the read, inside the same
   reconciliation. *)
ExecuteUrgent ==
    /\ At("Urgent")
    /\ Begin(work)
    /\ UNCHANGED <<lanes, events, sending, work, quota, nextWork, pendingRequests, nextTrigger,
                   trailingManual, reading, timer, interface>>

-----------------------------------------------------------------------------
(* The environment: the user interface and the clock. *)

engineOnly == <<pc, sending, control, reading>>
uiUnchanged == <<requestsSent, rollbacksSent, uiRefresh, uiUnread>>

UiSendRequest ==
    /\ closed = 0 /\ requestsSent < MaxRequests
    /\ Len(requests) < RequestCapacity
    /\ requests' = Append(requests, requestsSent + 1)
    /\ requestsSent' = requestsSent + 1
    /\ UNCHANGED <<manual, rollbacks, events, engineOnly, timer, history,
                   closed, rollbacksSent, uiRefresh, uiUnread>>

UiSendRollback ==
    /\ closed = 0 /\ rollbacksSent < MaxRollbacks
    /\ Len(rollbacks) < RollbackCapacity
    /\ rollbacks' = Append(rollbacks, rollbacksSent + 1)
    /\ rollbacksSent' = rollbacksSent + 1
    /\ UNCHANGED <<requests, manual, events, engineOnly, timer, history,
                   closed, requestsSent, uiRefresh, uiUnread>>

(* One batch, any one, is watched. *)
UiSendManual ==
    /\ closed = 0
    /\ Len(manual) < ManualCapacity
    /\ \E count \in 1..MaxBatch, watched \in (IF watch = "unsent" THEN BOOLEAN ELSE {FALSE}) :
          /\ manual' = Append(manual, [count |-> count, watched |-> watched])
          /\ watch' = IF watched THEN "queued" ELSE watch
    /\ UNCHANGED <<requests, rollbacks, events, engineOnly, timer,
                   requestsBegun, rollbacksBegun, unreconciled, closed, uiUnchanged>>

(* The reducer's view of the lifecycle: a completion or a cancellation counts
   only when its id is the active one. *)
UiConsumeEvent ==
    LET event == Head(events)
        current == uiRefresh = event.id
    IN  /\ ~EventsClosed /\ events # <<>>
        /\ events' = Tail(events)
        /\ uiRefresh' = CASE event.type = "RefreshStarted" -> event.id
                          [] event.type \in {"RefreshFinished", "RefreshCancelled"} /\ current -> 0
                          [] OTHER -> uiRefresh
        /\ uiUnread' = CASE event.type = "OperationFinished" -> TRUE
                          [] event.type = "RefreshFinished" /\ current -> FALSE
                          [] OTHER -> uiUnread
        /\ UNCHANGED <<lanes, engineOnly, timer, history, closed, requestsSent, rollbacksSent>>

(* EngineHandle is dropped field by field: the three senders, then the event
   receiver. *)
UiClose ==
    /\ closed < 4
    /\ closed' = closed + 1
    /\ events' = IF closed' = 4 THEN <<>> ELSE events
    /\ UNCHANGED <<lanes, engineOnly, timer, history, uiUnchanged>>

TimerElapses ==
    /\ armed /\ ~due /\ pc # "Stopped"
    /\ due' = TRUE
    /\ UNCHANGED <<lanes, events, engineOnly, armed, history, interface>>

-----------------------------------------------------------------------------

Init ==
    /\ requests = <<>> /\ manual = <<>> /\ rollbacks = <<>>
    /\ events = <<>> /\ closed = 0
    /\ pc = "Top" /\ sending = <<>>
    /\ work = NoWork /\ opsLeft = 0 /\ quota = 0
    /\ nextWork = NoWork /\ pendingRequests = <<>>
    /\ nextTrigger = "Initial" /\ trailingManual = FALSE
    /\ scheduler = NewScheduler /\ startId = 0 /\ stage = "None"
    /\ armed = FALSE /\ due = FALSE
    /\ requestsSent = 0 /\ rollbacksSent = 0
    /\ requestsBegun = 0 /\ rollbacksBegun = 0
    /\ unreconciled = FALSE /\ watch = "unsent"
    /\ uiRefresh = 0 /\ uiUnread = FALSE

Loop ==
    \/ TakeHeldRollback \/ TakeQueuedRollback \/ TakeHeldRequest \/ TakePendingRequest
    \/ StartTriggered \/ GoIdle
    \/ IdleRollback \/ IdleRequest \/ IdleManual \/ IdlePeriodic

OrdinaryRefresh ==
    \/ OrdinaryRollback \/ OrdinaryRequest \/ OrdinaryManual \/ OrdinaryPeriodic
    \/ OrdinaryOverview \/ OrdinaryReadDone

Execution ==
    \/ ExecuteSingle \/ PlanRejected \/ PlanOperationApplied \/ PlanHalted \/ PlanCompleted

Reconciliation ==
    \/ BeginReconciliation \/ AbsorbBegin \/ AbsorbBatch \/ AbsorbRequests
    \/ MandatoryOverview \/ MandatoryReadDone \/ MandatoryRollback
    \/ MandatoryPeriodic \/ MandatoryManual \/ MandatoryRequest
    \/ DrainBatch \/ CompleteReconciliation \/ CancelReconciliation \/ ExecuteUrgent

EngineStep ==
    \/ SendEvent \/ SendFails \/ Shutdown
    \/ Loop \/ OrdinaryRefresh \/ Execution \/ Reconciliation

Environment ==
    \/ UiSendRequest \/ UiSendRollback \/ UiSendManual \/ UiConsumeEvent \/ UiClose
    \/ TimerElapses

(* After the interface has left and the task has ended nothing more happens. *)
Terminated == pc = "Stopped" /\ closed = 4 /\ UNCHANGED vars

Next == EngineStep \/ Environment \/ Terminated

Spec == Init /\ [][Next]_vars

(* The task runs whenever it can; a read ends although other arms keep the
   select busy, because the backend bounds every command by a timeout and the
   task polls faster than a person presses keys; the interface drains its
   events on every turn of its loop. *)
Fairness ==
    /\ WF_vars(EngineStep)
    /\ SF_vars(OrdinaryReadDone)
    /\ SF_vars(MandatoryReadDone)
    /\ WF_vars(UiConsumeEvent)

FairSpec == Spec /\ Fairness

=============================================================================
