-------------------------- MODULE EngineProperties --------------------------
(***************************************************************************)
(* What must hold of the engine task: invariants, action properties,       *)
(* liveness, and the refinement of EngineContract.                         *)
(***************************************************************************)
EXTENDS Engine

ControlState ==
    {"Top", "Idle", "Ordinary", "Execute", "Reconcile", "Absorb", "AbsorbManual",
     "Mandatory", "Boundary", "Preempt", "Urgent", "Stopped"}

LanesTyped ==
    /\ requests \in Seq(1..MaxRequests) /\ Len(requests) <= RequestCapacity
    /\ manual \in Seq(ManualBatch) /\ Len(manual) <= ManualCapacity
    /\ rollbacks \in Seq(1..MaxRollbacks) /\ Len(rollbacks) <= RollbackCapacity
    /\ pendingRequests \in Seq(1..MaxRequests) /\ Len(pendingRequests) <= RequestCapacity
    /\ quota \in 0..Len(manual)

EventsTyped ==
    /\ events \in Seq(Event) /\ Len(events) <= EventCapacity
    /\ sending \in Seq(Event)

WorkTyped ==
    /\ work \in Work \cup {NoWork}
    /\ nextWork \in Work \cup {NoWork}
    /\ opsLeft \in Nat

RefreshTyped ==
    /\ scheduler \in Scheduler
    /\ startId \in 0..MaxId
    /\ stage \in {"None", "Overview", "Hydration"}
    /\ nextTrigger \in {"None", "Initial", "Manual"}
    /\ trailingManual \in BOOLEAN
    /\ armed \in BOOLEAN /\ due \in BOOLEAN

CountersTyped ==
    /\ requestsSent \in 0..MaxRequests /\ rollbacksSent \in 0..MaxRollbacks
    /\ requestsBegun \in 0..MaxRequests /\ rollbacksBegun \in 0..MaxRollbacks

StatusTyped ==
    /\ pc \in ControlState
    /\ closed \in 0..4
    /\ unreconciled \in BOOLEAN
    /\ watch \in {"unsent", "queued", "owed", "serving", "served", "rejected"}
    /\ uiRefresh \in 0..MaxId
    /\ uiUnread \in BOOLEAN

(* Every variable keeps its type, and no queue ever exceeds the capacity the
   code gives it: the lanes, the event channel and `pending_requests`. *)
TypeOK ==
    LanesTyped /\ EventsTyped /\ WorkTyped /\ RefreshTyped /\ CountersTyped /\ StatusTyped

-----------------------------------------------------------------------------
(* Requests and rollbacks *)

(* The numbers in a queue follow each other, from the one after `base`. *)
NumberedFrom(base, queue) == \A i \in 1..Len(queue) : queue[i] = base + i

(* HeldRequests and HeldRollbacks count the work in the task's own hands. *)
HeldRequests == IF nextWork.kind = "Normal" THEN 1 ELSE 0
UrgentInHand == pc \in {"Preempt", "Urgent"}
HeldRollbacks == IF nextWork.kind = "Rollback" \/ UrgentInHand THEN 1 ELSE 0

(* While the task runs, what the interface sent is exactly what was begun, what
   the task holds, what waits in `pending_requests` and what is in the lane, in
   this order: no request is lost, repeated or overtaken by a later one, however
   reads are cancelled and rollbacks cut in. *)
RequestsInOrder ==
    pc # "Stopped" =>
        /\ nextWork.kind = "Normal" => nextWork.id = requestsBegun + 1
        /\ NumberedFrom(requestsBegun + HeldRequests, pendingRequests)
        /\ NumberedFrom(requestsBegun + HeldRequests + Len(pendingRequests), requests)
        /\ requestsSent = requestsBegun + HeldRequests + Len(pendingRequests) + Len(requests)

(* The same of rollbacks, which the task may hold before its loop, or inside a
   reconciliation that one of them cuts short: each is executed once, in the
   order the interface sent them (newest mutation first). *)
RollbacksInOrder ==
    pc # "Stopped" =>
        /\ nextWork.kind = "Rollback" => nextWork.id = rollbacksBegun + 1
        /\ UrgentInHand => work.id = rollbacksBegun + 1
        /\ NumberedFrom(rollbacksBegun + HeldRollbacks, rollbacks)
        /\ rollbacksSent = rollbacksBegun + HeldRollbacks + Len(rollbacks)

(* Nothing that was sent is lost, repeated or reordered within its lane. *)
LanesInOrder == RequestsInOrder /\ RollbacksInOrder

(* No requested mutation starts while a rollback is waiting: a safety rollback
   overtakes every request that has not started, wherever the request is held. *)
RollbackFirst ==
    [][requestsBegun' # requestsBegun => rollbacks = <<>> /\ nextWork.kind # "Rollback"]_vars

-----------------------------------------------------------------------------
(* Refreshes *)

(* A manual demand that was accepted and not yet served is remembered by
   something that will start a later refresh: the trailing flag, a pending
   trigger, or a mutation whose reconciliation is still to start. *)
DemandRemembered ==
    watch = "owed" =>
        \/ scheduler.trailing \/ trailingManual \/ nextTrigger = "Manual"
        \/ nextWork # NoWork
        \/ pc \in {"Execute", "Reconcile", "Preempt", "Urgent", "Stopped"}

(* A task that waits with nothing to do has its periodic deadline armed, so the
   display cannot silently stop refreshing. *)
DeadlineArmed == pc = "Idle" => armed

(* A read always follows: of an accepted demand, and of a task that waits. *)
NextReadAssured == DemandRemembered /\ DeadlineArmed

(* The task ends only because the interface is gone: the scheduler never
   refuses a start, a cancellation, a completion or a deadline (each of those
   branches logs an error and ends the task for good). *)
EndsOnlyWithInterface ==
    [][pc # "Stopped" /\ pc' = "Stopped" => UiGone \/ UiGone']_vars

(* Of the events the interface receives, every overview, completion and
   cancellation belongs to the refresh it believes active, and a refresh starts
   only when it believes none is: the reducer never discards one as stale. *)
LifecycleInOrder ==
    [][LET event == Head(events) IN
       events # <<>> /\ events' = Tail(events) /\ closed' = closed =>
          /\ event.type = "RefreshStarted" => uiRefresh = 0
          /\ event.type \in RefreshEvents \ {"RefreshStarted"} => uiRefresh = event.id
      ]_events

(* What the interface verifies applied operations against was read after all of
   them: the first completion it accepts after an operation is that of a
   post-mutation read.  (A read that failed leaves verify_next_refresh to the
   next completion, which is later still.) *)
VerifiedAfterwards ==
    [][uiUnread /\ ~uiUnread' => Head(events).trigger = "PostMutation"]_vars

-----------------------------------------------------------------------------
(* Refinement *)

Activity ==
    CASE pc = "Stopped" -> "Halted"
      [] pc = "Execute" -> work.kind
      [] OTHER -> scheduler.active.trigger

Contract == INSTANCE EngineContract WITH activity <- Activity

(* The engine implements its contract: single flight, and a complete
   post-mutation read between a mutation and the next requested one. *)
ImplementsContract == Contract!Spec

-----------------------------------------------------------------------------
(* Liveness, while the interface stays *)

(* The ordinary read is the last arm of its select, after the manual lane and
   the timer: demand that never pauses would starve it.  People do pause, until
   the other arms are done. *)
DemandPauses == []<>(manual = <<>> /\ sending = <<>> /\ ~TimerReady)

(* Whatever the interface asks for is answered while it stays: every rollback and
   every request that was sent is executed, even if the others, demand and
   refreshes never cease; and, if demand pauses, every manual demand is answered
   by a complete read that began after it was received, or refused explicitly. *)
EverythingAnswered ==
    /\ \A k \in 1..MaxRollbacks : rollbacksSent >= k ~> rollbacksBegun >= k \/ closed > 0
    /\ \A k \in 1..MaxRequests : requestsSent >= k ~> requestsBegun >= k \/ closed > 0
    /\ DemandPauses => (watch = "queued" ~> watch \in {"served", "rejected"} \/ closed > 0)

(* Once the interface has gone the task ends: it does not stay behind with the
   backend in hand. *)
TaskEnds == closed = 4 ~> pc = "Stopped"

=============================================================================
