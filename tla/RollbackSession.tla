-------------------------- MODULE RollbackSession ---------------------------
(***************************************************************************)
(* The in-process dead man's switch, from confirmation to exit: the        *)
(* reducer's countdowns and capacity reservations (src/ui/update/mod.rs,   *)
(* lifecycle.rs), the bounded outbox (src/ui/outbox.rs), and the loop that *)
(* sends from it and drains it at a clean exit (src/ui/mod.rs).            *)
(*                                                                         *)
(* One action is one turn of the interface's loop: the event it took, the  *)
(* reducer's step, and the follow-up actions of its worklist.  The engine  *)
(* is reduced to what EngineContract promises: one mutation at a time, a   *)
(* waiting rollback before every waiting request, a plan not interrupted.  *)
(***************************************************************************)
EXTENDS Integers, SequencesExt

CONSTANTS
    OutboxCapacity,     \* ROLLBACK_OUTBOX_CAPACITY
    RequestCapacity,    \* of the engine's request lane
    RollbackCapacity,   \* of its rollback lane
    EventCapacity,      \* of its event channel
    RollbackTicks,      \* the countdown, in ticks
    MaxOps,             \* bound: operations submitted in a session
    MaxPlan,            \* bound: operations of one plan
    Risky,              \* operations with a connectivity warning
    Reversible          \* operations that have an inverse

ASSUME SessionAssumption ==
    /\ OutboxCapacity \in Nat \ {0} /\ RequestCapacity \in Nat \ {0}
    /\ RollbackCapacity \in Nat \ {0} /\ EventCapacity \in Nat \ {0}
    /\ RollbackTicks \in Nat \ {0}
    /\ MaxOps \in Nat /\ MaxPlan \in Nat
    /\ Risky \subseteq 1..MaxOps /\ Reversible \subseteq 1..MaxOps

VARIABLES
    mode,                           \* "Running", "Draining", and how it "Exited"
    pending,                        \* pending_rollback: armed, with the ticks left
    normal, queue,                  \* the outbox: its request, its rollbacks
    normalClosed, rollbackClosed,   \* the outbox found a lane closed
    inFlight,                       \* rollback_in_flight
    reservations, singles, plan,    \* rollback_reservations and whose they are
    busyMirror, queueMirror,        \* engine_normal_backpressured, rollback_outbox_pending
    deferred, expected, completed,  \* the drain's own
    requestLane, rollbackLane, events,
    engineUp, current,              \* the engine task, and what it executes
    submitted,                      \* history: operations submitted
    registered, kept, runs          \* history: armed by the engine, kept, inverse executions

accounts == <<reservations, singles, plan>>
mirrors == <<busyMirror, queueMirror>>
closings == <<normalClosed, rollbackClosed>>
drain == <<deferred, expected, completed>>
engine == <<requestLane, rollbackLane, events, engineUp, current>>
history == <<submitted, registered, kept, runs>>
vars == <<mode, pending, normal, queue, closings, inFlight, accounts, mirrors, drain, engine,
          history>>

-----------------------------------------------------------------------------
(* Requests, events, countdowns *)

NoRequest == [kind |-> "None", id |-> 0, ops |-> <<>>]
NoPlan == [id |-> 0, total |-> 0, consumed |-> 0]

(* The next n operations, as one request named after the first of them. *)
NewRequest(kind, n) ==
    [kind |-> kind, id |-> submitted + 1, ops |-> [i \in 1..n |-> submitted + i]]

RollbackWork(r) == [kind |-> "Rollback", id |-> r, ops |-> <<>>]

Finished(op, armed) == [type |-> "OperationFinished", id |-> op, armed |-> armed]
RollbackDone(r) == [type |-> "RollbackFinished", id |-> r, armed |-> FALSE]
PlanDone(id) == [type |-> "PlanFinished", id |-> id, armed |-> FALSE]

(* risky_operation_count: what a request must reserve. *)
RiskyCount(ops) == Cardinality(ToSet(ops) \cap Risky)

Ids(countdowns) == [i \in 1..Len(countdowns) |-> countdowns[i].id]
Ticked == [i \in 1..Len(pending) |-> [pending[i] EXCEPT !.left = @ - 1]]

Expired(countdown) == countdown.left <= 0

-----------------------------------------------------------------------------
(* The reducer's accounts *)

CapacityUsed == Len(pending) + queueMirror + reservations

DispatchAllowed(required) ==
    /\ ~busyMirror
    /\ plan = NoPlan
    /\ CapacityUsed + required <= OutboxCapacity

(* Faulty variant of Consume: a plan's results are charged to single operations
   only. *)
ConsumeSingles ==
    /\ reservations' = IF reservations = 0 THEN 0 ELSE reservations - 1
    /\ singles' = IF singles = 0 THEN 0 ELSE singles - 1
    /\ UNCHANGED plan

(* consume_rollback_reservation: singles were submitted before the plan, so
   theirs go first. *)
Consume ==
    /\ reservations' = IF reservations = 0 THEN 0 ELSE reservations - 1
    /\ singles' = IF reservations = 0 \/ singles = 0 THEN 0 ELSE singles - 1
    /\ plan' = IF reservations # 0 /\ singles = 0 /\ plan.consumed < plan.total
               THEN [plan EXCEPT !.consumed = @ + 1] ELSE plan

(* PlanFinished releases what the plan did not consume; a stale one is refused. *)
FinishPlan(id) ==
    LET mine == plan # NoPlan /\ plan.id = id
        release == plan.total - plan.consumed
    IN  /\ plan' = IF mine THEN NoPlan ELSE plan
        /\ reservations' = IF mine /\ release <= reservations
                           THEN reservations - release ELSE reservations
        /\ UNCHANGED singles

(* The reducer's share of an event: accounts only. *)
Account(event) ==
    CASE event.type = "OperationFinished" /\ event.id \in Risky -> Consume
      [] event.type = "PlanFinished" -> FinishPlan(event.id)
      [] OTHER -> UNCHANGED accounts

(* A registration that arrives with its reservation starts its countdown, one
   that arrives without is fired at once. *)
Unreserved(event) == event.armed /\ reservations = 0
Countdown(event) ==
    IF event.armed /\ ~Unreserved(event)
    THEN <<[id |-> event.id, left |-> RollbackTicks]>> ELSE <<>>

-----------------------------------------------------------------------------
(* The outbox *)

Smaller(m, n) == IF m < n THEN m ELSE n

(* Rollbacks of a batch that find the outbox full are dropped with a message. *)
Fire(batch) ==
    queue' = queue \o SubSeq(batch, 1, Smaller(Len(batch), OutboxCapacity - Len(queue)))

(* EngineOutboxChanged follows each item that enters or leaves the outbox; the
   reducer takes over the sizes unless they break the capacity. *)
Mirror ==
    LET announced == IF Len(queue') > Len(queue) THEN (Len(queue) + 1)..Len(queue') ELSE {Len(queue')}
        valid == {n \in announced : Len(pending') + n + reservations' <= OutboxCapacity}
    IN  IF (normal' = normal /\ queue' = queue) \/ valid = {}
        THEN UNCHANGED mirrors
        ELSE /\ busyMirror' = (normal' # NoRequest)
             /\ queueMirror' = Max(valid)

-----------------------------------------------------------------------------
(* The person *)

(* The room for the inverses is taken before the request leaves the reducer. *)
Reserve(request, required) ==
    /\ reservations' = reservations + required
    /\ IF request.kind = "Apply"
       THEN singles' = singles + required /\ UNCHANGED plan
       ELSE /\ plan' = [id |-> request.id, total |-> required, consumed |-> 0]
            /\ UNCHANGED singles

(* The outbox holds one request: a second one is refused and stays out. *)
Enqueue(request) == normal' = IF normal = NoRequest THEN request ELSE normal

Submit(kind, n) ==
    LET request == NewRequest(kind, n)
        required == RiskyCount(request.ops)
    IN  /\ mode = "Running"
        /\ submitted + n <= MaxOps
        /\ DispatchAllowed(required)
        /\ submitted' = submitted + n
        /\ Reserve(request, required)
        /\ Enqueue(request)
        /\ UNCHANGED <<mode, pending, queue, closings, inFlight, drain, engine,
                       registered, kept, runs>>
        /\ Mirror

SubmitApply == Submit("Apply", 1)
SubmitPlan == \E n \in 1..MaxPlan : Submit("Plan", n)

KeepChanges ==
    /\ mode = "Running" /\ pending # <<>>
    /\ kept' = kept \cup ToSet(Ids(pending))
    /\ pending' = <<>>
    /\ UNCHANGED <<mode, normal, queue, closings, inFlight, accounts, mirrors, drain, engine,
                   submitted, registered, runs>>

(* fire_rollback: every countdown, newest first. *)
RollbackNow ==
    /\ mode = "Running" /\ pending # <<>>
    /\ pending' = <<>>
    /\ Fire(Reverse(Ids(pending)))
    /\ UNCHANGED <<mode, normal, closings, inFlight, accounts, drain, engine, history>>
    /\ Mirror

-----------------------------------------------------------------------------
(* The loop *)

(* All countdowns are equally long: those that expire stand before the others. *)
ExpiredNow == Cardinality({i \in 1..Len(Ticked) : Expired(Ticked[i])})

(* Faulty variant of Tick: an expired countdown takes the others with it, but
   only the expired ones are fired. *)
TickForgets ==
    /\ mode = "Running" /\ pending # <<>>
    /\ pending' = IF ExpiredNow = 0 THEN Ticked ELSE <<>>
    /\ Fire(Reverse(Ids(SubSeq(Ticked, 1, ExpiredNow))))
    /\ UNCHANGED <<mode, normal, closings, inFlight, accounts, drain, engine, history>>
    /\ Mirror

(* Only the countdowns whose own deadline has passed, newest first. *)
Tick ==
    /\ mode = "Running" /\ pending # <<>>
    /\ pending' = SubSeq(Ticked, ExpiredNow + 1, Len(Ticked))
    /\ Fire(Reverse(Ids(SubSeq(Ticked, 1, ExpiredNow))))
    /\ UNCHANGED <<mode, normal, closings, inFlight, accounts, drain, engine, history>>
    /\ Mirror

RollbackSendable == queue # <<>> /\ ~rollbackClosed

(* Faulty variant of RollbackRoom: keeps one place free. *)
RollbackRoomSpare == engineUp /\ Len(rollbackLane) + 1 < RollbackCapacity

RollbackRoom == engineUp /\ Len(rollbackLane) < RollbackCapacity

DispatchRollback ==
    /\ mode = "Running" /\ RollbackSendable /\ RollbackRoom
    /\ rollbackLane' = Append(rollbackLane, Head(queue))
    /\ inFlight' = inFlight \cup {Head(queue)}
    /\ queue' = Tail(queue)
    /\ UNCHANGED <<mode, pending, normal, closings, accounts, drain,
                   requestLane, events, engineUp, current, history>>
    /\ Mirror

(* The biased select sends a request only while no rollback can be sent. *)
DispatchNormal ==
    /\ mode = "Running" /\ engineUp
    /\ ~(RollbackSendable /\ RollbackRoom)
    /\ normal # NoRequest /\ ~normalClosed
    /\ Len(requestLane) < RequestCapacity
    /\ requestLane' = Append(requestLane, normal)
    /\ normal' = NoRequest
    /\ UNCHANGED <<mode, pending, queue, closings, inFlight, accounts, drain,
                   rollbackLane, events, engineUp, current, history>>
    /\ Mirror

(* A lane whose receiver is gone is closed; its item stays in the outbox. *)
DispatchRefused ==
    /\ mode \in {"Running", "Draining"} /\ ~engineUp
    /\ IF RollbackSendable
       THEN rollbackClosed' = TRUE /\ UNCHANGED normalClosed
       ELSE /\ normal # NoRequest /\ ~normalClosed
            /\ normalClosed' = TRUE /\ UNCHANGED rollbackClosed
    /\ UNCHANGED <<mode, pending, normal, queue, inFlight, accounts, mirrors, drain, engine,
                   history>>

ConsumeEvent ==
    LET event == Head(events)
        urgent == IF Unreserved(event) THEN <<event.id>> ELSE <<>>
    IN  /\ mode = "Running" /\ events # <<>>
        /\ events' = Tail(events)
        /\ Account(event)
        /\ pending' = pending \o Countdown(event)
        /\ inFlight' = IF event.type = "RollbackFinished" THEN inFlight \ {event.id} ELSE inFlight
        /\ Fire(urgent)
        /\ UNCHANGED <<mode, normal, closings, drain, requestLane, rollbackLane, engineUp, current,
                       history>>
        /\ Mirror

-----------------------------------------------------------------------------
(* The clean exit *)

(* collect_armed_rollbacks and fill_rollback_outbox: armed countdowns join the
   deferred ones, newest first, and the outbox takes as many as it has room for. *)
Fill(waiting, box) ==
    LET n == Smaller(Len(waiting), OutboxCapacity - Len(box)) IN
        /\ queue' = box \o SubSeq(waiting, 1, n)
        /\ deferred' = SubSeq(waiting, n + 1, Len(waiting))

NothingToRevert == pending = <<>> /\ queue = <<>> /\ inFlight = {} /\ reservations = 0

(* release_abandoned_request_reservations *)
ReleaseAbandoned ==
    CASE normal.kind = "Apply" /\ RiskyCount(normal.ops) = 1 -> Consume
      [] normal.kind = "Plan" -> FinishPlan(normal.id)
      [] OTHER -> UNCHANGED accounts

QuitConfirmed ==
    /\ mode = "Running"
    /\ IF NothingToRevert
       THEN mode' = "ExitedClean" /\ UNCHANGED <<pending, normal, queue, accounts, drain>>
       ELSE /\ mode' = "Draining"
            /\ ReleaseAbandoned
            /\ normal' = NoRequest
            /\ expected' = inFlight
            /\ pending' = <<>>
            /\ Fill(Reverse(Ids(pending)), queue)
            /\ UNCHANGED completed
    /\ UNCHANGED <<closings, inFlight, mirrors, engine, history>>

DrainNeeded ==
    deferred # <<>> \/ queue # <<>> \/ ~(expected \subseteq completed) \/ reservations # 0
Undeliverable == queue # <<>> /\ rollbackClosed
DrainTurn == mode = "Draining" /\ DrainNeeded /\ ~Undeliverable

DrainDispatch ==
    /\ DrainTurn /\ RollbackSendable /\ RollbackRoom
    /\ rollbackLane' = Append(rollbackLane, Head(queue))
    /\ inFlight' = inFlight \cup {Head(queue)}
    /\ expected' = expected \cup {Head(queue)}
    /\ Fill(deferred, Tail(queue))
    /\ UNCHANGED <<mode, pending, normal, closings, accounts, mirrors, completed,
                   requestLane, events, engineUp, current, history>>

(* Faulty variant of DrainConsume: what was armed meanwhile is not collected. *)
DrainConsumeOnly ==
    LET event == Head(events) IN
        /\ DrainTurn /\ events # <<>>
        /\ events' = Tail(events)
        /\ Account(event)
        /\ inFlight' = IF event.type = "RollbackFinished" THEN inFlight \ {event.id} ELSE inFlight
        /\ completed' = IF event.type = "RollbackFinished" THEN completed \cup {event.id} ELSE completed
        /\ pending' = pending \o Countdown(event)
        /\ UNCHANGED <<mode, normal, queue, deferred, closings, mirrors, expected,
                       requestLane, rollbackLane, engineUp, current, history>>

(* What an event arms is collected in the same turn, so `pending` stays empty. *)
DrainConsume ==
    LET event == Head(events)
        armed == Reverse(Ids(Countdown(event)))
        urgent == IF Unreserved(event) THEN <<event.id>> ELSE <<>>
        full == Len(queue) = OutboxCapacity
    IN  /\ DrainTurn /\ events # <<>>
        /\ events' = Tail(events)
        /\ Account(event)
        /\ inFlight' = IF event.type = "RollbackFinished" THEN inFlight \ {event.id} ELSE inFlight
        /\ completed' = IF event.type = "RollbackFinished" THEN completed \cup {event.id} ELSE completed
        /\ IF full
           THEN Fill(urgent \o deferred \o armed, queue)
           ELSE Fill(deferred \o armed, queue \o urgent)
        /\ UNCHANGED <<mode, pending, normal, closings, mirrors, expected,
                       requestLane, rollbackLane, engineUp, current, history>>

DrainComplete ==
    /\ mode = "Draining" /\ ~DrainNeeded
    /\ mode' = "ExitedClean"
    /\ UNCHANGED <<pending, normal, queue, closings, inFlight, accounts, mirrors, drain, engine,
                   history>>

(* The rollback lane or the event channel is closed, or five seconds passed. *)
DrainAbandoned ==
    /\ mode = "Draining" /\ DrainNeeded
    /\ mode' = "ExitedUnfinished"
    /\ UNCHANGED <<pending, normal, queue, closings, inFlight, accounts, mirrors, drain, engine,
                   history>>

-----------------------------------------------------------------------------
(* The engine *)

Open == mode \in {"Running", "Draining"}
EventRoom == Len(events) < EventCapacity
interface == <<mode, pending, normal, queue, closings, inFlight, accounts, mirrors, drain>>

(* A waiting rollback goes before every waiting request. *)
EngineBegin ==
    /\ Open /\ engineUp /\ current = NoRequest
    /\ IF rollbackLane # <<>>
       THEN /\ current' = RollbackWork(Head(rollbackLane))
            /\ rollbackLane' = Tail(rollbackLane)
            /\ UNCHANGED requestLane
       ELSE /\ requestLane # <<>>
            /\ current' = Head(requestLane)
            /\ requestLane' = Tail(requestLane)
            /\ UNCHANGED rollbackLane
    /\ UNCHANGED <<interface, events, engineUp, history>>

(* One forward operation.  A risky reversible one is registered unless it failed
   cleanly; a plan goes on only after one that was fully applied. *)
EngineOperation ==
    /\ Open /\ engineUp /\ EventRoom
    /\ current.kind \in {"Apply", "Plan"} /\ current.ops # <<>>
    /\ LET op == Head(current.ops)
           guarded == op \in Risky \cap Reversible
       IN  \E armed \in (IF guarded THEN BOOLEAN ELSE {FALSE}), applied \in BOOLEAN :
              /\ guarded /\ applied => armed
              /\ events' = Append(events, Finished(op, armed))
              /\ registered' = IF armed THEN registered \cup {op} ELSE registered
              /\ current' = IF current.kind = "Apply" THEN NoRequest
                            ELSE [current EXCEPT !.ops = IF applied THEN Tail(@) ELSE <<>>]
    /\ UNCHANGED <<interface, requestLane, rollbackLane, engineUp, submitted, kept, runs>>

EnginePlanDone ==
    /\ Open /\ engineUp /\ EventRoom
    /\ current.kind = "Plan" /\ current.ops = <<>>
    /\ events' = Append(events, PlanDone(current.id))
    /\ current' = NoRequest
    /\ UNCHANGED <<interface, requestLane, rollbackLane, engineUp, history>>

EngineRollback ==
    /\ Open /\ engineUp /\ EventRoom
    /\ current.kind = "Rollback"
    /\ events' = Append(events, RollbackDone(current.id))
    /\ runs' = [runs EXCEPT ![current.id] = @ + 1]
    /\ current' = NoRequest
    /\ UNCHANGED <<interface, requestLane, rollbackLane, engineUp, submitted, registered, kept>>

(* The task panics: its lanes close, what it already reported can be read. *)
EngineDies ==
    /\ Open /\ engineUp
    /\ engineUp' = FALSE
    /\ UNCHANGED <<interface, requestLane, rollbackLane, events, current, history>>

-----------------------------------------------------------------------------

Init ==
    /\ mode = "Running" /\ pending = <<>>
    /\ normal = NoRequest /\ queue = <<>>
    /\ normalClosed = FALSE /\ rollbackClosed = FALSE
    /\ inFlight = {}
    /\ reservations = 0 /\ singles = 0 /\ plan = NoPlan
    /\ busyMirror = FALSE /\ queueMirror = 0
    /\ deferred = <<>> /\ expected = {} /\ completed = {}
    /\ requestLane = <<>> /\ rollbackLane = <<>> /\ events = <<>>
    /\ engineUp = TRUE /\ current = NoRequest
    /\ submitted = 0
    /\ registered = {} /\ kept = {} /\ runs = [r \in 1..MaxOps |-> 0]

Person == SubmitApply \/ SubmitPlan \/ KeepChanges \/ RollbackNow \/ QuitConfirmed
Dispatch == DispatchRollback \/ DispatchNormal \/ DispatchRefused
Drain == DrainDispatch \/ DrainConsume \/ DrainComplete
Engine == EngineBegin \/ EngineOperation \/ EnginePlanDone \/ EngineRollback

Terminated == ~Open /\ UNCHANGED vars

Next ==
    \/ Person \/ Tick \/ Dispatch \/ ConsumeEvent \/ Drain \/ DrainAbandoned
    \/ Engine \/ EngineDies \/ Terminated

Spec == Init /\ [][Next]_vars

(* The loop's select picks each ready branch sooner or later, and the clock is
   one of them; the engine's own liveness is that of its module.  Neither the
   person nor the drain's deadline is assumed to act. *)
Fairness ==
    /\ WF_vars(Tick)
    /\ WF_vars(DispatchRollback) /\ SF_vars(DispatchNormal) /\ WF_vars(DispatchRefused)
    /\ WF_vars(ConsumeEvent)
    /\ WF_vars(Drain)
    /\ WF_vars(Engine)

FairSpec == Spec /\ Fairness

=============================================================================
