-------------------------- MODULE ReviewedChanges ---------------------------
(***************************************************************************)
(* From review to the undo stack: what a person confirms, stages, applies  *)
(* as a plan, keeps and undoes (src/ui/update/mod.rs, plans.rs, rows.rs,   *)
(* lifecycle.rs), and the engine that checks a request against the         *)
(* snapshot it was reviewed against and executes it                        *)
(* (src/application/engine.rs), while other programs change the firewall.  *)
(*                                                                         *)
(* The firewall is a set of settings that are on.  The outbox and the      *)
(* lanes are one queue of requests and one of rollbacks; their capacity    *)
(* and the countdowns are the subject of RollbackSession, the engine's     *)
(* scheduling that of Engine.  Every mutation is confirmed.                *)
(***************************************************************************)
EXTENDS Integers, SequencesExt

CONSTANTS
    Setting,        \* what can be on or off in the firewall
    Needs,          \* pairs <<s, t>>: s can only be on while t is
    Initially,      \* what the firewall may be when the session starts
    Risky,          \* settings whose changes carry a connectivity warning
    EventCapacity,  \* of the engine's event channel
    UndoCapacity,   \* UNDO_CAP
    MaxChanges,     \* bound: operations made in a session
    MaxForeign      \* bound: changes made by other programs

ASSUME ReviewAssumption ==
    /\ Needs \subseteq Setting \X Setting /\ Risky \subseteq Setting
    /\ Initially \subseteq SUBSET Setting
    /\ IsFiniteSet(Setting)
    /\ \A settings \in Initially, pair \in Needs : pair[1] \in settings => pair[2] \in settings
    /\ EventCapacity \in Nat \ {0} /\ UndoCapacity \in Nat \ {0}
    /\ MaxChanges \in Nat /\ MaxForeign \in Nat

VARIABLES
    firewall,           \* the settings that are on
    shown, stale,       \* the snapshot on the screen; the last refresh failed
    confirm,            \* the confirmation that is open
    staged, plan,       \* staged operations; those of the plan in flight
    verify, undo,       \* verify_next_refresh, undo_stack
    pending,            \* forward operations of the armed countdowns
    lane, rollbacks,    \* on their way to the engine
    work, mustRead,     \* what the engine executes; it owes a reconciling read
    events,
    made, foreign,      \* history: operations made, foreign changes
    runs, applied,      \* history: executions of each operation, applied but not verified
    writer, touched     \* history: what set each setting last, foreign since work began

screen == <<shown, stale, confirm>>
lists == <<staged, plan>>
changes == <<verify, undo, pending>>
engine == <<work, mustRead, events>>
history == <<made, foreign, runs, applied, writer, touched>>
vars == <<firewall, screen, lists, changes, lane, rollbacks, engine, history>>

-----------------------------------------------------------------------------
(* Operations *)

(* Operations are numbered in the order they were made; the code compares
   them by value. *)
Operation(n, setting, on, by) == [id |-> n, setting |-> setting, on |-> on, by |-> by]
SameValue(p, q) == p.setting = q.setting /\ p.on = q.on

IdsOf(ops) == {ops[i].id : i \in 1..Len(ops)}

(* The operations at some places of a list, in their order. *)
At(ops, places) ==
    LET Place(k) == CHOOSE i \in places : Cardinality(places \cap (1..i)) = k
    IN  [k \in 1..Cardinality(places) |-> ops[Place(k)]]

InverseOf(op, n, by) == Operation(n, op.setting, ~op.on, by)

Holds(op, settings) == (op.setting \in settings) = op.on
Effect(op, settings) ==
    IF op.on THEN settings \cup {op.setting} ELSE settings \ {op.setting}

(* The references validate looks up: what a setting needs is there, and what
   needs it is gone before it goes. *)
Possible(op, settings) ==
    \A pair \in Needs :
        /\ pair[1] = op.setting => pair[2] \in settings
        /\ pair[2] = op.setting /\ ~op.on => pair[1] \notin settings

Valid(op, settings) == Possible(op, settings) /\ ~Holds(op, settings)

NoWriter == Operation(0, CHOOSE s \in Setting : TRUE, FALSE, "other")

-----------------------------------------------------------------------------
(* Requests and events *)

None == [kind |-> "None", ops |-> <<>>, expected |-> {}]
Review(kind, ops) == [kind |-> kind, ops |-> ops, expected |-> shown]

Idle == [kind |-> "None", left |-> <<>>, done |-> <<>>, expected |-> {}, halted |-> FALSE]

Finished(op, outcome, armed) ==
    [type |-> "OperationFinished", op |-> op, outcome |-> outcome, armed |-> armed]
PlanFinished(remaining) == [type |-> "PlanFinished", remaining |-> remaining]
(* history: of those, the ones overtaken before the read. *)
Overtaken == {op \in applied : writer[op.setting] # op}
Refreshed == [type |-> "RefreshFinished", ok |-> TRUE, settings |-> firewall,
              overtaken |-> Overtaken]
RefreshFailed == [type |-> "RefreshFinished", ok |-> FALSE]

-----------------------------------------------------------------------------
(* The person: single changes *)

(* Overlays are modal: with a confirmation open only its own keys act. *)
AtKeys == confirm = None

(* request_operation *)
RequestOperation(op) ==
    confirm' = IF ~stale /\ Valid(op, shown) THEN Review("Apply", <<op>>) ELSE confirm

Change(setting, on) ==
    LET op == Operation(made + 1, setting, on, "person") IN
        /\ AtKeys /\ made < MaxChanges
        /\ ~stale /\ Valid(op, shown)
        /\ RequestOperation(op)
        /\ made' = made + 1
        /\ UNCHANGED <<firewall, shown, stale, lists, changes, lane, rollbacks, engine,
                       foreign, runs, applied, writer, touched>>

(* in_flight_plan_rollback is set.  The code keeps the plan's identity and its
   reservations (see RollbackSession), here it is the operations' numbers. *)
PlanActive == plan # {}

(* Faulty variant of Accept: the applied plan stays staged. *)
AcceptKeepsStaged ==
    /\ ~AtKeys /\ ~PlanActive
    /\ lane' = Append(lane, confirm)
    /\ confirm' = None
    /\ plan' = IF confirm.kind = "Plan" THEN IdsOf(confirm.ops) ELSE plan
    /\ UNCHANGED <<firewall, shown, stale, staged, changes, rollbacks, engine, history>>

(* ConfirmAccept; a refused one leaves the confirmation open. *)
Accept ==
    /\ ~AtKeys /\ ~PlanActive
    /\ lane' = Append(lane, confirm)
    /\ confirm' = None
    /\ IF confirm.kind = "Plan"
       THEN staged' = <<>> /\ plan' = IdsOf(confirm.ops)
       ELSE UNCHANGED lists
    /\ UNCHANGED <<firewall, shown, stale, changes, rollbacks, engine, history>>

(* ConfirmStage: the confirmation of a plan is only closed. *)
Stage ==
    /\ ~AtKeys
    /\ staged' = IF confirm.kind = "Apply" THEN staged \o confirm.ops ELSE staged
    /\ confirm' = None
    /\ UNCHANGED <<firewall, shown, stale, plan, changes, lane, rollbacks, engine, history>>

Cancel ==
    /\ ~AtKeys
    /\ confirm' = None
    /\ UNCHANGED <<firewall, shown, stale, lists, changes, lane, rollbacks, engine, history>>

-----------------------------------------------------------------------------
(* The person: staged plans *)

(* apply_staged_plan: nothing while stale, nothing if one is invalid; what is
   already satisfied is left out. *)
ReviewPlan(ops) ==
    LET needed == At(ops, {i \in 1..Len(ops) : ~Holds(ops[i], shown)})
    IN  IF stale \/ \E op \in ToSet(ops) : ~Possible(op, shown)
        THEN staged' = ops /\ UNCHANGED confirm
        ELSE /\ staged' = IF needed = <<>> THEN <<>> ELSE ops
             /\ confirm' = IF needed = <<>> THEN confirm ELSE Review("Plan", needed)

ApplyStagedPlan ==
    /\ AtKeys /\ ~PlanActive /\ staged # <<>>
    /\ ReviewPlan(staged)
    /\ UNCHANGED <<firewall, shown, stale, plan, changes, lane, rollbacks, engine, history>>

(* New operations that set some settings as they are in the target, in some order. *)
NewOperations(settings, target) ==
    LET order == SetToSeq(settings) IN
        [i \in 1..Len(order) |-> Operation(made + i, order[i], order[i] \in target, "person")]

(* bulk_delete does not ask whether a plan is running. *)
BulkDelete(marked) ==
    /\ AtKeys /\ marked # {} /\ made + Cardinality(marked) <= MaxChanges
    /\ ReviewPlan(staged \o NewOperations(marked, {}))
    /\ made' = made + Cardinality(marked)
    /\ UNCHANGED <<firewall, shown, stale, plan, changes, lane, rollbacks, engine,
                   foreign, runs, applied, writer, touched>>

DiscardStagedPlan ==
    /\ AtKeys /\ staged # <<>>
    /\ staged' = <<>>
    /\ UNCHANGED <<firewall, screen, plan, changes, lane, rollbacks, engine, history>>

(* snapshot_loaded and stage_drift_sync: the differences replace what was staged. *)
Restore(target) ==
    LET differing == (target \ shown) \cup (shown \ target)
    IN  /\ AtKeys /\ differing # {} /\ made + Cardinality(differing) <= MaxChanges
        /\ staged' = NewOperations(differing, target)
        /\ made' = made + Cardinality(differing)
        /\ UNCHANGED <<firewall, screen, plan, changes, lane, rollbacks, engine,
                       foreign, runs, applied, writer, touched>>

-----------------------------------------------------------------------------
(* The person and the clock: countdowns and undo *)

(* push_undo, for each of the operations, drops the oldest beyond the capacity. *)
Pushed(stack, ops) ==
    LET grown == stack \o ops
        surplus == IF Len(grown) > UndoCapacity THEN Len(grown) - UndoCapacity ELSE 0
    IN  SubSeq(grown, surplus + 1, Len(grown))

KeepChanges ==
    /\ AtKeys /\ pending # <<>>
    /\ undo' = Pushed(undo, pending)
    /\ pending' = <<>>
    /\ UNCHANGED <<firewall, screen, lists, verify, lane, rollbacks, engine, history>>

(* RollbackNow fires all countdowns, a tick the expired ones, which are the
   oldest; newest first. *)
FireRollbacks(n) ==
    LET Reverting(op) == InverseOf(op, op.id, "rollback") IN
        /\ n \in 1..Len(pending)
        /\ rollbacks' = rollbacks \o Reverse([i \in 1..n |-> Reverting(pending[i])])
        /\ pending' = SubSeq(pending, n + 1, Len(pending))
        /\ UNCHANGED <<firewall, screen, lists, verify, undo, lane, engine, history>>

(* The entry is popped whether or not its inverse can be requested. *)
UndoLastOperation ==
    /\ AtKeys /\ undo # <<>> /\ made < MaxChanges
    /\ undo' = Front(undo)
    /\ RequestOperation(InverseOf(Last(undo), made + 1, "undo"))
    /\ made' = made + 1
    /\ UNCHANGED <<firewall, shown, stale, lists, verify, pending, lane, rollbacks, engine,
                   foreign, runs, applied, writer, touched>>

-----------------------------------------------------------------------------
(* The reducer on events *)

(* Faulty variant of ConsumeFinished: what may have been applied is verified too. *)
ConsumeFinishedEager ==
    LET event == Head(events) IN
        /\ events # <<>> /\ event.type = "OperationFinished"
        /\ events' = Tail(events)
        /\ verify' = IF event.outcome # "Failed" THEN Append(verify, event.op) ELSE verify
        /\ pending' = IF event.armed THEN Append(pending, event.op) ELSE pending
        /\ UNCHANGED <<firewall, screen, lists, undo, lane, rollbacks, work, mustRead, history>>

(* record_operation_finished, for operations and for executed rollbacks. *)
ConsumeFinished ==
    LET event == Head(events) IN
        /\ events # <<>> /\ event.type = "OperationFinished"
        /\ events' = Tail(events)
        /\ verify' = IF event.outcome = "Applied" THEN Append(verify, event.op) ELSE verify
        /\ pending' = IF event.armed THEN Append(pending, event.op) ELSE pending
        /\ UNCHANGED <<firewall, screen, lists, undo, lane, rollbacks, work, mustRead, history>>

(* Faulty variant of ConsumePlanFinished: a halted plan stays in flight. *)
ConsumePlanFinishedHalted ==
    LET event == Head(events) IN
        /\ events # <<>> /\ event.type = "PlanFinished"
        /\ events' = Tail(events)
        /\ plan' = IF event.remaining = <<>> THEN {} ELSE plan
        /\ staged' = IF event.remaining = <<>> THEN staged ELSE event.remaining
        /\ UNCHANGED <<firewall, screen, changes, lane, rollbacks, work, mustRead, history>>

ConsumePlanFinished ==
    LET event == Head(events) IN
        /\ events # <<>> /\ event.type = "PlanFinished"
        /\ events' = Tail(events)
        /\ plan' = {}
        /\ staged' = IF event.remaining = <<>> THEN staged ELSE event.remaining
        /\ UNCHANGED <<firewall, screen, changes, lane, rollbacks, work, mustRead, history>>

(* Faulty variant of Undoable: countdowns are not looked at. *)
UndoableAlways(op, settings) == Holds(op, settings)

(* Observed, and not under a countdown. *)
Undoable(op, settings) ==
    /\ Holds(op, settings)
    /\ \A i \in 1..Len(pending) : ~SameValue(pending[i], op)

(* RefreshCompleted *)
ConsumeRefreshed ==
    LET event == Head(events)
        stackable == {i \in 1..Len(verify) : Undoable(verify[i], event.settings)}
    IN  /\ events # <<>> /\ event.type = "RefreshFinished"
        /\ events' = Tail(events)
        /\ stale' = ~event.ok
        /\ IF event.ok
           THEN /\ shown' = event.settings
                /\ undo' = Pushed(undo, At(verify, stackable))
                /\ verify' = <<>>
                /\ applied' = applied \ ToSet(verify)
           ELSE UNCHANGED <<shown, verify, undo, applied>>
        /\ UNCHANGED <<firewall, confirm, lists, pending, lane, rollbacks, work, mustRead,
                       made, foreign, runs, writer, touched>>

-----------------------------------------------------------------------------
(* The engine *)

EventRoom == Len(events) < EventCapacity
Resting == work = Idle

(* Faulty variant of Current: the firewall is not compared with the reviewed one. *)
CurrentUnchecked(request) == \A i \in 1..Len(request.ops) : Valid(request.ops[i], firewall)

(* mutation_precondition, and validation against what it read. *)
Current(request) ==
    /\ request.expected = firewall
    /\ \A i \in 1..Len(request.ops) : Valid(request.ops[i], firewall)

(* A request goes on when it is current and the reading succeeds; otherwise its
   first operation is reported as failed and a plan is returned whole. *)
EngineBegin ==
    LET request == Head(lane) IN
        /\ Resting /\ ~mustRead /\ rollbacks = <<>> /\ lane # <<>> /\ EventRoom
        /\ lane' = Tail(lane)
        /\ \E readable \in BOOLEAN :
              IF readable /\ Current(request)
              THEN /\ work' = [kind |-> request.kind, left |-> request.ops, done |-> <<>>,
                               expected |-> request.expected, halted |-> FALSE]
                   /\ UNCHANGED <<events, mustRead>>
              ELSE /\ events' = Append(events, Finished(Head(request.ops), "Failed", FALSE))
                   /\ mustRead' = (request.kind = "Apply")
                   /\ work' = IF request.kind = "Apply" THEN Idle
                              ELSE [kind |-> "Plan", left |-> request.ops, done |-> <<>>,
                                    expected |-> request.expected, halted |-> TRUE]
        /\ touched' = FALSE
        /\ UNCHANGED <<firewall, screen, lists, changes, rollbacks, made, foreign, runs, applied, writer>>

(* What a backend command can do to the firewall, and how it is reported:
   "Unknown" stands for partial failures and timeouts. *)
Execute(op, outcome) ==
    \E lands \in BOOLEAN :
        /\ outcome = "Applied" => lands
        /\ outcome = "Failed" => ~lands
        /\ lands => Possible(op, firewall)
        /\ firewall' = IF lands THEN Effect(op, firewall) ELSE firewall
        /\ writer' = IF lands THEN [writer EXCEPT ![op.setting] = op] ELSE writer
        /\ applied' = IF outcome = "Applied" THEN applied \cup {op} ELSE applied

Outcomes == {"Applied", "Failed", "Unknown"}

(* One forward operation; a plan halts at the first that is not fully applied. *)
EngineExecute ==
    LET op == Head(work.left) IN
        /\ ~Resting /\ ~work.halted /\ work.left # <<>> /\ EventRoom
        /\ \E outcome \in Outcomes :
              /\ Execute(op, outcome)
              /\ events' = Append(events, Finished(op, outcome,
                                  outcome # "Failed" /\ op.setting \in Risky))
              /\ work' = IF work.kind = "Apply" THEN Idle
                         ELSE [work EXCEPT !.left = Tail(@), !.done = Append(@, op),
                                           !.halted = outcome # "Applied"]
        /\ mustRead' = (work.kind = "Apply")
        /\ runs' = [runs EXCEPT ![op.id] = @ + 1]
        /\ UNCHANGED <<screen, lists, changes, lane, rollbacks, made, foreign, touched>>

(* Faulty variant of EnginePlanDone: the operation after the one that failed is
   not returned. *)
EnginePlanDoneShort ==
    /\ work.kind = "Plan" /\ (work.halted \/ work.left = <<>>) /\ EventRoom
    /\ events' = Append(events, PlanFinished(IF work.left = <<>> THEN <<>> ELSE Tail(work.left)))
    /\ work' = Idle
    /\ mustRead' = TRUE
    /\ UNCHANGED <<firewall, screen, lists, changes, lane, rollbacks, history>>

EnginePlanDone ==
    /\ work.kind = "Plan" /\ (work.halted \/ work.left = <<>>) /\ EventRoom
    /\ events' = Append(events, PlanFinished(work.left))
    /\ work' = Idle
    /\ mustRead' = TRUE
    /\ UNCHANGED <<firewall, screen, lists, changes, lane, rollbacks, history>>

(* A rollback is checked against nothing and goes before every request. *)
EngineRollback ==
    LET op == Head(rollbacks) IN
        /\ Resting /\ rollbacks # <<>> /\ EventRoom
        /\ rollbacks' = Tail(rollbacks)
        /\ \E outcome \in Outcomes :
              /\ Execute(op, outcome)
              /\ events' = Append(events, Finished(op, outcome, FALSE))
        /\ mustRead' = TRUE
        /\ UNCHANGED <<screen, lists, changes, lane, work, made, foreign, runs, touched>>

(* A refresh, periodic, demanded or owed after a mutation, completes. *)
EngineRefresh(event) ==
    /\ Resting /\ EventRoom
    /\ events' = Append(events, event)
    /\ mustRead' = FALSE
    /\ UNCHANGED <<firewall, screen, lists, changes, lane, rollbacks, work, history>>

(* Another program changes the firewall. *)
ForeignChange(setting) ==
    LET op == Operation(0, setting, setting \notin firewall, "other") IN
        /\ foreign < MaxForeign
        /\ Possible(op, firewall)
        /\ firewall' = Effect(op, firewall)
        /\ writer' = [writer EXCEPT ![setting] = NoWriter]
        /\ touched' = TRUE
        /\ foreign' = foreign + 1
        /\ UNCHANGED <<screen, lists, changes, lane, rollbacks, engine, made, runs, applied>>

-----------------------------------------------------------------------------

Init ==
    /\ firewall \in Initially
    /\ shown = firewall /\ stale = FALSE /\ confirm = None
    /\ staged = <<>> /\ plan = {}
    /\ verify = <<>> /\ undo = <<>> /\ pending = <<>>
    /\ lane = <<>> /\ rollbacks = <<>>
    /\ work = Idle /\ mustRead = FALSE /\ events = <<>>
    /\ made = 0 /\ foreign = 0
    /\ runs = [n \in 1..MaxChanges |-> 0]
    /\ applied = {} /\ writer = [s \in Setting |-> NoWriter]
    /\ touched = FALSE

Person ==
    \/ \E setting \in Setting, on \in BOOLEAN : Change(setting, on)
    \/ Accept \/ Stage \/ Cancel
    \/ ApplyStagedPlan \/ DiscardStagedPlan
    \/ \E settings \in SUBSET Setting : Restore(settings)
    \/ \E marked \in SUBSET shown : BulkDelete(marked)
    \/ KeepChanges \/ UndoLastOperation
    \/ \E n \in 1..Len(pending) : FireRollbacks(n)

ConsumeEvent == ConsumeFinished \/ ConsumePlanFinished \/ ConsumeRefreshed
EngineRead == EngineRefresh(Refreshed) \/ EngineRefresh(RefreshFailed)
EngineWork == EngineBegin \/ EngineExecute \/ EnginePlanDone \/ EngineRollback

Next ==
    \/ Person \/ ConsumeEvent
    \/ EngineWork \/ EngineRead
    \/ \E setting \in Setting : ForeignChange(setting)

Spec == Init /\ [][Next]_vars

(* The loop drains events, the engine works, and a read of the firewall that
   is tried again and again succeeds.  Work competes with reads for the event
   channel and is polled first. *)
Fairness ==
    /\ WF_vars(ConsumeEvent)
    /\ SF_vars(EngineWork)
    /\ SF_vars(EngineRefresh(Refreshed))

FairSpec == Spec /\ Fairness

=============================================================================
