---------------------- MODULE RollbackSessionProperties ----------------------
(***************************************************************************)
(* What must hold of the dead man's switch: invariants, the refinement of  *)
(* RollbackSwitch for every registration, and liveness.                    *)
(***************************************************************************)
EXTENDS RollbackSession

Ops == 1..MaxOps
Requests == [kind : {"Apply", "Plan"}, id : Ops, ops : Seq(Ops)]
Events == [type : {"OperationFinished", "RollbackFinished", "PlanFinished"}, id : Ops,
           armed : BOOLEAN]
Countdowns == [id : Ops, left : 1..RollbackTicks]

(* Every variable keeps its type, and no queue exceeds its capacity. *)
TypeOK ==
    /\ mode \in {"Running", "Draining", "ExitedClean", "ExitedUnfinished"}
    /\ pending \in Seq(Countdowns)
    /\ normal \in Requests \cup {NoRequest}
    /\ queue \in Seq(Ops) /\ Len(queue) <= OutboxCapacity
    /\ normalClosed \in BOOLEAN /\ rollbackClosed \in BOOLEAN
    /\ inFlight \subseteq Ops
    /\ reservations \in Nat /\ singles \in Nat
    /\ plan \in [id : 0..MaxOps, total : 0..MaxOps, consumed : 0..MaxOps]
    /\ busyMirror \in BOOLEAN /\ queueMirror \in 0..OutboxCapacity
    /\ deferred \in Seq(Ops) /\ expected \subseteq Ops /\ completed \subseteq Ops
    /\ requestLane \in Seq(Requests) /\ Len(requestLane) <= RequestCapacity
    /\ rollbackLane \in Seq(Ops) /\ Len(rollbackLane) <= RollbackCapacity
    /\ events \in Seq(Events) /\ Len(events) <= EventCapacity
    /\ engineUp \in BOOLEAN
    /\ current \in Requests \cup {NoRequest} \cup {RollbackWork(r) : r \in Ops}
    /\ submitted \in 0..MaxOps
    /\ registered \subseteq Risky /\ kept \subseteq Ops
    /\ runs \in [Ops -> Nat]

-----------------------------------------------------------------------------
(* Capacity *)

(* Countdowns, queued rollbacks and reservations together never exceed the
   outbox: whenever countdowns expire, by tick, by key or at exit, all their
   inverses find room, and the drain never has to defer one. *)
RoomForEveryInverse ==
    /\ Len(pending) + Len(queue) + reservations <= OutboxCapacity
    /\ deferred = <<>>

(* The countdowns stand in the order of their deadlines. *)
OldestFirst == \A i, j \in 1..Len(pending) : i < j => pending[i].left <= pending[j].left

(* Operations whose result the reducer has not seen yet. *)
Unreported ==
    ToSet(normal.ops) \cup ToSet(current.ops)
        \cup (UNION {ToSet(requestLane[i].ops) : i \in 1..Len(requestLane)})
        \cup {events[i].id : i \in {j \in 1..Len(events) : events[j].type = "OperationFinished"}}

OfPlan(op) == plan # NoPlan /\ op >= plan.id

(* With every variable of its type, there is room for every inverse, countdowns
   expire in the order they were armed, and the accounts are exact: what is reserved
   is what single operations and the plan still own, one for each risky single
   operation whose result is outstanding, and at least one for each of the plan's.
   Between two turns of the loop the reducer's mirrors are the outbox: what it
   allows to be submitted is decided on the true sizes. *)
AccountsExact ==
    LET risky == Unreported \cap Risky IN
        /\ TypeOK
        /\ RoomForEveryInverse /\ OldestFirst
        /\ reservations = singles + (plan.total - plan.consumed)
        /\ singles = Cardinality({op \in risky : ~OfPlan(op)})
        /\ Cardinality({op \in risky : OfPlan(op)}) <= plan.total - plan.consumed
        /\ mode = "Running" => busyMirror = (normal # NoRequest) /\ queueMirror = Len(queue)

-----------------------------------------------------------------------------
(* The switch *)

(* Where a registration is: on countdown or on its way there, kept, fired and
   not yet run, or run. *)
OnCountdown(r) ==
    \/ r \in ToSet(Ids(pending))
    \/ \E i \in 1..Len(events) : events[i] = Finished(r, TRUE)

Fired(r) ==
    \/ r \in ToSet(queue) \cup ToSet(deferred) \cup ToSet(rollbackLane)
    \/ current = RollbackWork(r)

Places(r) ==
    {place \in {"armed", "kept", "fired", "reverted"} :
        CASE place = "armed" -> OnCountdown(r)
          [] place = "kept" -> r \in kept
          [] place = "fired" -> Fired(r)
          [] place = "reverted" -> runs[r] > 0}

(* One place at a time; being in two, in none, or reverted twice is "broken". *)
Status(r) ==
    CASE r \notin registered -> "none"
      [] runs[r] <= 1 /\ Cardinality(Places(r)) = 1 -> CHOOSE place \in Places(r) : TRUE
      [] OTHER -> "broken"

Switch == INSTANCE RollbackSwitch
    WITH Registration <- Ops, status <- [r \in Ops |-> Status(r)], open <- Open

(* Every registration goes through the promised life, whatever expires, is kept,
   is fired by hand or is drained, and whatever happens to the engine: it is
   never dropped, and its inverse runs at most once. *)
ImplementsSwitch == Switch!Spec

(* A clean exit leaves nothing behind: every armed change was kept or reverted,
   and no risky operation is still to be executed or reported. *)
CleanExitSettlesAll ==
    mode = "ExitedClean" =>
        /\ \A r \in registered : Status(r) \in {"kept", "reverted"}
        /\ Unreported \cap Risky = {}

-----------------------------------------------------------------------------
(* Liveness *)

(* While the session and the engine last, every armed change is kept or
   reverted, whatever else is submitted; and with a living engine the drain ends by
   itself, before any deadline: the reservations and the rollbacks it waits for are
   all answered. *)
EveryChangeSettled ==
    /\ \A r \in Ops :
          Status(r) = "armed" ~> Status(r) \in {"kept", "reverted"} \/ ~engineUp \/ ~Open
    /\ mode = "Draining" ~> mode # "Draining" \/ ~engineUp

=============================================================================
