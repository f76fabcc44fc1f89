---------------------- MODULE ReviewedChangesProperties ----------------------
(***************************************************************************)
(* What must hold of reviewed changes: what is executed is what a person   *)
(* reviewed, once, on the firewall that was on the screen; what is armed   *)
(* is not undoable; what was applied is verified.                          *)
(***************************************************************************)
EXTENDS ReviewedChanges

Origins == {"person", "undo", "rollback", "other"}
Operations == [id : 0..MaxChanges, setting : Setting, on : BOOLEAN, by : Origins]
Requests == [kind : {"Apply", "Plan"}, ops : Seq(Operations), expected : SUBSET Setting]
Works == [kind : {"None", "Apply", "Plan"}, left : Seq(Operations), done : Seq(Operations),
          expected : SUBSET Setting, halted : BOOLEAN]
Events ==
    [type : {"OperationFinished"}, op : Operations, outcome : Outcomes, armed : BOOLEAN]
    \cup [type : {"PlanFinished"}, remaining : Seq(Operations)]
    \cup [type : {"RefreshFinished"}, ok : {TRUE}, settings : SUBSET Setting,
          overtaken : SUBSET Operations]
    \cup {RefreshFailed}

(* Every variable keeps its type; the event channel and the undo stack their
   capacity. *)
TypeOK ==
    /\ firewall \subseteq Setting /\ shown \subseteq Setting
    /\ stale \in BOOLEAN /\ mustRead \in BOOLEAN
    /\ confirm \in Requests \cup {None}
    /\ staged \in Seq(Operations) /\ verify \in Seq(Operations) /\ pending \in Seq(Operations)
    /\ undo \in Seq(Operations) /\ Len(undo) <= UndoCapacity
    /\ plan \subseteq 1..MaxChanges
    /\ lane \in Seq(Requests) /\ rollbacks \in Seq(Operations)
    /\ work \in Works
    /\ events \in Seq(Events) /\ Len(events) <= EventCapacity
    /\ made \in 0..MaxChanges /\ foreign \in 0..MaxForeign
    /\ runs \in [1..MaxChanges -> Nat]
    /\ applied \subseteq Operations /\ writer \in [Setting -> Operations] /\ touched \in BOOLEAN

-----------------------------------------------------------------------------
(* Review *)

(* Operations on their way to execution, and those that come back from a plan. *)
InHand ==
    IdsOf(work.left)
        \cup (UNION {IdsOf(lane[i].ops) : i \in 1..Len(lane)})
        \cup (UNION {IdsOf(events[i].remaining) :
                        i \in {j \in 1..Len(events) : events[j].type = "PlanFinished"}})

Executed == {n \in 1..MaxChanges : runs[n] > 0}

(* With every variable of its type, a change that was reviewed is executed at most
   once: an operation that was executed is nowhere from where it could be executed
   again, whatever plans are halted, rejected, returned, deleted in bulk or staged
   meanwhile. *)
ExecutedOnce ==
    /\ TypeOK
    /\ \A n \in 1..MaxChanges : runs[n] <= 1
    /\ (IdsOf(staged) \cup IdsOf(confirm.ops) \cup InHand) \cap Executed = {}

(* Unless another program interferes while a request is executed, the firewall
   is at every point of a plan what was on the screen when it was reviewed, plus
   the operations executed so far: a setting is as the last of them left it, or as
   it was reviewed. *)
FirewallAsReviewed ==
    ~Resting /\ ~work.halted /\ ~touched =>
        \A setting \in Setting :
            LET setBy == {i \in 1..Len(work.done) : work.done[i].setting = setting} IN
                setting \in firewall <=>
                    \/ setBy = {} /\ setting \in work.expected
                    \/ \E last \in setBy : work.done[last].on /\ \A i \in setBy : i <= last

PlansUnderWay ==
    Cardinality({i \in 1..Len(lane) : lane[i].kind = "Plan"})
        + (IF work.kind = "Plan" THEN 1 ELSE 0)
        + Cardinality({i \in 1..Len(events) : events[i].type = "PlanFinished"})

(* While a plan is in flight the engine holds it or its end is on the way, once:
   the interface never waits for a plan that nobody executes, and never lets
   two run.  And each of its operations was executed or is still in hand: what a
   halted or rejected plan gives back is all that it did not execute. *)
PlanAccounted ==
    /\ PlansUnderWay = (IF PlanActive THEN 1 ELSE 0)
    /\ plan \subseteq Executed \cup InHand

-----------------------------------------------------------------------------
(* Countdowns, verification, undo *)

(* A change under a countdown is not on the undo stack as well: it is reverted
   by one of the two only. *)
ArmedNotUndoable == ToSet(pending) \cap ToSet(undo) = {}

(* A warning that an applied operation was not observed is never false: whenever
   the reducer verifies an operation against a snapshot that does not show it,
   it had taken effect and something else had set the same setting again before
   that snapshot was read. *)
WarningsAreTrue ==
    events # <<>> /\ Head(events).type = "RefreshFinished" /\ Head(events).ok =>
        \A op \in ToSet(verify) :
            ~Holds(op, Head(events).settings) => op \in Head(events).overtaken

-----------------------------------------------------------------------------
(* Liveness *)

(* Nothing stays open: a plan always ends, so that the person can go on, and every
   applied operation is verified. *)
NothingStaysOpen ==
    /\ PlanActive ~> ~PlanActive
    /\ verify # <<>> ~> verify = <<>>

-----------------------------------------------------------------------------
(* What the repository's comments say *)

(* "Nothing is lost: unexecuted operations go back to staging": the end of a
   plan takes nothing out of staging. *)
NothingStagedIsLost ==
    [][ConsumePlanFinished => IdsOf(staged) \subseteq IdsOf(staged')]_vars

=============================================================================
