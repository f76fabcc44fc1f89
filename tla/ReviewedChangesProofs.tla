------------------------ MODULE ReviewedChangesProofs ------------------------
(***************************************************************************)
(* For every firewall, every number of operations and both capacities: a   *)
(* change that was reviewed is executed at most once and a plan returns    *)
(* what it did not execute; what is under a countdown is not undoable; a   *)
(* warning that a change was not observed is never false; a plan works on  *)
(* the firewall that was reviewed.                                         *)
(***************************************************************************)
EXTENDS ReviewedChangesProperties, SequenceFacts

-----------------------------------------------------------------------------
(* The inductive invariant *)

(* Operations that are made to be executed, and those that take one back. *)
Forward == [id : 1..MaxChanges, setting : Setting, on : BOOLEAN, by : {"person", "undo"}]
Backward == [id : 1..MaxChanges, setting : Setting, on : BOOLEAN, by : {"rollback"}]

(* A single change is one operation, and a plan has one at least. *)
Sized(request) == request.ops # <<>> /\ (request.kind = "Apply" => Len(request.ops) = 1)
Asked ==
    {request \in [kind : {"Apply", "Plan"}, ops : Seq(Forward), expected : SUBSET Setting] : Sized(request)}

Finishes == [type : {"OperationFinished"}, op : Forward \cup Backward, outcome : Outcomes, armed : BOOLEAN]
Reports ==
    {event \in Finishes : event.armed => event.op \in Forward /\ event.outcome # "Failed"}
Ends == [type : {"PlanFinished"}, remaining : Seq(Forward)]
Reads == [type : {"RefreshFinished"}, ok : {TRUE}, settings : SUBSET Setting, overtaken : SUBSET Operations]
Told == Reports \cup Ends \cup Reads \cup {RefreshFailed}

Working ==
    {w \in Works : /\ w.left \in Seq(Forward)
                   /\ w.kind = "None" => w = Idle
                   /\ w.kind = "Apply" => Len(w.left) = 1 /\ ~w.halted}

(* TypeOK, with the operations that each list can hold. *)
Shape ==
    /\ firewall \subseteq Setting /\ shown \subseteq Setting
    /\ stale \in BOOLEAN /\ mustRead \in BOOLEAN /\ touched \in BOOLEAN
    /\ confirm \in Asked \cup {None} /\ lane \in Seq(Asked) /\ work \in Working
    /\ staged \in Seq(Forward) /\ pending \in Seq(Forward) /\ rollbacks \in Seq(Backward)
    /\ verify \in Seq(Forward \cup Backward)
    /\ undo \in Seq(Forward \cup Backward) /\ Len(undo) <= UndoCapacity
    /\ plan \subseteq 1..MaxChanges
    /\ events \in Seq(Told) /\ Len(events) <= EventCapacity
    /\ made \in 0..MaxChanges /\ foreign \in 0..MaxForeign
    /\ runs \in [1..MaxChanges -> Nat]
    /\ applied \subseteq Operations /\ writer \in [Setting -> Operations]

Distinct(ops) == \A i, j \in 1..Len(ops) : ops[i].id = ops[j].id => i = j

(* What a lane holds, and what events return: no operation twice. *)
IdsIn(requests) == UNION {IdsOf(requests[i].ops) : i \in 1..Len(requests)}
Separate(requests) ==
    /\ \A i \in 1..Len(requests) : Distinct(requests[i].ops)
    /\ \A i, j \in 1..Len(requests) : i # j => IdsOf(requests[i].ops) \cap IdsOf(requests[j].ops) = {}

Returned(event) == IF event.type = "PlanFinished" THEN event.remaining ELSE <<>>
ReturnedBy(told) == UNION {IdsOf(Returned(told[i])) : i \in 1..Len(told)}
SeparateReturns(told) ==
    /\ \A i \in 1..Len(told) : Distinct(Returned(told[i]))
    /\ \A i, j \in 1..Len(told) : i # j => IdsOf(Returned(told[i])) \cap IdsOf(Returned(told[j])) = {}

(* Every operation that was made and not executed is in one place, except that
   those of a plan under review are staged too. *)
OnePlaceOf(inStaging, inReview, inLane, inWork, inEvents, executed, last) ==
    /\ inLane \cap inWork = {} /\ inLane \cap inEvents = {} /\ inWork \cap inEvents = {}
    /\ (inStaging \cup inReview) \cap (inLane \cup inWork \cup inEvents) = {}
    /\ (inStaging \cup inReview \cup inLane \cup inWork \cup inEvents) \cap executed = {}
    /\ inStaging \cup inReview \cup inLane \cup inWork \cup inEvents \cup executed \subseteq 1..last

OnePlace ==
    /\ Distinct(staged) /\ Distinct(confirm.ops) /\ Distinct(work.left)
    /\ Separate(lane) /\ SeparateReturns(events)
    /\ OnePlaceOf(IdsOf(staged), IdsOf(confirm.ops), IdsIn(lane), IdsOf(work.left),
                  ReturnedBy(events), Executed, made)
    /\ confirm.kind = "Apply" => IdsOf(staged) \cap IdsOf(confirm.ops) = {}
    /\ \A n \in 1..MaxChanges : runs[n] <= 1

(* Whoever has the plan has what was not executed of it. *)
PlanPlaced ==
    /\ PlansUnderWay = (IF PlanActive THEN 1 ELSE 0)
    /\ \A i \in 1..Len(lane) : lane[i].kind = "Plan" => plan \subseteq Executed \cup IdsOf(lane[i].ops)
    /\ work.kind = "Plan" => plan \subseteq Executed \cup IdsOf(work.left)
    /\ \A i \in 1..Len(events) :
          events[i].type = "PlanFinished" => plan \subseteq Executed \cup IdsOf(events[i].remaining)

(* What was executed and is still to be reported: that an operation was, that one
   was taken back, that one can still be taken back. *)
Live(event) == event.type = "OperationFinished" /\ (event.armed \/ event.outcome = "Applied")
MadeBy == [event \in Told |-> IF Live(event) /\ event.op.by # "rollback" THEN {event.op.id} ELSE {}]
TakenBy == [event \in Told |-> IF Live(event) /\ event.op.by = "rollback" THEN {event.op.id} ELSE {}]
ArmedBy ==
    [event \in Told |-> IF event.type = "OperationFinished" /\ event.armed THEN {event.op.id} ELSE {}]

(* What was reported. *)
Concluded == ToSet(verify) \cup ToSet(undo)
Makes(ops) == {op.id : op \in {o \in ops : o.by # "rollback"}}
Takes(ops) == {op.id : op \in {o \in ops : o.by = "rollback"}}

(* An operation that can still be taken back was not taken back, and is in one
   place; nothing is reported that was reported before. *)
OnceOf(making, taking, arming, madeOnes, takenOnes, armed, reverting, executed) ==
    /\ arming \subseteq making /\ making \cap (madeOnes \cup armed) = {} /\ taking \cap takenOnes = {}
    /\ arming \cap reverting = {} /\ armed \cap reverting = {}
    /\ (arming \cup armed \cup reverting) \cap (taking \cup takenOnes) = {}
    /\ making \cup taking \cup madeOnes \cup takenOnes \cup armed \cup reverting \subseteq executed

ReportedOnce ==
    /\ Scattered(events, MadeBy) /\ Scattered(events, TakenBy)
    /\ Distinct(pending) /\ Distinct(rollbacks)
    /\ OnceOf(Gathered(events, MadeBy), Gathered(events, TakenBy), Gathered(events, ArmedBy),
              Makes(Concluded), Takes(Concluded), IdsOf(pending), IdsOf(rollbacks), Executed)

(* What was applied is remembered until it is verified, and holds while nothing
   else sets its setting: a snapshot read after it shows it, or it was overtaken. *)
AppliedBy(event) == event.type = "OperationFinished" /\ event.outcome = "Applied"
Shows(event) == event.type = "RefreshFinished" /\ event.ok
Explained(op, event) == Holds(op, event.settings) \/ op \in event.overtaken

AllExplained(ops, told) ==
    \A i \in 1..Len(told) : Shows(told[i]) =>
        /\ \A op \in ops : Explained(op, told[i])
        /\ \A j \in 1..i : AppliedBy(told[j]) => Explained(told[j].op, told[i])

WritersHold ==
    /\ \A op \in applied : op.by # "other"
    /\ \A s \in Setting :
          writer[s].by # "other" => writer[s].setting = s /\ Holds(writer[s], firewall)

Remembered ==
    /\ ToSet(verify) \subseteq applied
    /\ \A i \in 1..Len(events) : AppliedBy(events[i]) => events[i].op \in applied
    /\ WritersHold
    /\ AllExplained(ToSet(verify), events)

ReviewInv ==
    /\ Shape /\ OnePlace /\ PlanPlaced /\ ReportedOnce /\ Remembered
    /\ ArmedNotUndoable /\ FirewallAsReviewed

-----------------------------------------------------------------------------
(* The operators of the model *)

LEMMA AtPlaces ==
    ASSUME NEW S, NEW ops \in Seq(S), NEW places \in SUBSET (1..Len(ops))
    PROVE  /\ At(ops, places) \in Seq(S)
           /\ \A k \in 1..Len(At(ops, places)) : \E i \in places : At(ops, places)[k] = ops[i]
           /\ ToSet(At(ops, places)) = {ops[i] : i \in places}
           /\ At(ops, places) = <<>> <=> places = {}
           /\ Distinct(ops) => Distinct(At(ops, places))
<1> DEFINE n == Cardinality(places)
<1> DEFINE Below(i) == places \cap (1..i)
<1> DEFINE Place(k) == CHOOSE i \in places : Cardinality(Below(i)) = k
<1> DEFINE some == At(ops, places)
<1>1. Len(ops) \in Nat /\ IsFiniteSet(places) /\ n \in Nat
  <2>1. IsFiniteSet(1..Len(ops)) /\ Len(ops) \in Nat
    BY FS_Interval
  <2> QED
    BY <2>1, FS_Subset, FS_CardinalityType
<1>2. \A k \in 1..n : \E i \in places : Cardinality(Below(i)) = k
  BY <1>1, Ranked
<1>3. \A k \in 1..n : Place(k) \in places /\ Cardinality(Below(Place(k))) = k
  BY <1>2
<1>4. some = [k \in 1..n |-> ops[Place(k)]]
  BY DEF At
<1> HIDE DEF Place, Below, some
<1>5. \A i \in places : i \in 1..Len(ops) /\ ops[i] \in S
  OBVIOUS
<1>6. /\ some \in Seq(S) /\ Len(some) = n
      /\ \A k \in 1..n : some[k] = ops[Place(k)]
  <2>1. \A k \in 1..n : ops[Place(k)] \in S
    BY <1>3, <1>5
  <2> QED
    BY <1>1, <1>4, <2>1
<1>7. \A k, m \in 1..n : Place(k) = Place(m) => k = m
  <2> SUFFICES ASSUME NEW k \in 1..n, NEW m \in 1..n, Place(k) = Place(m) PROVE k = m
    OBVIOUS
  <2>1. Cardinality(Below(Place(k))) = k /\ Cardinality(Below(Place(m))) = m
    BY <1>3
  <2> QED
    BY <2>1
<1>8. \A i \in places : \E k \in 1..n : Place(k) = i
  <2> DEFINE place == [k \in 1..n |-> Place(k)]
  <2>1. place \in [1..n -> places]
    BY <1>3
  <2>2. place \in Injection(1..n, places)
    BY <1>7, <2>1 DEF Injection, IsInjective
  <2>3. Cardinality(1..n) = n
    BY <1>1, FS_Interval
  <2>4. place \in Surjection(1..n, places)
    BY <1>1, <2>2, <2>3, FS_Injection
  <2> QED
    BY <2>4 DEF Surjection
<1>9. ToSet(some) = {ops[i] : i \in places}
  <2>1. \A x : x \in ToSet(some) <=> \E k \in 1..n : some[k] = x
    BY <1>6, ElementsOf
  <2>2. \A x : x \in ToSet(some) => \E i \in places : ops[i] = x
    BY <1>3, <1>6, <2>1
  <2>3. \A x : (\E i \in places : ops[i] = x) => x \in ToSet(some)
    BY <1>6, <1>8, <2>1
  <2> QED
    BY <2>2, <2>3
<1>10. some = <<>> <=> places = {}
  <2>1. some = <<>> <=> n = 0
    BY <1>6, NoElements
  <2> QED
    BY <1>1, <2>1, FS_EmptySet
<1>11. ASSUME Distinct(ops) PROVE Distinct(some)
  <2> SUFFICES ASSUME NEW k \in 1..n, NEW m \in 1..n, some[k].id = some[m].id PROVE k = m
    BY <1>6 DEF Distinct
  <2>1. Place(k) \in 1..Len(ops) /\ Place(m) \in 1..Len(ops) /\ ops[Place(k)].id = ops[Place(m)].id
    BY <1>3, <1>5, <1>6
  <2>2. Place(k) = Place(m)
    BY <1>11, <2>1 DEF Distinct
  <2> QED
    BY <1>7, <2>2
<1> QED
  BY <1>3, <1>6, <1>9, <1>10, <1>11 DEF some

(* The undo stack keeps its capacity and gains only what is pushed. *)
LEMMA PushedOnes ==
    ASSUME NEW S, NEW stack \in Seq(S), NEW ops \in Seq(S)
    PROVE  /\ Pushed(stack, ops) \in Seq(S)
           /\ Len(Pushed(stack, ops)) <= UndoCapacity
           /\ ToSet(Pushed(stack, ops)) \subseteq ToSet(stack) \cup ToSet(ops)
<1> DEFINE grown == stack \o ops
<1> DEFINE surplus == IF Len(grown) > UndoCapacity THEN Len(grown) - UndoCapacity ELSE 0
<1>1. grown \in Seq(S) /\ ToSet(grown) = ToSet(stack) \cup ToSet(ops)
  BY Concatenated
<1>2. Pushed(stack, ops) = SubSeq(grown, surplus + 1, Len(grown))
  BY DEF Pushed
<1> HIDE DEF grown
<1>3. Len(grown) \in Nat /\ UndoCapacity \in Nat
  BY <1>1, ReviewAssumption
<1>4. surplus \in 0..Len(grown) /\ Len(grown) - surplus <= UndoCapacity
  BY <1>3
<1> HIDE DEF surplus
<1>5. /\ SubSeq(grown, surplus + 1, Len(grown)) \in Seq(S)
      /\ Len(SubSeq(grown, surplus + 1, Len(grown))) = Len(grown) - surplus
  BY <1>1, <1>4, Suffix
<1>6. ToSet(SubSeq(grown, surplus + 1, Len(grown))) \subseteq ToSet(grown)
  BY <1>1, <1>4, Cut
<1> QED
  BY <1>1, <1>2, <1>4, <1>5, <1>6

(* The numbers of the operations in a list, and what it takes for them to differ. *)
LEMMA NumbersOf ==
    ASSUME NEW S, NEW ops \in Seq(S)
    PROVE  /\ \A n : n \in IdsOf(ops) <=> \E i \in 1..Len(ops) : ops[i].id = n
           /\ \A n : n \in IdsOf(ops) <=> \E op \in ToSet(ops) : op.id = n
           /\ ops = <<>> <=> IdsOf(ops) = {}
<1>1. \A n : n \in IdsOf(ops) <=> \E i \in 1..Len(ops) : ops[i].id = n
  BY DEF IdsOf
<1>2. \A n : n \in IdsOf(ops) => \E op \in ToSet(ops) : op.id = n
  BY <1>1, ElementsOf
<1>3. \A n : (\E op \in ToSet(ops) : op.id = n) => n \in IdsOf(ops)
  BY <1>1, ElementsOf
<1>4. ops = <<>> <=> Len(ops) = 0
  BY NoElements
<1>5. Len(ops) # 0 => ops[1].id \in IdsOf(ops)
  BY <1>1
<1>6. Len(ops) = 0 => IdsOf(ops) = {}
  BY <1>1
<1> QED
  BY <1>1, <1>2, <1>3, <1>4, <1>5, <1>6

LEMMA NumbersOfNone == IdsOf(<<>>) = {} /\ Distinct(<<>>)
  BY OfNothing DEF IdsOf, Distinct

(* A new operation for each of some settings. *)
LEMMA NewOnes ==
    ASSUME NEW settings \in SUBSET Setting, NEW target, made \in Nat,
           made + Cardinality(settings) <= MaxChanges
    PROVE  /\ NewOperations(settings, target) \in Seq(Forward)
           /\ Distinct(NewOperations(settings, target))
           /\ IdsOf(NewOperations(settings, target)) \subseteq (made + 1)..(made + Cardinality(settings))
           /\ Cardinality(settings) \in Nat
<1> DEFINE order == SetToSeq(settings)
<1> DEFINE n == Cardinality(settings)
<1> DEFINE new == NewOperations(settings, target)
<1>1. IsFiniteSet(settings) /\ n \in Nat
  BY ReviewAssumption, FS_Subset, FS_CardinalityType
<1>2. ExistsBijection(1..n, settings)
  BY <1>1, FS_CardinalityType
<1>3. \E f \in [1..n -> settings] : IsInjective(f)
  BY <1>2 DEF ExistsBijection, Bijection, Injection
<1>4. order \in [1..n -> settings]
  BY <1>3 DEF SetToSeq
<1> HIDE DEF order
<1>5. order \in Seq(settings) /\ Len(order) = n
  BY <1>1, <1>4
<1>6. new = [i \in 1..n |-> Operation(made + i, order[i], order[i] \in target, "person")]
  BY <1>5 DEF NewOperations, order
<1> HIDE DEF new
<1>7. ASSUME NEW i \in 1..n
      PROVE  /\ new[i] \in Forward /\ new[i].id = made + i
             /\ made + i \in (made + 1)..(made + n)
  <2>1. order[i] \in Setting
    BY <1>4
  <2>2. made + i \in 1..MaxChanges /\ made + i \in (made + 1)..(made + n)
    BY <1>1, ReviewAssumption
  <2>3. (order[i] \in target) \in BOOLEAN
    OBVIOUS
  <2> QED
    BY <1>6, <2>1, <2>2, <2>3 DEF Operation, Forward
<1>8. new \in Seq(Forward) /\ Len(new) = n
  BY <1>1, <1>6, <1>7
<1>9. IdsOf(new) \subseteq (made + 1)..(made + n)
  BY <1>7, <1>8 DEF IdsOf
<1>10. Distinct(new)
  BY <1>1, <1>7, <1>8 DEF Distinct
<1> QED
  BY <1>1, <1>8, <1>9, <1>10 DEF new

-----------------------------------------------------------------------------
(* Types *)

LEMMA OperationTypes ==
    /\ Forward \subseteq Operations /\ Backward \subseteq Operations
    /\ Forward \subseteq Forward \cup Backward
    /\ \A op \in Forward : op.id \in 1..MaxChanges /\ op.setting \in Setting /\ op.on \in BOOLEAN
                           /\ op.by \in {"person", "undo"} /\ op.by # "rollback" /\ op.by # "other"
    /\ \A op \in Backward : op.id \in 1..MaxChanges /\ op.setting \in Setting /\ op.on \in BOOLEAN
                            /\ op.by = "rollback" /\ op.by # "other"
  BY ReviewAssumption DEF Forward, Backward, Operations, Origins

LEMMA SequencesOf ==
    ASSUME NEW S, NEW T, S \subseteq T, NEW s \in Seq(S) PROVE s \in Seq(T)
  OBVIOUS

LEMMA AskedTypes ==
    ASSUME NEW request \in Asked
    PROVE  /\ request \in Requests
           /\ request = [kind |-> request.kind, ops |-> request.ops, expected |-> request.expected]
           /\ request.kind \in {"Apply", "Plan"} /\ request.ops \in Seq(Forward) /\ request.ops # <<>>
           /\ request.expected \in SUBSET Setting
           /\ request.kind = "Apply" => Len(request.ops) = 1
           /\ request # None
<1>1. /\ request \in [kind : {"Apply", "Plan"}, ops : Seq(Forward), expected : SUBSET Setting]
      /\ request.ops # <<>> /\ (request.kind = "Apply" => Len(request.ops) = 1)
  BY DEF Asked, Sized
<1>2. request.ops \in Seq(Operations)
  BY <1>1, OperationTypes, SequencesOf
<1>3. request \in Requests
  BY <1>1, <1>2 DEF Requests
<1>4. request # None
  BY <1>1 DEF None
<1> QED
  BY <1>1, <1>3, <1>4

LEMMA AskedIs ==
    ASSUME NEW kind \in {"Apply", "Plan"}, NEW ops \in Seq(Forward), ops # <<>>,
           kind = "Apply" => Len(ops) = 1, NEW expected \in SUBSET Setting
    PROVE  [kind |-> kind, ops |-> ops, expected |-> expected] \in Asked
  BY DEF Asked, Sized

LEMMA ToldTypes ==
    ASSUME NEW event \in Told
    PROVE  /\ event \in Events
           /\ event.type \in {"OperationFinished", "PlanFinished", "RefreshFinished"}
           /\ event.type = "OperationFinished" =>
                /\ event.op \in Forward \cup Backward /\ event.outcome \in Outcomes /\ event.armed \in BOOLEAN
                /\ event.armed => event.op \in Forward /\ event.outcome # "Failed"
           /\ event.type = "PlanFinished" => event.remaining \in Seq(Forward)
           /\ event.type = "RefreshFinished" =>
                /\ event.ok \in BOOLEAN
                /\ event.ok => event.settings \in SUBSET Setting /\ event.overtaken \in SUBSET Operations
           /\ Returned(event) \in Seq(Forward)
<1>1. CASE event \in Reports
  <2>1. /\ event \in [type : {"OperationFinished"}, op : Forward \cup Backward, outcome : Outcomes, armed : BOOLEAN]
        /\ event.armed => event.op \in Forward /\ event.outcome # "Failed"
    BY <1>1 DEF Reports, Finishes
  <2>2. event \in Events
    BY <2>1, OperationTypes DEF Events
  <2> QED
    BY <2>1, <2>2, OfNothing DEF Returned
<1>2. CASE event \in Ends
  <2>1. event.type = "PlanFinished" /\ event.remaining \in Seq(Forward)
        /\ event = [type |-> "PlanFinished", remaining |-> event.remaining]
    BY <1>2 DEF Ends
  <2>2. event.remaining \in Seq(Operations)
    BY <2>1, OperationTypes, SequencesOf
  <2>3. event \in Events
    BY <2>1, <2>2 DEF Events
  <2> QED
    BY <2>1, <2>3 DEF Returned
<1>3. CASE event \in Reads
  BY <1>3, OfNothing DEF Reads, Events, Returned
<1>4. CASE event = RefreshFailed
  BY <1>4, OfNothing DEF RefreshFailed, Events, Returned
<1> QED
  BY <1>1, <1>2, <1>3, <1>4 DEF Told

(* What the steps append to the queue of events. *)
LEMMA ToldIs ==
    /\ \A op \in Forward \cup Backward, outcome \in Outcomes, armed \in BOOLEAN :
          (armed => op \in Forward /\ outcome # "Failed") => Finished(op, outcome, armed) \in Told
    /\ \A remaining \in Seq(Forward) : PlanFinished(remaining) \in Told
    /\ RefreshFailed \in Told
<1>1. ASSUME NEW op \in Forward \cup Backward, NEW outcome \in Outcomes, NEW armed \in BOOLEAN,
             armed => op \in Forward /\ outcome # "Failed"
      PROVE  Finished(op, outcome, armed) \in Told
  <2>1. Finished(op, outcome, armed) \in Finishes
    BY DEF Finished, Finishes
  <2>2. Finished(op, outcome, armed).armed = armed /\ Finished(op, outcome, armed).op = op
        /\ Finished(op, outcome, armed).outcome = outcome
    BY DEF Finished
  <2> QED
    BY <1>1, <2>1, <2>2 DEF Told, Reports
<1> QED
  BY <1>1 DEF Told, Ends, PlanFinished

LEMMA RefreshedTold ==
    ASSUME firewall \subseteq Setting, applied \subseteq Operations
    PROVE  Refreshed \in Told
<1>1. Overtaken \in SUBSET Operations
  BY DEF Overtaken
<1> QED
  BY <1>1 DEF Refreshed, Told, Reads

(* An execution keeps the types of what it changes. *)
LEMMA ExecuteTypes ==
    ASSUME Shape, NEW op \in Operations, NEW outcome, Execute(op, outcome)
    PROVE  /\ firewall' \subseteq Setting /\ writer' \in [Setting -> Operations]
           /\ applied' \subseteq Operations
<1>1. op.setting \in Setting
  BY DEF Operations
<1>2. Effect(op, firewall) \subseteq Setting
  BY <1>1 DEF Effect, Shape
<1> QED
  BY <1>1, <1>2 DEF Execute, Shape

LEMMA NoWriterTypes == Setting # {} => NoWriter \in Operations
  BY ReviewAssumption DEF NoWriter, Operation, Operations, Origins

LEMMA ShapeTyped ==
    ASSUME Shape PROVE TypeOK
<1>1. confirm \in Requests \cup {None} /\ lane \in Seq(Requests) /\ events \in Seq(Events)
  <2>1. Asked \subseteq Requests
    BY AskedTypes
  <2>2. Told \subseteq Events
    BY ToldTypes
  <2> QED
    BY <2>1, <2>2, SequencesOf DEF Shape
<1>2. /\ staged \in Seq(Operations) /\ pending \in Seq(Operations) /\ rollbacks \in Seq(Operations)
      /\ verify \in Seq(Operations) /\ undo \in Seq(Operations)
  <2>1. Forward \subseteq Operations /\ Backward \subseteq Operations /\ Forward \cup Backward \subseteq Operations
    BY OperationTypes
  <2> QED
    BY <2>1, SequencesOf DEF Shape
<1>3. work \in Works
  BY DEF Shape, Working
<1> QED
  BY <1>1, <1>2, <1>3 DEF Shape, TypeOK

LEMMA WorkTypes ==
    ASSUME NEW w \in Working
    PROVE  /\ w.kind \in {"None", "Apply", "Plan"} /\ w.left \in Seq(Forward) /\ w.done \in Seq(Operations)
           /\ w.expected \in SUBSET Setting /\ w.halted \in BOOLEAN
           /\ w.kind = "None" => w = Idle
           /\ w.kind = "Apply" => Len(w.left) = 1 /\ ~w.halted
  BY DEF Working, Works

LEMMA IdleTypes == Idle \in Working /\ Idle.left = <<>> /\ Idle.kind = "None" /\ ~Idle.halted
<1>1. Idle.left \in Seq(Forward)
  BY OfNothing DEF Idle
<1>2. Idle \in Works
  BY DEF Idle, Works
<1> QED
  BY <1>1, <1>2 DEF Working, Idle

LEMMA WorkIs ==
    ASSUME NEW kind \in {"Apply", "Plan"}, NEW left \in Seq(Forward), NEW done \in Seq(Operations),
           NEW expected \in SUBSET Setting, NEW halted \in BOOLEAN,
           kind = "Apply" => Len(left) = 1 /\ ~halted
    PROVE  [kind |-> kind, left |-> left, done |-> done, expected |-> expected, halted |-> halted] \in Working
<1> DEFINE w == [kind |-> kind, left |-> left, done |-> done, expected |-> expected, halted |-> halted]
<1>1. left \in Seq(Operations)
  BY OperationTypes, SequencesOf
<1>2. w \in Works
  BY <1>1 DEF Works
<1> QED
  BY <1>2 DEF Working

LEMMA ShapeInit ==
    ASSUME Init PROVE Shape
<1>1. \A s \in Setting : NoWriter \in Operations
  BY NoWriterTypes
<1>2. /\ made \in 0..MaxChanges /\ foreign \in 0..MaxForeign
      /\ Len(undo) <= UndoCapacity /\ Len(events) <= EventCapacity
  BY ReviewAssumption, OfNothing DEF Init
<1>3. firewall \subseteq Setting /\ shown \subseteq Setting
  BY ReviewAssumption DEF Init
<1>4. runs \in [1..MaxChanges -> Nat] /\ writer \in [Setting -> Operations]
  BY <1>1 DEF Init
<1> QED
  BY <1>2, <1>3, <1>4, IdleTypes, OfNothing DEF Init, Shape

(* What a review opens. *)
LEMMA ReviewIs ==
    ASSUME Shape, NEW kind \in {"Apply", "Plan"}, NEW ops \in Seq(Forward), ops # <<>>,
           kind = "Apply" => Len(ops) = 1
    PROVE  Review(kind, ops) \in Asked
  BY AskedIs DEF Review, Shape

LEMMA RequestIs ==
    ASSUME Shape, NEW op \in Forward, RequestOperation(op), confirm \in Asked \cup {None}
    PROVE  /\ confirm' \in Asked \cup {None}
           /\ confirm' = confirm \/ (confirm'.kind = "Apply" /\ confirm'.ops = <<op>> /\ confirm' # None)
<1>1. <<op>> \in Seq(Forward) /\ <<op>> # <<>> /\ Len(<<op>>) = 1
  OBVIOUS
<1>2. Review("Apply", <<op>>) \in Asked
  BY <1>1, ReviewIs
<1>3. Review("Apply", <<op>>) # None
  BY <1>2, AskedTypes
<1> QED
  BY <1>2, <1>3 DEF RequestOperation, Review

(* What a person puts forward is a new operation. *)
LEMMA MadeIs ==
    ASSUME Shape, made < MaxChanges, NEW setting \in Setting, NEW on \in BOOLEAN, NEW by \in {"person", "undo"}
    PROVE  /\ Operation(made + 1, setting, on, by) \in Forward
           /\ Operation(made + 1, setting, on, by).id = made + 1
           /\ made + 1 \in 1..MaxChanges
<1>1. made + 1 \in 1..MaxChanges
  BY ReviewAssumption DEF Shape
<1> QED
  BY <1>1 DEF Operation, Forward

(* What a review of a plan leaves staged and asks for. *)
LEMMA ReviewPlanIs ==
    ASSUME Shape, AtKeys, NEW ops \in Seq(Forward), ReviewPlan(ops)
    PROVE  /\ staged' \in {ops, <<>>}
           /\ confirm' \in Asked \cup {None}
           /\ \/ confirm' = None
              \/ /\ confirm' \in Asked /\ confirm'.kind = "Plan" /\ IdsOf(confirm'.ops) \subseteq IdsOf(ops)
                 /\ Distinct(ops) => Distinct(confirm'.ops)
<1> DEFINE places == {i \in 1..Len(ops) : ~Holds(ops[i], shown)}
<1> DEFINE needed == At(ops, places)
<1>1. places \in SUBSET (1..Len(ops))
  OBVIOUS
<1> HIDE DEF places
<1>2. /\ needed \in Seq(Forward) /\ ToSet(needed) = {ops[i] : i \in places}
      /\ Distinct(ops) => Distinct(needed)
  BY <1>1, AtPlaces
<1>3. IdsOf(needed) \subseteq IdsOf(ops)
  <2>1. \A op \in ToSet(needed) : op \in ToSet(ops)
    BY <1>1, <1>2, ElementsOf
  <2> HIDE DEF needed
  <2> QED
    BY <1>2, <2>1, NumbersOf
<1>4. /\ staged' \in {ops, <<>>}
      /\ confirm' = confirm \/ (needed # <<>> /\ confirm' = Review("Plan", needed))
  BY DEF ReviewPlan, places
<1> HIDE DEF needed
<1>5. confirm = None
  BY DEF AtKeys
<1>6. CASE needed # <<>> /\ confirm' = Review("Plan", needed)
  <2>1. confirm' \in Asked
    BY <1>2, <1>6, ReviewIs
  <2>2. confirm'.kind = "Plan" /\ confirm'.ops = needed
    BY <1>6 DEF Review
  <2> QED
    BY <1>2, <1>3, <1>4, <2>1, <2>2
<1> QED
  BY <1>4, <1>5, <1>6

LEMMA ShapeOfPerson ==
    ASSUME Shape, Person PROVE Shape'
<1> USE DEF screen, lists, changes, engine, history
<1>1. ASSUME NEW setting \in Setting, NEW on \in BOOLEAN, Change(setting, on) PROVE Shape'
  <2> DEFINE op == Operation(made + 1, setting, on, "person")
  <2>1. op \in Forward /\ made + 1 \in 0..MaxChanges
    BY <1>1, MadeIs DEF Change, Shape
  <2>2. confirm' \in Asked \cup {None}
    BY <1>1, <2>1, RequestIs DEF Change, Shape
  <2> QED
    BY <1>1, <2>1, <2>2 DEF Change, Shape
<1>2. CASE Accept
  <2>1. confirm \in Asked
    BY <1>2 DEF Accept, AtKeys, Shape
  <2>2. lane' \in Seq(Asked)
    BY <1>2, <2>1 DEF Accept, Shape
  <2>3. IdsOf(confirm.ops) \subseteq 1..MaxChanges
    <3>1. confirm.ops \in Seq(Forward)
      BY <2>1, AskedTypes
    <3> QED
      BY <3>1, OperationTypes DEF IdsOf
  <2> QED
    BY <1>2, <2>2, <2>3, OfNothing DEF Accept, Shape
<1>3. CASE Stage
  <2>1. confirm \in Asked
    BY <1>3 DEF Stage, AtKeys, Shape
  <2>2. confirm.ops \in Seq(Forward)
    BY <2>1, AskedTypes
  <2>3. staged' \in Seq(Forward)
    BY <1>3, <2>2 DEF Stage, Shape
  <2> QED
    BY <1>3, <2>3 DEF Stage, Shape
<1>4. CASE Cancel
  BY <1>4 DEF Cancel, Shape
<1>5. CASE ApplyStagedPlan
  <2>1. staged' \in {staged, <<>>} /\ confirm' \in Asked \cup {None}
    BY <1>5, ReviewPlanIs DEF ApplyStagedPlan, Shape
  <2>2. staged' \in Seq(Forward)
    BY <2>1, OfNothing DEF Shape
  <2> QED
    BY <1>5, <2>1, <2>2 DEF ApplyStagedPlan, Shape
<1>6. CASE DiscardStagedPlan
  BY <1>6, OfNothing DEF DiscardStagedPlan, Shape
<1>7. ASSUME NEW settings \in SUBSET Setting, Restore(settings) PROVE Shape'
  <2> DEFINE differing == (settings \ shown) \cup (shown \ settings)
  <2>1. differing \in SUBSET Setting /\ made \in Nat /\ made + Cardinality(differing) <= MaxChanges
    BY <1>7 DEF Restore, Shape
  <2>2. /\ staged' = NewOperations(differing, settings) /\ made' = made + Cardinality(differing)
        /\ UNCHANGED <<firewall, screen, plan, changes, lane, rollbacks, engine,
                       foreign, runs, applied, writer, touched>>
    BY <1>7 DEF Restore
  <2> HIDE DEF differing
  <2>3. staged' \in Seq(Forward) /\ Cardinality(differing) \in Nat
    BY <2>1, <2>2, NewOnes
  <2>4. made' \in 0..MaxChanges
    BY <2>1, <2>2, <2>3, ReviewAssumption
  <2> QED
    BY <2>2, <2>3, <2>4 DEF Shape
<1>8. ASSUME NEW marked \in SUBSET shown, BulkDelete(marked) PROVE Shape'
  <2>1. marked \in SUBSET Setting /\ made \in Nat /\ made + Cardinality(marked) <= MaxChanges
    BY <1>8 DEF BulkDelete, Shape
  <2>2. NewOperations(marked, {}) \in Seq(Forward) /\ Cardinality(marked) \in Nat
    BY <2>1, NewOnes
  <2>3. staged \o NewOperations(marked, {}) \in Seq(Forward)
    BY <2>2 DEF Shape
  <2>4. /\ staged' \in {staged \o NewOperations(marked, {}), <<>>}
        /\ confirm' \in Asked \cup {None}
    BY <1>8, <2>3, ReviewPlanIs DEF BulkDelete
  <2>5. staged' \in Seq(Forward)
    BY <2>3, <2>4, OfNothing
  <2>6. made' \in 0..MaxChanges
    BY <1>8, <2>1, <2>2, ReviewAssumption DEF BulkDelete
  <2> QED
    BY <1>8, <2>4, <2>5, <2>6 DEF BulkDelete, Shape
<1>9. CASE KeepChanges
  <2>1. undo' = Pushed(undo, pending) /\ pending' = <<>>
    BY <1>9 DEF KeepChanges
  <2>2. pending \in Seq(Forward \cup Backward) /\ undo \in Seq(Forward \cup Backward)
    BY OperationTypes, SequencesOf DEF Shape
  <2>3. undo' \in Seq(Forward \cup Backward) /\ Len(undo') <= UndoCapacity
    BY <2>1, <2>2, PushedOnes
  <2> QED
    BY <1>9, <2>1, <2>3, OfNothing DEF KeepChanges, Shape
<1>10. CASE UndoLastOperation
  <2>1. undo # <<>> /\ undo \in Seq(Forward \cup Backward) /\ Len(undo) <= UndoCapacity /\ UndoCapacity \in Nat
    BY <1>10, ReviewAssumption DEF UndoLastOperation, Shape
  <2>2. Len(undo) \in Nat \ {0} /\ Last(undo) \in Forward \cup Backward
    BY <2>1, FirstAndRest DEF Last
  <2>3. undo' \in Seq(Forward \cup Backward) /\ Len(undo') = Len(undo) - 1
    <3>1. Len(undo) - 1 \in 0..Len(undo) /\ undo' = SubSeq(undo, 1, Len(undo) - 1)
      BY <1>10, <2>2 DEF UndoLastOperation, Front
    <3> QED
      BY <2>1, <3>1, Prefix
  <2> DEFINE op == InverseOf(Last(undo), made + 1, "undo")
  <2>4. op \in Forward /\ made + 1 \in 0..MaxChanges
    <3>1. Last(undo).setting \in Setting /\ (~Last(undo).on) \in BOOLEAN
      BY <2>2, OperationTypes
    <3>2. made < MaxChanges
      BY <1>10 DEF UndoLastOperation
    <3>3. Operation(made + 1, Last(undo).setting, ~Last(undo).on, "undo") \in Forward /\ made + 1 \in 1..MaxChanges
      BY <3>1, <3>2, MadeIs
    <3> QED
      BY <3>3 DEF InverseOf
  <2>5. confirm' \in Asked \cup {None}
    BY <1>10, <2>4, RequestIs DEF UndoLastOperation, Shape
  <2>6. Len(undo') <= UndoCapacity
    BY <2>1, <2>2, <2>3
  <2> QED
    BY <1>10, <2>3, <2>4, <2>5, <2>6 DEF UndoLastOperation, Shape
<1>11. ASSUME NEW n \in 1..Len(pending), FireRollbacks(n) PROVE Shape'
  <2> DEFINE fired == [i \in 1..n |-> InverseOf(pending[i], pending[i].id, "rollback")]
  <2>1. rollbacks' = rollbacks \o Reverse(fired) /\ pending' = SubSeq(pending, n + 1, Len(pending))
    BY <1>11 DEF FireRollbacks
  <2>2. \A i \in 1..n : InverseOf(pending[i], pending[i].id, "rollback") \in Backward
    <3> SUFFICES ASSUME NEW i \in 1..n PROVE InverseOf(pending[i], pending[i].id, "rollback") \in Backward
      OBVIOUS
    <3>1. pending[i] \in Forward
      BY DEF Shape
    <3>2. (~pending[i].on) \in BOOLEAN
      OBVIOUS
    <3> QED
      BY <3>1, <3>2, OperationTypes DEF InverseOf, Operation, Backward
  <2>3. fired \in Seq(Backward)
    BY <2>2
  <2> HIDE DEF fired
  <2>4. rollbacks' \in Seq(Backward)
    BY <2>1, <2>3, Reversed DEF Shape
  <2>5. pending' \in Seq(Forward)
    BY <2>1, Suffix DEF Shape
  <2> QED
    BY <1>11, <2>4, <2>5 DEF FireRollbacks, Shape
<1> QED
  BY <1>1, <1>2, <1>3, <1>4, <1>5, <1>6, <1>7, <1>8, <1>9, <1>10, <1>11 DEF Person

LEMMA ShapeOfEvents ==
    ASSUME Shape, ConsumeEvent PROVE Shape'
<1> USE DEF screen, lists, changes, engine, history
<1>1. events # <<>> /\ events' = Tail(events) /\ events \in Seq(Told) /\ Len(events) <= EventCapacity
  BY DEF ConsumeEvent, ConsumeFinished, ConsumePlanFinished, ConsumeRefreshed, Shape
<1>2. Head(events) \in Told /\ events' \in Seq(Told) /\ Len(events') = Len(events) - 1 /\ Len(events) \in Nat
  BY <1>1, FirstAndRest
<1>3. Len(events') <= EventCapacity
  BY <1>1, <1>2, ReviewAssumption
<1>4. CASE ConsumeFinished
  <2>1. Head(events).type = "OperationFinished"
    BY <1>4 DEF ConsumeFinished
  <2>2. /\ Head(events).op \in Forward \cup Backward
        /\ Head(events).armed => Head(events).op \in Forward
    BY <1>2, <2>1, ToldTypes
  <2>3. verify' \in Seq(Forward \cup Backward)
    BY <1>4, <2>2 DEF ConsumeFinished, Shape
  <2>4. pending' \in Seq(Forward)
    BY <1>4, <2>2 DEF ConsumeFinished, Shape
  <2> QED
    BY <1>2, <1>3, <1>4, <2>3, <2>4 DEF ConsumeFinished, Shape
<1>5. CASE ConsumePlanFinished
  <2>1. Head(events).type = "PlanFinished"
    BY <1>5 DEF ConsumePlanFinished
  <2>2. Head(events).remaining \in Seq(Forward)
    BY <1>2, <2>1, ToldTypes
  <2>3. staged' \in Seq(Forward)
    BY <1>5, <2>2 DEF ConsumePlanFinished, Shape
  <2> QED
    BY <1>2, <1>3, <1>5, <2>3 DEF ConsumePlanFinished, Shape
<1>6. CASE ConsumeRefreshed
  <2> DEFINE event == Head(events)
  <2> DEFINE stackable == {i \in 1..Len(verify) : Undoable(verify[i], event.settings)}
  <2>1. event.type = "RefreshFinished"
    BY <1>6 DEF ConsumeRefreshed
  <2>2. event.ok \in BOOLEAN /\ (event.ok => event.settings \in SUBSET Setting)
    BY <1>2, <2>1, ToldTypes
  <2>3. /\ stale' = ~event.ok
        /\ event.ok => /\ shown' = event.settings /\ undo' = Pushed(undo, At(verify, stackable))
                       /\ verify' = <<>> /\ applied' = applied \ ToSet(verify)
        /\ ~event.ok => UNCHANGED <<shown, verify, undo, applied>>
        /\ UNCHANGED <<firewall, confirm, lists, pending, lane, rollbacks, work, mustRead,
                       made, foreign, runs, writer, touched>>
    BY <1>6 DEF ConsumeRefreshed
  <2>4. stackable \in SUBSET (1..Len(verify))
    OBVIOUS
  <2> HIDE DEF stackable
  <2>5. At(verify, stackable) \in Seq(Forward \cup Backward)
    BY <2>4, AtPlaces DEF Shape
  <2>6. Pushed(undo, At(verify, stackable)) \in Seq(Forward \cup Backward)
        /\ Len(Pushed(undo, At(verify, stackable))) <= UndoCapacity
    BY <2>5, PushedOnes DEF Shape
  <2> HIDE DEF event
  <2>7. CASE event.ok
    BY <1>2, <1>3, <2>2, <2>3, <2>6, <2>7, OfNothing DEF Shape
  <2>8. CASE ~event.ok
    BY <1>2, <1>3, <2>2, <2>3, <2>8 DEF Shape
  <2> QED
    BY <2>7, <2>8
<1> QED
  BY <1>4, <1>5, <1>6 DEF ConsumeEvent

(* What the engine reports with its steps. *)
LEMMA ReportTypes ==
    ASSUME Shape, EventRoom, NEW event \in Told, events' = Append(events, event)
    PROVE  events' \in Seq(Told) /\ Len(events') <= EventCapacity
<1>1. events' \in Seq(Told) /\ Len(events') = Len(events) + 1 /\ Len(events) \in Nat
  BY Appended DEF Shape
<1> QED
  BY <1>1, ReviewAssumption DEF EventRoom

LEMMA ShapeOfEngine ==
    ASSUME Shape, EngineWork \/ EngineRead \/ \E setting \in Setting : ForeignChange(setting)
    PROVE  Shape'
<1> USE DEF screen, lists, changes, engine, history
<1>1. CASE EngineBegin
  <2> DEFINE request == Head(lane)
  <2> DEFINE failed == Finished(Head(request.ops), "Failed", FALSE)
  <2>1. lane # <<>> /\ EventRoom /\ lane' = Tail(lane) /\ touched' = FALSE
        /\ UNCHANGED <<firewall, screen, lists, changes, rollbacks, made, foreign, runs, applied, writer>>
    BY <1>1 DEF EngineBegin
  <2>2. request \in Asked /\ lane' \in Seq(Asked)
    BY <2>1, FirstAndRest DEF Shape
  <2>3. /\ request.kind \in {"Apply", "Plan"} /\ request.ops \in Seq(Forward) /\ request.ops # <<>>
        /\ request.expected \in SUBSET Setting /\ (request.kind = "Apply" => Len(request.ops) = 1)
    BY <2>2, AskedTypes
  <2>4. Head(request.ops) \in Forward
    BY <2>3, FirstAndRest
  <2>5. failed \in Told
    <3>1. "Failed" \in Outcomes /\ Head(request.ops) \in Forward \cup Backward
      BY <2>4 DEF Outcomes
    <3> QED
      BY <3>1, ToldIs
  <2>6. \/ /\ work' = [kind |-> request.kind, left |-> request.ops, done |-> <<>>,
                       expected |-> request.expected, halted |-> FALSE]
           /\ UNCHANGED <<events, mustRead>>
        \/ /\ events' = Append(events, failed)
           /\ mustRead' = (request.kind = "Apply")
           /\ work' = IF request.kind = "Apply" THEN Idle
                      ELSE [kind |-> "Plan", left |-> request.ops, done |-> <<>>,
                            expected |-> request.expected, halted |-> TRUE]
    BY <1>1 DEF EngineBegin
  <2> HIDE DEF request, failed
  <2>7. work' \in Working
    <3>1. [kind |-> request.kind, left |-> request.ops, done |-> <<>>,
           expected |-> request.expected, halted |-> FALSE] \in Working
      BY <2>3, WorkIs, OfNothing
    <3>2. [kind |-> "Plan", left |-> request.ops, done |-> <<>>,
           expected |-> request.expected, halted |-> TRUE] \in Working
      BY <2>3, WorkIs, OfNothing
    <3> QED
      BY <2>6, <3>1, <3>2, IdleTypes
  <2>8. events' \in Seq(Told) /\ Len(events') <= EventCapacity
    BY <2>1, <2>5, <2>6, ReportTypes DEF Shape
  <2>9. mustRead' \in BOOLEAN
    BY <2>6 DEF Shape
  <2> QED
    BY <2>1, <2>2, <2>7, <2>8, <2>9 DEF Shape
<1>2. CASE EngineExecute
  <2> DEFINE op == Head(work.left)
  <2>1. /\ work.left # <<>> /\ EventRoom /\ work.left \in Seq(Forward) /\ work \in Working
        /\ mustRead' = (work.kind = "Apply") /\ runs' = [runs EXCEPT ![op.id] = @ + 1]
        /\ ~Resting
        /\ UNCHANGED <<screen, lists, changes, lane, rollbacks, made, foreign, touched>>
    BY <1>2, WorkTypes DEF EngineExecute, Shape
  <2>2. op \in Forward /\ op \in Operations /\ Tail(work.left) \in Seq(Forward)
    BY <2>1, FirstAndRest, OperationTypes
  <2>3. PICK outcome \in Outcomes :
            /\ Execute(op, outcome)
            /\ events' = Append(events, Finished(op, outcome, outcome # "Failed" /\ op.setting \in Risky))
            /\ work' = IF work.kind = "Apply" THEN Idle
                       ELSE [work EXCEPT !.left = Tail(@), !.done = Append(@, op),
                                         !.halted = outcome # "Applied"]
    BY <1>2 DEF EngineExecute
  <2> HIDE DEF op
  <2>4. firewall' \subseteq Setting /\ writer' \in [Setting -> Operations] /\ applied' \subseteq Operations
    BY <2>2, <2>3, ExecuteTypes
  <2>5. Finished(op, outcome, outcome # "Failed" /\ op.setting \in Risky) \in Told
    <3> DEFINE armed == outcome # "Failed" /\ op.setting \in Risky
    <3>1. armed \in BOOLEAN /\ (armed => outcome # "Failed")
      OBVIOUS
    <3> HIDE DEF armed
    <3>2. Finished(op, outcome, armed) \in Told
      BY <2>2, <3>1, ToldIs
    <3> QED
      BY <3>2 DEF armed
  <2>6. events' \in Seq(Told) /\ Len(events') <= EventCapacity
    BY <2>1, <2>3, <2>5, ReportTypes
  <2>7. work' \in Working
    <3>1. CASE work.kind = "Apply"
      BY <2>3, <3>1, IdleTypes
    <3>2. CASE work.kind = "Plan"
      <4>1. work.done \in Seq(Operations) /\ work.expected \in SUBSET Setting
        BY <2>1, WorkTypes
      <4>2. Append(work.done, op) \in Seq(Operations)
        BY <2>2, <4>1
      <4>3. work = [kind |-> "Plan", left |-> work.left, done |-> work.done,
                    expected |-> work.expected, halted |-> work.halted]
        BY <2>1, <3>2 DEF Working, Works
      <4>4. work' = [kind |-> "Plan", left |-> Tail(work.left), done |-> Append(work.done, op),
                     expected |-> work.expected, halted |-> outcome # "Applied"]
        BY <2>3, <3>2, <4>3
      <4> QED
        BY <2>2, <4>1, <4>2, <4>4, WorkIs
    <3> QED
      BY <2>1, <3>1, <3>2, WorkTypes DEF Resting
  <2>8. runs' \in [1..MaxChanges -> Nat]
    <3>1. runs \in [1..MaxChanges -> Nat] /\ op.id \in 1..MaxChanges
      BY <2>2, OperationTypes DEF Shape
    <3>2. runs[op.id] + 1 \in Nat
      BY <3>1
    <3> QED
      BY <2>1, <3>1, <3>2
  <2> QED
    BY <2>1, <2>4, <2>6, <2>7, <2>8 DEF Shape
<1>3. CASE EnginePlanDone
  <2>1. PlanFinished(work.left) \in Told
    BY WorkTypes, ToldIs DEF Shape
  <2>2. events' \in Seq(Told) /\ Len(events') <= EventCapacity
    BY <1>3, <2>1, ReportTypes DEF EnginePlanDone
  <2> QED
    BY <1>3, <2>2, IdleTypes DEF EnginePlanDone, Shape
<1>4. CASE EngineRollback
  <2> DEFINE op == Head(rollbacks)
  <2>1. /\ rollbacks # <<>> /\ EventRoom /\ rollbacks' = Tail(rollbacks) /\ mustRead' = TRUE
        /\ UNCHANGED <<screen, lists, changes, lane, work, made, foreign, runs, touched>>
    BY <1>4 DEF EngineRollback
  <2>2. op \in Backward /\ op \in Operations /\ rollbacks' \in Seq(Backward)
    BY <2>1, FirstAndRest, OperationTypes DEF Shape
  <2>3. PICK outcome \in Outcomes :
            Execute(op, outcome) /\ events' = Append(events, Finished(op, outcome, FALSE))
    BY <1>4 DEF EngineRollback
  <2> HIDE DEF op
  <2>4. firewall' \subseteq Setting /\ writer' \in [Setting -> Operations] /\ applied' \subseteq Operations
    BY <2>2, <2>3, ExecuteTypes
  <2>5. Finished(op, outcome, FALSE) \in Told
    BY <2>2, ToldIs
  <2>6. events' \in Seq(Told) /\ Len(events') <= EventCapacity
    BY <2>1, <2>3, <2>5, ReportTypes
  <2> QED
    BY <2>1, <2>2, <2>4, <2>6 DEF Shape
<1>5. CASE EngineRead
  <2>1. PICK event \in {Refreshed, RefreshFailed} : EngineRefresh(event)
    BY <1>5 DEF EngineRead
  <2>2. event \in Told
    BY ToldIs, RefreshedTold DEF Shape
  <2>3. events' \in Seq(Told) /\ Len(events') <= EventCapacity
    BY <2>1, <2>2, ReportTypes DEF EngineRefresh
  <2> QED
    BY <2>1, <2>3 DEF EngineRefresh, Shape
<1>6. ASSUME NEW setting \in Setting, ForeignChange(setting) PROVE Shape'
  <2>1. firewall' \subseteq Setting
    BY <1>6 DEF ForeignChange, Effect, Operation, Shape
  <2>2. writer' \in [Setting -> Operations]
    BY <1>6, NoWriterTypes DEF ForeignChange, Shape
  <2>3. foreign' \in 0..MaxForeign /\ touched' \in BOOLEAN
    BY <1>6, ReviewAssumption DEF ForeignChange, Shape
  <2> QED
    BY <1>6, <2>1, <2>2, <2>3 DEF ForeignChange, Shape
<1> QED
  BY <1>1, <1>2, <1>3, <1>4, <1>5, <1>6 DEF EngineWork

LEMMA ShapeStep ==
    ASSUME Shape, [Next]_vars PROVE Shape'
<1>1. CASE UNCHANGED vars
  BY <1>1 DEF vars, screen, lists, changes, engine, history, Shape
<1> QED
  BY <1>1, ShapeOfPerson, ShapeOfEvents, ShapeOfEngine DEF Next

-----------------------------------------------------------------------------
(* Where operations are *)

LEMMA DistinctRest ==
    ASSUME NEW S, NEW ops \in Seq(S), ops # <<>>
    PROVE  /\ IdsOf(ops) = {Head(ops).id} \cup IdsOf(Tail(ops))
           /\ Distinct(ops) => Distinct(Tail(ops)) /\ Head(ops).id \notin IdsOf(Tail(ops))
<1> DEFINE t == Tail(ops)
<1>1. /\ Len(ops) \in Nat \ {0} /\ Head(ops) = ops[1] /\ t \in Seq(S) /\ Len(t) = Len(ops) - 1
      /\ \A i \in 1..Len(ops) - 1 : t[i] = ops[i + 1]
      /\ ToSet(ops) = {Head(ops)} \cup ToSet(t)
  BY FirstAndRest
<1> HIDE DEF t
<1>2. IdsOf(ops) = {Head(ops).id} \cup IdsOf(t)
  <2>1. \A n : n \in IdsOf(ops) <=> \E op \in ToSet(ops) : op.id = n
    BY NumbersOf
  <2>2. \A n : n \in IdsOf(t) <=> \E op \in ToSet(t) : op.id = n
    BY <1>1, NumbersOf
  <2> QED
    BY <1>1, <2>1, <2>2
<1>3. ASSUME Distinct(ops) PROVE Distinct(t) /\ Head(ops).id \notin IdsOf(t)
  <2>1. \A i \in 1..Len(t) : i + 1 \in 1..Len(ops) /\ t[i] = ops[i + 1] /\ i + 1 # 1
    BY <1>1
  <2>2. 1 \in 1..Len(ops)
    BY <1>1
  <2>3. \A i \in 1..Len(t) : t[i].id # ops[1].id
    BY <1>3, <2>1, <2>2 DEF Distinct
  <2>4. ASSUME NEW i \in 1..Len(t), NEW j \in 1..Len(t), t[i].id = t[j].id PROVE i = j
    <3>1. i + 1 = j + 1
      BY <1>3, <2>1, <2>4 DEF Distinct
    <3> QED
      BY <3>1
  <2> QED
    BY <1>1, <2>3, <2>4 DEF Distinct, IdsOf
<1> QED
  BY <1>2, <1>3 DEF t

LEMMA DistinctJoined ==
    ASSUME NEW S, NEW ops \in Seq(S), NEW more \in Seq(S)
    PROVE  /\ IdsOf(ops \o more) = IdsOf(ops) \cup IdsOf(more)
           /\ Distinct(ops) /\ Distinct(more) /\ IdsOf(ops) \cap IdsOf(more) = {} => Distinct(ops \o more)
<1> DEFINE u == ops \o more
<1>1. /\ u \in Seq(S) /\ Len(u) = Len(ops) + Len(more) /\ ToSet(u) = ToSet(ops) \cup ToSet(more)
      /\ \A i \in 1..Len(ops) : u[i] = ops[i]
      /\ \A i \in 1..Len(more) : u[Len(ops) + i] = more[i]
      /\ \A i \in 1..Len(u) : i \in 1..Len(ops) \/ i - Len(ops) \in 1..Len(more)
  BY Concatenated
<1>2. Len(ops) \in Nat /\ Len(more) \in Nat
  OBVIOUS
<1> HIDE DEF u
<1>3. IdsOf(u) = IdsOf(ops) \cup IdsOf(more)
  <2>1. \A n : n \in IdsOf(u) <=> \E op \in ToSet(u) : op.id = n
    BY <1>1, NumbersOf
  <2>2. \A n : n \in IdsOf(ops) <=> \E op \in ToSet(ops) : op.id = n
    BY NumbersOf
  <2>3. \A n : n \in IdsOf(more) <=> \E op \in ToSet(more) : op.id = n
    BY NumbersOf
  <2> QED
    BY <1>1, <2>1, <2>2, <2>3
<1>4. ASSUME Distinct(ops), Distinct(more), IdsOf(ops) \cap IdsOf(more) = {} PROVE Distinct(u)
  <2>1. ASSUME NEW i \in 1..Len(u)
        PROVE  \/ i \in 1..Len(ops) /\ u[i] = ops[i]
               \/ i - Len(ops) \in 1..Len(more) /\ u[i] = more[i - Len(ops)]
    <3>1. CASE i \in 1..Len(ops)
      BY <1>1, <3>1
    <3>2. CASE i - Len(ops) \in 1..Len(more)
      <4>1. Len(ops) + (i - Len(ops)) = i
        BY <1>2
      <4> QED
        BY <1>1, <3>2, <4>1
    <3> QED
      BY <1>1, <3>1, <3>2
  <2>2. \A i \in 1..Len(ops), j \in 1..Len(more) : ops[i].id # more[j].id
    BY <1>4 DEF IdsOf
  <2> SUFFICES ASSUME NEW i \in 1..Len(u), NEW j \in 1..Len(u), u[i].id = u[j].id PROVE i = j
    BY DEF Distinct
  <2>3. CASE i \in 1..Len(ops) /\ u[i] = ops[i] /\ j \in 1..Len(ops) /\ u[j] = ops[j]
    BY <1>4, <2>3 DEF Distinct
  <2>4. CASE /\ i - Len(ops) \in 1..Len(more) /\ u[i] = more[i - Len(ops)]
             /\ j - Len(ops) \in 1..Len(more) /\ u[j] = more[j - Len(ops)]
    <3>1. i - Len(ops) = j - Len(ops)
      BY <1>4, <2>4 DEF Distinct
    <3> QED
      BY <1>2, <3>1
  <2>5. CASE /\ i \in 1..Len(ops) /\ u[i] = ops[i]
             /\ j - Len(ops) \in 1..Len(more) /\ u[j] = more[j - Len(ops)]
    BY <2>2, <2>5
  <2>6. CASE /\ j \in 1..Len(ops) /\ u[j] = ops[j]
             /\ i - Len(ops) \in 1..Len(more) /\ u[i] = more[i - Len(ops)]
    BY <2>2, <2>6
  <2> QED
    BY <2>1, <2>3, <2>4, <2>5, <2>6
<1> QED
  BY <1>3, <1>4 DEF u

LEMMA DistinctPart ==
    ASSUME NEW S, NEW ops \in Seq(S), NEW n \in 0..Len(ops)
    PROVE  /\ IdsOf(ops) = IdsOf(SubSeq(ops, 1, n)) \cup IdsOf(SubSeq(ops, n + 1, Len(ops)))
           /\ Distinct(ops) =>
                /\ Distinct(SubSeq(ops, 1, n)) /\ Distinct(SubSeq(ops, n + 1, Len(ops)))
                /\ IdsOf(SubSeq(ops, 1, n)) \cap IdsOf(SubSeq(ops, n + 1, Len(ops))) = {}
<1> DEFINE first == SubSeq(ops, 1, n)
<1> DEFINE rest == SubSeq(ops, n + 1, Len(ops))
<1>1. first \in Seq(S) /\ Len(first) = n /\ \A i \in 1..n : first[i] = ops[i]
  BY Prefix
<1>2. rest \in Seq(S) /\ Len(rest) = Len(ops) - n /\ \A i \in 1..Len(ops) - n : rest[i] = ops[i + n]
  BY Suffix
<1>3. ToSet(ops) = ToSet(first) \cup ToSet(rest)
  BY Cut
<1>4. n \in Nat /\ Len(ops) \in Nat /\ n <= Len(ops)
  OBVIOUS
<1> HIDE DEF first, rest
<1>5. IdsOf(ops) = IdsOf(first) \cup IdsOf(rest)
  <2>1. \A m : m \in IdsOf(ops) <=> \E op \in ToSet(ops) : op.id = m
    BY NumbersOf
  <2>2. \A m : m \in IdsOf(first) <=> \E op \in ToSet(first) : op.id = m
    BY <1>1, NumbersOf
  <2>3. \A m : m \in IdsOf(rest) <=> \E op \in ToSet(rest) : op.id = m
    BY <1>2, NumbersOf
  <2> QED
    BY <1>3, <2>1, <2>2, <2>3
<1>6. /\ \A i \in 1..n : i \in 1..Len(ops) /\ first[i] = ops[i]
      /\ \A i \in 1..Len(ops) - n : i + n \in 1..Len(ops) /\ rest[i] = ops[i + n] /\ i + n \notin 1..n
  BY <1>1, <1>2, <1>4
<1>7. ASSUME Distinct(ops) PROVE Distinct(first) /\ Distinct(rest) /\ IdsOf(first) \cap IdsOf(rest) = {}
  <2>1. Distinct(first)
    <3> SUFFICES ASSUME NEW i \in 1..n, NEW j \in 1..n, first[i].id = first[j].id PROVE i = j
      BY <1>1 DEF Distinct
    <3>1. i \in 1..Len(ops) /\ j \in 1..Len(ops) /\ ops[i].id = ops[j].id
      BY <1>6
    <3> QED
      BY <1>7, <3>1 DEF Distinct
  <2>2. ASSUME NEW i \in 1..Len(ops) - n, NEW j \in 1..Len(ops) - n, rest[i].id = rest[j].id PROVE i = j
    <3>1. i + n \in 1..Len(ops) /\ j + n \in 1..Len(ops) /\ ops[i + n].id = ops[j + n].id
      BY <1>6, <2>2
    <3>2. i + n = j + n
      BY <1>7, <3>1 DEF Distinct
    <3> QED
      BY <1>4, <3>2
  <2>3. \A i \in 1..n, j \in 1..Len(ops) - n : first[i].id # rest[j].id
    BY <1>6, <1>7 DEF Distinct
  <2> QED
    BY <1>1, <1>2, <2>1, <2>2, <2>3 DEF Distinct, IdsOf
<1> QED
  BY <1>5, <1>7 DEF first, rest

LEMMA LaneGrows ==
    ASSUME NEW requests \in Seq(Asked), NEW request \in Asked
    PROVE  /\ IdsIn(Append(requests, request)) = IdsIn(requests) \cup IdsOf(request.ops)
           /\ /\ Separate(requests) /\ Distinct(request.ops)
              /\ IdsOf(request.ops) \cap IdsIn(requests) = {}
              => Separate(Append(requests, request))
<1> DEFINE t == Append(requests, request)
<1>1. /\ t \in Seq(Asked) /\ Len(t) = Len(requests) + 1 /\ Len(requests) \in Nat
      /\ \A i \in 1..Len(requests) : t[i] = requests[i]
      /\ t[Len(requests) + 1] = request
  OBVIOUS
<1> HIDE DEF t
<1>2. /\ \A i \in 1..Len(t) : i \in 1..Len(requests) \/ i = Len(requests) + 1
      /\ \A i \in 1..Len(requests) : i \in 1..Len(t)
      /\ Len(requests) + 1 \in 1..Len(t)
  BY <1>1
<1>3. \A n : n \in IdsIn(requests) <=> \E i \in 1..Len(requests) : n \in IdsOf(requests[i].ops)
  BY DEF IdsIn
<1>4. \A n : n \in IdsIn(t) <=> \E i \in 1..Len(t) : n \in IdsOf(t[i].ops)
  BY DEF IdsIn
<1>5. IdsIn(t) = IdsIn(requests) \cup IdsOf(request.ops)
  <2>1. \A n : n \in IdsIn(t) => n \in IdsIn(requests) \cup IdsOf(request.ops)
    BY <1>1, <1>2, <1>3, <1>4
  <2>2. \A n : n \in IdsIn(requests) => n \in IdsIn(t)
    BY <1>1, <1>2, <1>3, <1>4
  <2>3. \A n : n \in IdsOf(request.ops) => n \in IdsIn(t)
    BY <1>1, <1>2, <1>4
  <2> QED
    BY <2>1, <2>2, <2>3
<1>6. ASSUME Separate(requests), Distinct(request.ops), IdsOf(request.ops) \cap IdsIn(requests) = {}
      PROVE  Separate(t)
  <2>1. \A i \in 1..Len(t) : Distinct(t[i].ops)
    BY <1>1, <1>2, <1>6 DEF Separate
  <2>2. \A i \in 1..Len(requests) : IdsOf(requests[i].ops) \cap IdsOf(request.ops) = {}
    BY <1>3, <1>6
  <2>3. \A i, j \in 1..Len(requests) : i # j => IdsOf(requests[i].ops) \cap IdsOf(requests[j].ops) = {}
    BY <1>6 DEF Separate
  <2>4. ASSUME NEW i \in 1..Len(t), NEW j \in 1..Len(t), i # j
        PROVE  IdsOf(t[i].ops) \cap IdsOf(t[j].ops) = {}
    <3>1. CASE i \in 1..Len(requests) /\ j \in 1..Len(requests)
      BY <1>1, <2>3, <2>4, <3>1
    <3>2. CASE i \in 1..Len(requests) /\ j = Len(requests) + 1
      BY <1>1, <2>2, <3>2
    <3>3. CASE j \in 1..Len(requests) /\ i = Len(requests) + 1
      BY <1>1, <2>2, <3>3
    <3> QED
      BY <1>2, <2>4, <3>1, <3>2, <3>3
  <2> QED
    BY <2>1, <2>4 DEF Separate
<1> QED
  BY <1>5, <1>6 DEF t

LEMMA LaneShrinks ==
    ASSUME NEW requests \in Seq(Asked), requests # <<>>
    PROVE  /\ IdsIn(requests) = IdsOf(Head(requests).ops) \cup IdsIn(Tail(requests))
           /\ Separate(requests) =>
                /\ Separate(Tail(requests)) /\ Distinct(Head(requests).ops)
                /\ IdsOf(Head(requests).ops) \cap IdsIn(Tail(requests)) = {}
<1> DEFINE t == Tail(requests)
<1>1. /\ Len(requests) \in Nat \ {0} /\ Head(requests) = requests[1]
      /\ t \in Seq(Asked) /\ Len(t) = Len(requests) - 1
      /\ \A i \in 1..Len(requests) - 1 : t[i] = requests[i + 1]
  BY FirstAndRest
<1> HIDE DEF t
<1>2. /\ \A i \in 1..Len(t) : i + 1 \in 1..Len(requests) /\ t[i] = requests[i + 1] /\ i + 1 # 1
      /\ \A i \in 1..Len(requests) : i = 1 \/ (i - 1 \in 1..Len(t) /\ requests[i] = t[i - 1])
      /\ 1 \in 1..Len(requests)
  BY <1>1
<1>3. \A n : n \in IdsIn(requests) <=> \E i \in 1..Len(requests) : n \in IdsOf(requests[i].ops)
  BY DEF IdsIn
<1>4. \A n : n \in IdsIn(t) <=> \E i \in 1..Len(t) : n \in IdsOf(t[i].ops)
  BY DEF IdsIn
<1>5. IdsIn(requests) = IdsOf(requests[1].ops) \cup IdsIn(t)
  <2>1. ASSUME NEW n \in IdsIn(requests) PROVE n \in IdsIn(t) \cup IdsOf(requests[1].ops)
    <3>1. PICK i \in 1..Len(requests) : n \in IdsOf(requests[i].ops)
      BY <1>3
    <3>2. CASE i = 1
      BY <3>1, <3>2
    <3>3. CASE i - 1 \in 1..Len(t) /\ requests[i] = t[i - 1]
      BY <1>4, <3>1, <3>3
    <3> QED
      BY <1>2, <3>2, <3>3
  <2>2. \A n : n \in IdsIn(t) => n \in IdsIn(requests)
    BY <1>2, <1>3, <1>4
  <2>3. \A n : n \in IdsOf(requests[1].ops) => n \in IdsIn(requests)
    BY <1>2, <1>3
  <2> QED
    BY <2>1, <2>2, <2>3
<1>6. ASSUME Separate(requests)
      PROVE  /\ Separate(t) /\ Distinct(requests[1].ops)
             /\ IdsOf(requests[1].ops) \cap IdsIn(t) = {}
  <2>1. \A i, j \in 1..Len(requests) : i # j => IdsOf(requests[i].ops) \cap IdsOf(requests[j].ops) = {}
    BY <1>6 DEF Separate
  <2>2. \A i \in 1..Len(t) : IdsOf(requests[1].ops) \cap IdsOf(t[i].ops) = {}
    BY <1>2, <2>1
  <2>3. IdsOf(requests[1].ops) \cap IdsIn(t) = {}
    BY <1>4, <2>2
  <2>4. ASSUME NEW i \in 1..Len(t), NEW j \in 1..Len(t), i # j
        PROVE  IdsOf(t[i].ops) \cap IdsOf(t[j].ops) = {}
    <3>1. i + 1 # j + 1
      BY <2>4
    <3> QED
      BY <1>2, <2>1, <3>1
  <2>5. \A i \in 1..Len(requests) : Distinct(requests[i].ops)
    BY <1>6 DEF Separate
  <2> QED
    BY <1>2, <2>3, <2>4, <2>5 DEF Separate
<1> QED
  BY <1>1, <1>5, <1>6 DEF t

LEMMA ReturnsGrow ==
    ASSUME NEW told \in Seq(Told), NEW event \in Told
    PROVE  /\ ReturnedBy(Append(told, event)) = ReturnedBy(told) \cup IdsOf(Returned(event))
           /\ /\ SeparateReturns(told) /\ Distinct(Returned(event))
              /\ IdsOf(Returned(event)) \cap ReturnedBy(told) = {}
              => SeparateReturns(Append(told, event))
<1> DEFINE t == Append(told, event)
<1>1. /\ t \in Seq(Told) /\ Len(t) = Len(told) + 1 /\ Len(told) \in Nat
      /\ \A i \in 1..Len(told) : t[i] = told[i]
      /\ t[Len(told) + 1] = event
  OBVIOUS
<1> HIDE DEF t
<1>2. /\ \A i \in 1..Len(t) : i \in 1..Len(told) \/ i = Len(told) + 1
      /\ \A i \in 1..Len(told) : i \in 1..Len(t)
      /\ Len(told) + 1 \in 1..Len(t)
  BY <1>1
<1>3. \A n : n \in ReturnedBy(told) <=> \E i \in 1..Len(told) : n \in IdsOf(Returned(told[i]))
  BY DEF ReturnedBy
<1>4. \A n : n \in ReturnedBy(t) <=> \E i \in 1..Len(t) : n \in IdsOf(Returned(t[i]))
  BY DEF ReturnedBy
<1>5. ReturnedBy(t) = ReturnedBy(told) \cup IdsOf(Returned(event))
  <2>1. \A n : n \in ReturnedBy(t) => n \in ReturnedBy(told) \cup IdsOf(Returned(event))
    BY <1>1, <1>2, <1>3, <1>4
  <2>2. \A n : n \in ReturnedBy(told) => n \in ReturnedBy(t)
    BY <1>1, <1>2, <1>3, <1>4
  <2>3. \A n : n \in IdsOf(Returned(event)) => n \in ReturnedBy(t)
    BY <1>1, <1>2, <1>4
  <2> QED
    BY <2>1, <2>2, <2>3
<1>6. ASSUME SeparateReturns(told), Distinct(Returned(event)), IdsOf(Returned(event)) \cap ReturnedBy(told) = {}
      PROVE  SeparateReturns(t)
  <2>1. \A i \in 1..Len(t) : Distinct(Returned(t[i]))
    BY <1>1, <1>2, <1>6 DEF SeparateReturns
  <2>2. \A i \in 1..Len(told) : IdsOf(Returned(told[i])) \cap IdsOf(Returned(event)) = {}
    BY <1>3, <1>6
  <2>3. \A i, j \in 1..Len(told) : i # j => IdsOf(Returned(told[i])) \cap IdsOf(Returned(told[j])) = {}
    BY <1>6 DEF SeparateReturns
  <2>4. ASSUME NEW i \in 1..Len(t), NEW j \in 1..Len(t), i # j
        PROVE  IdsOf(Returned(t[i])) \cap IdsOf(Returned(t[j])) = {}
    <3>1. CASE i \in 1..Len(told) /\ j \in 1..Len(told)
      BY <1>1, <2>3, <2>4, <3>1
    <3>2. CASE i \in 1..Len(told) /\ j = Len(told) + 1
      BY <1>1, <2>2, <3>2
    <3>3. CASE j \in 1..Len(told) /\ i = Len(told) + 1
      BY <1>1, <2>2, <3>3
    <3> QED
      BY <1>2, <2>4, <3>1, <3>2, <3>3
  <2> QED
    BY <2>1, <2>4 DEF SeparateReturns
<1> QED
  BY <1>5, <1>6 DEF t

LEMMA ReturnsShrink ==
    ASSUME NEW told \in Seq(Told), told # <<>>
    PROVE  /\ ReturnedBy(told) = IdsOf(Returned(Head(told))) \cup ReturnedBy(Tail(told))
           /\ SeparateReturns(told) =>
                /\ SeparateReturns(Tail(told)) /\ Distinct(Returned(Head(told)))
                /\ IdsOf(Returned(Head(told))) \cap ReturnedBy(Tail(told)) = {}
<1> DEFINE t == Tail(told)
<1>1. /\ Len(told) \in Nat \ {0} /\ Head(told) = told[1]
      /\ t \in Seq(Told) /\ Len(t) = Len(told) - 1
      /\ \A i \in 1..Len(told) - 1 : t[i] = told[i + 1]
  BY FirstAndRest
<1> HIDE DEF t
<1>2. /\ \A i \in 1..Len(t) : i + 1 \in 1..Len(told) /\ t[i] = told[i + 1] /\ i + 1 # 1
      /\ \A i \in 1..Len(told) : i = 1 \/ (i - 1 \in 1..Len(t) /\ told[i] = t[i - 1])
      /\ 1 \in 1..Len(told)
  BY <1>1
<1>3. \A n : n \in ReturnedBy(told) <=> \E i \in 1..Len(told) : n \in IdsOf(Returned(told[i]))
  BY DEF ReturnedBy
<1>4. \A n : n \in ReturnedBy(t) <=> \E i \in 1..Len(t) : n \in IdsOf(Returned(t[i]))
  BY DEF ReturnedBy
<1>5. ReturnedBy(told) = IdsOf(Returned(told[1])) \cup ReturnedBy(t)
  <2>1. ASSUME NEW n \in ReturnedBy(told) PROVE n \in ReturnedBy(t) \cup IdsOf(Returned(told[1]))
    <3>1. PICK i \in 1..Len(told) : n \in IdsOf(Returned(told[i]))
      BY <1>3
    <3>2. CASE i = 1
      BY <3>1, <3>2
    <3>3. CASE i - 1 \in 1..Len(t) /\ told[i] = t[i - 1]
      BY <1>4, <3>1, <3>3
    <3> QED
      BY <1>2, <3>2, <3>3
  <2>2. \A n : n \in ReturnedBy(t) => n \in ReturnedBy(told)
    BY <1>2, <1>3, <1>4
  <2>3. \A n : n \in IdsOf(Returned(told[1])) => n \in ReturnedBy(told)
    BY <1>2, <1>3
  <2> QED
    BY <2>1, <2>2, <2>3
<1>6. ASSUME SeparateReturns(told)
      PROVE  /\ SeparateReturns(t) /\ Distinct(Returned(told[1]))
             /\ IdsOf(Returned(told[1])) \cap ReturnedBy(t) = {}
  <2>1. \A i, j \in 1..Len(told) : i # j => IdsOf(Returned(told[i])) \cap IdsOf(Returned(told[j])) = {}
    BY <1>6 DEF SeparateReturns
  <2>2. \A i \in 1..Len(t) : IdsOf(Returned(told[1])) \cap IdsOf(Returned(t[i])) = {}
    BY <1>2, <2>1
  <2>3. IdsOf(Returned(told[1])) \cap ReturnedBy(t) = {}
    BY <1>4, <2>2
  <2>4. ASSUME NEW i \in 1..Len(t), NEW j \in 1..Len(t), i # j
        PROVE  IdsOf(Returned(t[i])) \cap IdsOf(Returned(t[j])) = {}
    <3>1. i + 1 # j + 1
      BY <2>4
    <3> QED
      BY <1>2, <2>1, <3>1
  <2>5. \A i \in 1..Len(told) : Distinct(Returned(told[i]))
    BY <1>6 DEF SeparateReturns
  <2> QED
    BY <1>2, <2>3, <2>4, <2>5 DEF SeparateReturns
<1> QED
  BY <1>1, <1>5, <1>6 DEF t

(* Steps that leave all of these lists alone. *)
LEMMA SamePlaces ==
    ASSUME OnePlace, UNCHANGED <<staged, confirm, lane, work, events, runs, made>>
    PROVE  OnePlace'
  BY DEF OnePlace, OnePlaceOf, Executed

(* An event that returns nothing. *)
LEMMA QuietEvent ==
    ASSUME Shape, NEW event \in Told, event.type # "PlanFinished", events' = Append(events, event)
    PROVE  /\ ReturnedBy(events') = ReturnedBy(events)
           /\ SeparateReturns(events) => SeparateReturns(events')
<1>1. Returned(event) = <<>>
  BY DEF Returned
<1>2. events \in Seq(Told)
  BY DEF Shape
<1>3. /\ ReturnedBy(events') = ReturnedBy(events) \cup IdsOf(Returned(event))
      /\ /\ SeparateReturns(events) /\ Distinct(Returned(event))
         /\ IdsOf(Returned(event)) \cap ReturnedBy(events) = {}
         => SeparateReturns(events')
  BY <1>2, ReturnsGrow
<1> QED
  BY <1>1, <1>3, NumbersOfNone

LEMMA NoneHolds == IdsOf(None.ops) = {} /\ Distinct(None.ops) /\ None.kind = "None"
  BY NumbersOfNone DEF None

(* A request for one new operation. *)
LEMMA OneNew ==
    ASSUME NEW op \in Forward
    PROVE  IdsOf(<<op>>) = {op.id} /\ Distinct(<<op>>)
<1>1. Len(<<op>>) = 1 /\ <<op>>[1] = op
  OBVIOUS
<1> QED
  BY <1>1 DEF IdsOf, Distinct

LEMMA NewRequestPlaced ==
    ASSUME Shape, OnePlace, AtKeys, NEW op \in Forward, op.id = made + 1, RequestOperation(op),
           made' = made + 1, UNCHANGED <<staged, lane, work, events, runs>>
    PROVE  OnePlace'
<1>1. confirm = None /\ made \in Nat
  BY DEF AtKeys, Shape
<1>2. confirm' = None \/ (confirm'.kind = "Apply" /\ confirm'.ops = <<op>>)
  BY <1>1, RequestIs
<1>3. Distinct(confirm'.ops) /\ IdsOf(confirm'.ops) \subseteq {made + 1}
  BY <1>2, NoneHolds, OneNew
<1> DEFINE S == IdsOf(staged)
<1> DEFINE L == IdsIn(lane)
<1> DEFINE W == IdsOf(work.left)
<1> DEFINE E == ReturnedBy(events)
<1> DEFINE X == Executed
<1> DEFINE C == IdsOf(confirm'.ops)
<1>4. OnePlaceOf(S, {}, L, W, E, X, made)
  BY <1>1, NoneHolds DEF OnePlace
<1>5. \A n \in 1..made : n \in 1..made' /\ n # made + 1
  BY <1>1
<1>6. made + 1 \in 1..made'
  BY <1>1
<1>7. C \subseteq {made + 1}
  BY <1>3
<1> HIDE DEF S, L, W, E, X, C
<1>9. S \cup L \cup W \cup E \cup X \subseteq 1..made
  BY <1>4 DEF OnePlaceOf
<1>10. OnePlaceOf(S, C, L, W, E, X, made')
  <2>1. C \cap (S \cup L \cup W \cup E \cup X) = {}
    BY <1>5, <1>7, <1>9
  <2>2. S \cup C \cup L \cup W \cup E \cup X \subseteq 1..made'
    BY <1>5, <1>6, <1>7, <1>9
  <2> QED
    BY <1>4, <2>1, <2>2 DEF OnePlaceOf
<1>11. S \cap C = {}
  BY <1>5, <1>7, <1>9
<1>12. Executed' = X
  BY DEF Executed, X
<1> QED
  BY <1>3, <1>10, <1>11, <1>12 DEF OnePlace, S, C, L, W, E

(* Operations that are made now are nowhere yet. *)
LEMMA NowhereYet ==
    ASSUME NEW S, NEW C, NEW L, NEW W, NEW E, NEW X, NEW last \in Nat, NEW next \in Nat, last <= next,
           OnePlaceOf(S, C, L, W, E, X, last), NEW N, N \subseteq (last + 1)..next
    PROVE  /\ N \cap (S \cup C \cup L \cup W \cup E \cup X) = {}
           /\ S \cup C \cup L \cup W \cup E \cup X \cup N \subseteq 1..next
<1>1. S \cup C \cup L \cup W \cup E \cup X \subseteq 1..last
  BY DEF OnePlaceOf
<1>2. \A n \in 1..last : n \in 1..next /\ n \notin (last + 1)..next
  OBVIOUS
<1>3. \A n \in (last + 1)..next : n \in 1..next
  OBVIOUS
<1> QED
  BY <1>1, <1>2, <1>3

LEMMA OnePlaceOfPerson ==
    ASSUME Shape, OnePlace, Person PROVE OnePlace'
<1> USE DEF screen, lists, changes, engine, history
<1>1. ASSUME NEW setting \in Setting, NEW on \in BOOLEAN, Change(setting, on) PROVE OnePlace'
  <2> DEFINE op == Operation(made + 1, setting, on, "person")
  <2>1. op \in Forward /\ op.id = made + 1
    BY <1>1, MadeIs DEF Change
  <2>2. /\ AtKeys /\ RequestOperation(op) /\ made' = made + 1
        /\ UNCHANGED <<staged, lane, work, events, runs>>
    BY <1>1 DEF Change
  <2> HIDE DEF op
  <2> QED
    BY <2>1, <2>2, NewRequestPlaced
<1>2. CASE Accept
  <2>1. /\ lane' = Append(lane, confirm) /\ confirm' = None /\ confirm # None
        /\ confirm.kind = "Plan" => staged' = <<>>
        /\ confirm.kind # "Plan" => staged' = staged
        /\ UNCHANGED <<work, events, runs, made>>
    BY <1>2 DEF Accept, AtKeys
  <2>2. confirm \in Asked /\ lane \in Seq(Asked) /\ confirm.kind \in {"Apply", "Plan"}
    BY <2>1, AskedTypes DEF Shape
  <2>3. Distinct(staged') /\ Distinct(confirm'.ops) /\ Distinct(work'.left) /\ SeparateReturns(events')
    BY <2>1, <2>2, NoneHolds, NumbersOfNone DEF OnePlace
  <2>4. IdsOf(staged') \subseteq IdsOf(staged) /\ IdsOf(staged') \cap IdsOf(confirm.ops) = {}
    BY <2>1, <2>2, NumbersOfNone DEF OnePlace
  <2>5. OnePlaceOf(IdsOf(staged), IdsOf(confirm.ops), IdsIn(lane), IdsOf(work.left),
                   ReturnedBy(events), Executed, made)
    BY DEF OnePlace
  <2>6. IdsIn(lane') = IdsIn(lane) \cup IdsOf(confirm.ops) /\ Separate(lane')
    <3>1. IdsOf(confirm.ops) \cap IdsIn(lane) = {}
      BY <2>5 DEF OnePlaceOf
    <3>2. Distinct(confirm.ops) /\ Separate(lane)
      BY DEF OnePlace
    <3> QED
      BY <2>1, <2>2, <3>1, <3>2, LaneGrows
  <2>7. OnePlaceOf(IdsOf(staged'), {}, IdsIn(lane'), IdsOf(work.left),
                   ReturnedBy(events), Executed, made)
    BY <2>4, <2>5, <2>6 DEF OnePlaceOf
  <2>8. Executed' = Executed
    BY <2>1 DEF Executed
  <2>9. \A n \in 1..MaxChanges : runs'[n] <= 1
    BY <2>1 DEF OnePlace
  <2> QED
    BY <2>1, <2>3, <2>6, <2>7, <2>8, <2>9, NoneHolds DEF OnePlace
<1>3. CASE Stage
  <2>1. /\ confirm' = None /\ confirm # None
        /\ confirm.kind = "Apply" => staged' = staged \o confirm.ops
        /\ confirm.kind # "Apply" => staged' = staged
        /\ UNCHANGED <<lane, work, events, runs, made>>
    BY <1>3 DEF Stage, AtKeys
  <2>2. confirm.ops \in Seq(Forward) /\ staged \in Seq(Forward) /\ confirm.kind \in {"Apply", "Plan"}
    BY <2>1, AskedTypes DEF Shape
  <2>3. /\ Distinct(staged) /\ Distinct(confirm.ops)
        /\ confirm.kind = "Apply" => IdsOf(staged) \cap IdsOf(confirm.ops) = {}
    BY DEF OnePlace
  <2>4. Distinct(staged') /\ IdsOf(staged') \subseteq IdsOf(staged) \cup IdsOf(confirm.ops)
    <3>1. CASE confirm.kind = "Apply"
      <4>1. IdsOf(staged) \cap IdsOf(confirm.ops) = {}
        BY <2>3, <3>1
      <4>2. /\ IdsOf(staged \o confirm.ops) = IdsOf(staged) \cup IdsOf(confirm.ops)
            /\ Distinct(staged \o confirm.ops)
        BY <2>2, <2>3, <4>1, DistinctJoined
      <4> QED
        BY <2>1, <3>1, <4>2
    <3>2. CASE confirm.kind # "Apply"
      BY <2>1, <2>3, <3>2
    <3> QED
      BY <3>1, <3>2
  <2>5. OnePlaceOf(IdsOf(staged'), {}, IdsIn(lane), IdsOf(work.left), ReturnedBy(events), Executed, made)
    BY <2>4 DEF OnePlace, OnePlaceOf
  <2>6. Executed' = Executed
    BY <2>1 DEF Executed
  <2> QED
    BY <2>1, <2>4, <2>5, <2>6, NoneHolds DEF OnePlace
<1>4. CASE Cancel
  <2>1. confirm' = None /\ UNCHANGED <<staged, lane, work, events, runs, made>>
    BY <1>4 DEF Cancel
  <2>2. OnePlaceOf(IdsOf(staged), {}, IdsIn(lane), IdsOf(work.left), ReturnedBy(events), Executed, made)
    BY DEF OnePlace, OnePlaceOf
  <2>3. Executed' = Executed
    BY <2>1 DEF Executed
  <2> QED
    BY <2>1, <2>2, <2>3, NoneHolds DEF OnePlace
<1>5. CASE ApplyStagedPlan
  <2>1. /\ AtKeys /\ ReviewPlan(staged) /\ UNCHANGED <<lane, work, events, runs, made>>
    BY <1>5 DEF ApplyStagedPlan
  <2>2. /\ staged' \in {staged, <<>>}
        /\ \/ confirm' = None
           \/ /\ confirm'.kind = "Plan" /\ IdsOf(confirm'.ops) \subseteq IdsOf(staged)
              /\ Distinct(staged) => Distinct(confirm'.ops)
    BY <2>1, ReviewPlanIs DEF Shape
  <2>3. Distinct(staged') /\ IdsOf(staged') \subseteq IdsOf(staged)
    BY <2>2, NumbersOfNone DEF OnePlace
  <2>4. Distinct(confirm'.ops) /\ IdsOf(confirm'.ops) \subseteq IdsOf(staged) /\ confirm'.kind # "Apply"
    BY <2>2, NoneHolds DEF OnePlace
  <2>5. OnePlaceOf(IdsOf(staged'), IdsOf(confirm'.ops), IdsIn(lane), IdsOf(work.left),
                   ReturnedBy(events), Executed, made)
    BY <2>3, <2>4 DEF OnePlace, OnePlaceOf
  <2>6. Executed' = Executed
    BY <2>1 DEF Executed
  <2> QED
    BY <2>1, <2>3, <2>4, <2>5, <2>6 DEF OnePlace
<1>6. CASE DiscardStagedPlan
  <2>1. staged' = <<>> /\ UNCHANGED <<confirm, lane, work, events, runs, made>>
    BY <1>6 DEF DiscardStagedPlan
  <2>2. OnePlaceOf({}, IdsOf(confirm.ops), IdsIn(lane), IdsOf(work.left), ReturnedBy(events), Executed, made)
    BY DEF OnePlace, OnePlaceOf
  <2>3. Executed' = Executed
    BY <2>1 DEF Executed
  <2> QED
    BY <2>1, <2>2, <2>3, NumbersOfNone DEF OnePlace
<1>7. ASSUME NEW settings \in SUBSET Setting, Restore(settings) PROVE OnePlace'
  <2> DEFINE differing == (settings \ shown) \cup (shown \ settings)
  <2>1. differing \in SUBSET Setting /\ made \in Nat /\ made + Cardinality(differing) <= MaxChanges
    BY <1>7 DEF Restore, Shape
  <2>2. /\ staged' = NewOperations(differing, settings) /\ made' = made + Cardinality(differing)
        /\ confirm = None /\ UNCHANGED <<confirm, lane, work, events, runs>>
    BY <1>7 DEF Restore, AtKeys
  <2> HIDE DEF differing
  <2>3. /\ Distinct(staged') /\ Cardinality(differing) \in Nat
        /\ IdsOf(staged') \subseteq (made + 1)..made'
    BY <2>1, <2>2, NewOnes
  <2>4. made' \in Nat /\ made <= made'
    BY <2>1, <2>2, <2>3
  <2>5. OnePlaceOf({}, {}, IdsIn(lane), IdsOf(work.left), ReturnedBy(events), Executed, made)
    BY DEF OnePlace, OnePlaceOf
  <2>6. OnePlaceOf(IdsOf(staged'), {}, IdsIn(lane), IdsOf(work.left), ReturnedBy(events), Executed, made')
    <3>1. /\ IdsOf(staged') \cap (IdsIn(lane) \cup IdsOf(work.left) \cup ReturnedBy(events) \cup Executed) = {}
          /\ IdsOf(staged') \cup IdsIn(lane) \cup IdsOf(work.left) \cup ReturnedBy(events) \cup Executed
                \subseteq 1..made'
      BY <2>1, <2>3, <2>4, <2>5, NowhereYet
    <3> QED
      BY <2>5, <3>1 DEF OnePlaceOf
  <2>7. Executed' = Executed
    BY <2>2 DEF Executed
  <2> QED
    BY <2>2, <2>3, <2>6, <2>7, NoneHolds DEF OnePlace
<1>8. ASSUME NEW marked \in SUBSET shown, BulkDelete(marked) PROVE OnePlace'
  <2> DEFINE new == NewOperations(marked, {})
  <2>1. marked \in SUBSET Setting /\ made \in Nat /\ made + Cardinality(marked) <= MaxChanges
    BY <1>8 DEF BulkDelete, Shape
  <2>2. /\ AtKeys /\ confirm = None /\ ReviewPlan(staged \o new) /\ made' = made + Cardinality(marked)
        /\ UNCHANGED <<lane, work, events, runs>>
    BY <1>8 DEF BulkDelete, AtKeys
  <2>3. /\ new \in Seq(Forward) /\ Distinct(new) /\ Cardinality(marked) \in Nat
        /\ IdsOf(new) \subseteq (made + 1)..made'
    BY <2>1, <2>2, NewOnes
  <2> HIDE DEF new
  <2>4. made' \in Nat /\ made <= made'
    BY <2>1, <2>2, <2>3
  <2>5. OnePlaceOf(IdsOf(staged), {}, IdsIn(lane), IdsOf(work.left), ReturnedBy(events), Executed, made)
    BY DEF OnePlace, OnePlaceOf
  <2>6. /\ IdsOf(new) \cap (IdsOf(staged) \cup IdsIn(lane) \cup IdsOf(work.left)
                              \cup ReturnedBy(events) \cup Executed) = {}
        /\ IdsOf(staged) \cup IdsIn(lane) \cup IdsOf(work.left) \cup ReturnedBy(events)
              \cup Executed \cup IdsOf(new) \subseteq 1..made'
    BY <2>1, <2>3, <2>4, <2>5, NowhereYet
  <2> DEFINE ops == staged \o new
  <2>7. ops \in Seq(Forward) /\ Distinct(ops) /\ IdsOf(ops) = IdsOf(staged) \cup IdsOf(new)
    <3>1. IdsOf(staged) \cap IdsOf(new) = {} /\ Distinct(staged) /\ staged \in Seq(Forward)
      BY <2>6 DEF OnePlace, Shape
    <3> QED
      BY <2>3, <3>1, Concatenated, DistinctJoined
  <2>8. ReviewPlan(ops)
    BY <2>2
  <2> HIDE DEF ops
  <2>9. /\ staged' \in {ops, <<>>}
        /\ \/ confirm' = None
           \/ /\ confirm'.kind = "Plan" /\ IdsOf(confirm'.ops) \subseteq IdsOf(ops)
              /\ Distinct(ops) => Distinct(confirm'.ops)
    BY <2>2, <2>7, <2>8, ReviewPlanIs
  <2>10. Distinct(staged') /\ IdsOf(staged') \subseteq IdsOf(staged) \cup IdsOf(new)
    BY <2>7, <2>9, NumbersOfNone
  <2>11. /\ Distinct(confirm'.ops) /\ IdsOf(confirm'.ops) \subseteq IdsOf(staged) \cup IdsOf(new)
         /\ confirm'.kind # "Apply"
    BY <2>7, <2>9, NoneHolds
  <2>12. OnePlaceOf(IdsOf(staged'), IdsOf(confirm'.ops), IdsIn(lane), IdsOf(work.left),
                    ReturnedBy(events), Executed, made')
    BY <2>5, <2>6, <2>10, <2>11 DEF OnePlaceOf
  <2>13. Executed' = Executed
    BY <2>2 DEF Executed
  <2> QED
    BY <2>2, <2>10, <2>11, <2>12, <2>13 DEF OnePlace
<1>9. CASE KeepChanges
  BY <1>9, SamePlaces DEF KeepChanges
<1>10. CASE UndoLastOperation
  <2> DEFINE op == InverseOf(Last(undo), made + 1, "undo")
  <2>1. undo # <<>> /\ undo \in Seq(Forward \cup Backward) /\ made < MaxChanges
    BY <1>10 DEF UndoLastOperation, Shape
  <2>2. Last(undo) \in Forward \cup Backward
    BY <2>1, FirstAndRest DEF Last
  <2>3. Last(undo).setting \in Setting /\ (~Last(undo).on) \in BOOLEAN
    BY <2>2, OperationTypes
  <2>4. op \in Forward /\ op.id = made + 1
    <3>1. /\ Operation(made + 1, Last(undo).setting, ~Last(undo).on, "undo") \in Forward
          /\ Operation(made + 1, Last(undo).setting, ~Last(undo).on, "undo").id = made + 1
      BY <2>1, <2>3, MadeIs
    <3> QED
      BY <3>1 DEF InverseOf
  <2>5. /\ AtKeys /\ RequestOperation(op) /\ made' = made + 1
        /\ UNCHANGED <<staged, lane, work, events, runs>>
    BY <1>10 DEF UndoLastOperation
  <2> HIDE DEF op
  <2> QED
    BY <2>4, <2>5, NewRequestPlaced
<1>11. ASSUME NEW n \in 1..Len(pending), FireRollbacks(n) PROVE OnePlace'
  BY <1>11, SamePlaces DEF FireRollbacks
<1> QED
  BY <1>1, <1>2, <1>3, <1>4, <1>5, <1>6, <1>7, <1>8, <1>9, <1>10, <1>11 DEF Person

LEMMA OnePlaceOfEvents ==
    ASSUME Shape, OnePlace, ConsumeEvent PROVE OnePlace'
<1> USE DEF screen, lists, changes, engine, history
<1>1. /\ events # <<>> /\ events' = Tail(events) /\ events \in Seq(Told)
      /\ UNCHANGED <<confirm, lane, work, runs, made>>
  BY DEF ConsumeEvent, ConsumeFinished, ConsumePlanFinished, ConsumeRefreshed, Shape
<1>2. Head(events) \in Told
  BY <1>1, FirstAndRest
<1>3. /\ ReturnedBy(events) = IdsOf(Returned(Head(events))) \cup ReturnedBy(events')
      /\ SeparateReturns(events') /\ Distinct(Returned(Head(events)))
      /\ IdsOf(Returned(Head(events))) \cap ReturnedBy(events') = {}
  BY <1>1, ReturnsShrink DEF OnePlace
<1>4. Executed' = Executed
  BY <1>1 DEF Executed
<1>5. OnePlaceOf(IdsOf(staged), IdsOf(confirm.ops), IdsIn(lane), IdsOf(work.left),
                 ReturnedBy(events), Executed, made)
  BY DEF OnePlace
<1>6. CASE staged' = staged
  <2>1. OnePlaceOf(IdsOf(staged), IdsOf(confirm.ops), IdsIn(lane), IdsOf(work.left),
                   ReturnedBy(events'), Executed, made)
    BY <1>3, <1>5 DEF OnePlaceOf
  <2> QED
    BY <1>1, <1>3, <1>4, <1>6, <2>1 DEF OnePlace
<1>7. CASE /\ Head(events).type = "PlanFinished" /\ staged' = Head(events).remaining
  <2>1. staged' = Returned(Head(events))
    BY <1>7 DEF Returned
  <2>2. OnePlaceOf(IdsOf(staged'), IdsOf(confirm.ops), IdsIn(lane), IdsOf(work.left),
                   ReturnedBy(events'), Executed, made)
    BY <1>3, <1>5, <2>1 DEF OnePlaceOf
  <2>3. IdsOf(staged') \cap IdsOf(confirm.ops) = {}
    BY <1>3, <1>5, <2>1 DEF OnePlaceOf
  <2>4. Distinct(staged')
    BY <1>3, <2>1
  <2> QED
    BY <1>1, <1>3, <1>4, <2>2, <2>3, <2>4 DEF OnePlace
<1>8. CASE ConsumePlanFinished
  BY <1>6, <1>7, <1>8 DEF ConsumePlanFinished
<1>9. CASE ConsumeFinished \/ ConsumeRefreshed
  BY <1>6, <1>9 DEF ConsumeFinished, ConsumeRefreshed
<1> QED
  BY <1>8, <1>9 DEF ConsumeEvent

LEMMA IdleHolds == IdsOf(Idle.left) = {} /\ Distinct(Idle.left)
  BY NumbersOfNone DEF Idle

(* Steps of the engine that report but execute no request. *)
LEMMA QuietPlaces ==
    ASSUME Shape, OnePlace, NEW event \in Told, event.type # "PlanFinished",
           events' = Append(events, event), UNCHANGED <<staged, confirm, lane, work, runs, made>>
    PROVE  OnePlace'
<1>1. ReturnedBy(events') = ReturnedBy(events) /\ SeparateReturns(events')
  BY QuietEvent DEF OnePlace
<1>2. Executed' = Executed
  BY DEF Executed
<1> QED
  BY <1>1, <1>2 DEF OnePlace

(* A request that goes on is current; one that does not is reported. *)
LEMMA BeginIs ==
    ASSUME Shape, EngineBegin
    PROVE  /\ lane # <<>> /\ lane \in Seq(Asked) /\ lane' = Tail(lane) /\ Head(lane) \in Asked /\ work = Idle
           /\ Finished(Head(Head(lane).ops), "Failed", FALSE) \in Told
           /\ \/ /\ events' = events /\ Current(Head(lane)) /\ ~work'.halted
                 /\ work'.kind = Head(lane).kind /\ work'.left = Head(lane).ops
                 /\ work'.done = <<>> /\ work'.expected = Head(lane).expected
              \/ /\ events' = Append(events, Finished(Head(Head(lane).ops), "Failed", FALSE))
                 /\ \/ Head(lane).kind = "Apply" /\ work' = Idle
                    \/ /\ Head(lane).kind = "Plan" /\ work'.kind = "Plan" /\ work'.left = Head(lane).ops
                       /\ work'.halted
<1> DEFINE request == Head(lane)
<1> DEFINE failed == Finished(Head(request.ops), "Failed", FALSE)
<1>1. lane # <<>> /\ lane \in Seq(Asked) /\ work = Idle /\ lane' = Tail(lane)
  BY DEF EngineBegin, Resting, Shape
<1>2. request \in Asked
  BY <1>1, FirstAndRest
<1>3. request.kind \in {"Apply", "Plan"} /\ request.ops \in Seq(Forward) /\ request.ops # <<>>
  BY <1>2, AskedTypes
<1>4. failed \in Told
  <2>1. "Failed" \in Outcomes /\ Head(request.ops) \in Forward \cup Backward
    BY <1>3, FirstAndRest DEF Outcomes
  <2> QED
    BY <2>1, ToldIs
<1>5. \/ /\ work' = [kind |-> request.kind, left |-> request.ops, done |-> <<>>,
                     expected |-> request.expected, halted |-> FALSE]
         /\ events' = events /\ Current(request)
      \/ /\ events' = Append(events, failed)
         /\ work' = IF request.kind = "Apply" THEN Idle
                    ELSE [kind |-> "Plan", left |-> request.ops, done |-> <<>>,
                          expected |-> request.expected, halted |-> TRUE]
  BY DEF EngineBegin
<1> HIDE DEF request, failed
<1>6. \/ /\ work'.kind = request.kind /\ work'.left = request.ops /\ work'.done = <<>>
         /\ work'.expected = request.expected /\ ~work'.halted
         /\ events' = events /\ Current(request)
      \/ /\ events' = Append(events, failed)
         /\ \/ request.kind = "Apply" /\ work' = Idle
            \/ request.kind = "Plan" /\ work'.kind = "Plan" /\ work'.left = request.ops /\ work'.halted
  BY <1>3, <1>5
<1> QED
  BY <1>1, <1>2, <1>4, <1>6 DEF request, failed

LEMMA OnePlaceOfBegin ==
    ASSUME Shape, OnePlace, EngineBegin PROVE OnePlace'
<1> DEFINE request == Head(lane)
<1> DEFINE failed == Finished(Head(request.ops), "Failed", FALSE)
<1>1. /\ lane # <<>> /\ lane \in Seq(Asked) /\ lane' = Tail(lane) /\ failed \in Told
      /\ events' = events \/ events' = Append(events, failed)
      /\ work'.left = request.ops \/ work' = Idle
  BY BeginIs
<1>2. UNCHANGED <<staged, confirm, runs, made>>
  BY DEF EngineBegin, screen, lists
<1>3. failed.type # "PlanFinished"
  BY DEF Finished
<1>4. /\ IdsIn(lane) = IdsOf(request.ops) \cup IdsIn(lane')
      /\ Separate(lane') /\ Distinct(request.ops) /\ IdsOf(request.ops) \cap IdsIn(lane') = {}
  BY <1>1, LaneShrinks DEF OnePlace
<1> HIDE DEF request, failed
<1>5. ReturnedBy(events') = ReturnedBy(events) /\ SeparateReturns(events')
  BY <1>1, <1>3, QuietEvent DEF OnePlace
<1>6. Distinct(work'.left) /\ IdsOf(work'.left) \subseteq IdsOf(request.ops)
  BY <1>1, <1>4, IdleHolds
<1>7. OnePlaceOf(IdsOf(staged), IdsOf(confirm.ops), IdsIn(lane), IdsOf(work.left),
                 ReturnedBy(events), Executed, made)
  BY DEF OnePlace
<1>8. OnePlaceOf(IdsOf(staged), IdsOf(confirm.ops), IdsIn(lane'), IdsOf(work'.left),
                 ReturnedBy(events), Executed, made)
  BY <1>4, <1>6, <1>7 DEF OnePlaceOf
<1>9. Executed' = Executed
  BY <1>2 DEF Executed
<1> QED
  BY <1>2, <1>4, <1>5, <1>6, <1>8, <1>9 DEF OnePlace

(* What the execution of an operation does to the numbers. *)
LEMMA NowExecuted ==
    ASSUME Shape, NEW op \in Forward, runs' = [runs EXCEPT ![op.id] = @ + 1]
    PROVE  /\ Executed' = Executed \cup {op.id}
           /\ op.id \notin Executed /\ (\A n \in 1..MaxChanges : runs[n] <= 1)
                => \A n \in 1..MaxChanges : runs'[n] <= 1
<1>1. op.id \in 1..MaxChanges /\ runs \in [1..MaxChanges -> Nat]
  BY OperationTypes DEF Shape
<1>2. \A n \in 1..MaxChanges : runs'[n] = IF n = op.id THEN runs[n] + 1 ELSE runs[n]
  BY <1>1
<1>3. \A n \in 1..MaxChanges : runs[n] \in Nat
  BY <1>1
<1>4. \A n \in 1..MaxChanges : runs'[n] > 0 <=> runs[n] > 0 \/ n = op.id
  BY <1>2, <1>3
<1>5. Executed' = Executed \cup {op.id}
  BY <1>1, <1>4 DEF Executed
<1>6. ASSUME op.id \notin Executed, \A n \in 1..MaxChanges : runs[n] <= 1
      PROVE  \A n \in 1..MaxChanges : runs'[n] <= 1
  <2>1. runs[op.id] = 0
    BY <1>1, <1>3, <1>6 DEF Executed
  <2> QED
    BY <1>2, <1>3, <1>6, <2>1
<1> QED
  BY <1>5, <1>6

(* The operation that the engine executes, and what is left after it. *)
LEMMA ExecutedIs ==
    ASSUME Shape, EngineExecute
    PROVE  /\ work.left # <<>> /\ work.left \in Seq(Forward) /\ Head(work.left) \in Forward
           /\ work \in Working /\ work.kind \in {"Apply", "Plan"} /\ ~work.halted
           /\ work'.left \in Seq(Forward)
           /\ IdsOf(work.left) = {Head(work.left).id} \cup IdsOf(work'.left)
           /\ Distinct(work.left) => Distinct(work'.left) /\ Head(work.left).id \notin IdsOf(work'.left)
           /\ work.kind = "Apply" => work' = Idle
           /\ work.kind = "Plan" => work'.kind = "Plan" /\ work'.left = Tail(work.left)
<1>1. work.left # <<>> /\ work \in Working /\ ~Resting /\ ~work.halted
  BY DEF EngineExecute, Shape
<1>2. /\ work.left \in Seq(Forward) /\ work.kind \in {"Apply", "Plan"}
      /\ work.kind = "Apply" => Len(work.left) = 1
  BY <1>1, WorkTypes DEF Resting
<1>3. Head(work.left) \in Forward /\ Tail(work.left) \in Seq(Forward) /\ Len(Tail(work.left)) = Len(work.left) - 1
  BY <1>1, <1>2, FirstAndRest
<1>4. /\ IdsOf(work.left) = {Head(work.left).id} \cup IdsOf(Tail(work.left))
      /\ Distinct(work.left) => Distinct(Tail(work.left)) /\ Head(work.left).id \notin IdsOf(Tail(work.left))
  BY <1>1, <1>2, DistinctRest
<1>5. PICK outcome \in Outcomes :
         work' = IF work.kind = "Apply" THEN Idle
                 ELSE [work EXCEPT !.left = Tail(@), !.done = Append(@, Head(work.left)),
                                   !.halted = outcome # "Applied"]
  BY DEF EngineExecute
<1>6. CASE work.kind = "Apply"
  <2>1. Len(Tail(work.left)) = 0
    BY <1>2, <1>3, <1>6
  <2>2. Tail(work.left) = <<>>
    BY <1>3, <2>1, NoElements
  <2>3. work' = Idle /\ work'.left = Tail(work.left)
    BY <1>5, <1>6, <2>2 DEF Idle
  <2> QED
    BY <1>1, <1>2, <1>3, <1>4, <1>6, <2>3
<1>7. CASE work.kind = "Plan"
  <2>1. work = [kind |-> "Plan", left |-> work.left, done |-> work.done,
                expected |-> work.expected, halted |-> work.halted]
    BY <1>1, <1>7 DEF Working, Works
  <2>2. work'.kind = "Plan" /\ work'.left = Tail(work.left)
    BY <1>5, <1>7, <2>1
  <2> QED
    BY <1>1, <1>2, <1>3, <1>4, <1>7, <2>2
<1> QED
  BY <1>2, <1>6, <1>7

(* What is told of the execution of an operation, and of a rollback. *)
LEMMA ExecuteTells ==
    ASSUME Shape, EngineExecute
    PROVE  /\ Head(work.left) \in Forward
           /\ runs' = [runs EXCEPT ![Head(work.left).id] = @ + 1]
           /\ UNCHANGED <<staged, confirm, plan, verify, undo, pending, lane, rollbacks, made, touched>>
           /\ \E outcome \in Outcomes, event \in Told :
                /\ Execute(Head(work.left), outcome)
                /\ events' = Append(events, event)
                /\ event.type = "OperationFinished" /\ event.op = Head(work.left) /\ event.outcome = outcome
                /\ work' = IF work.kind = "Apply" THEN Idle
                           ELSE [work EXCEPT !.left = Tail(@), !.done = Append(@, Head(work.left)),
                                             !.halted = outcome # "Applied"]
<1> DEFINE op == Head(work.left)
<1>1. op \in Forward
  BY ExecutedIs
<1>2. PICK outcome \in Outcomes :
         /\ Execute(op, outcome)
         /\ events' = Append(events, Finished(op, outcome, outcome # "Failed" /\ op.setting \in Risky))
         /\ work' = IF work.kind = "Apply" THEN Idle
                    ELSE [work EXCEPT !.left = Tail(@), !.done = Append(@, op), !.halted = outcome # "Applied"]
  BY DEF EngineExecute
<1>3. /\ runs' = [runs EXCEPT ![op.id] = @ + 1]
      /\ UNCHANGED <<staged, confirm, plan, verify, undo, pending, lane, rollbacks, made, touched>>
  BY DEF EngineExecute, screen, lists, changes
<1> DEFINE armed == outcome # "Failed" /\ op.setting \in Risky
<1> DEFINE event == Finished(op, outcome, armed)
<1>4. armed \in BOOLEAN /\ (armed => outcome # "Failed")
  OBVIOUS
<1> HIDE DEF op, armed
<1>5. event \in Told
  BY <1>1, <1>4, ToldIs
<1>6. event.type = "OperationFinished" /\ event.op = op /\ event.outcome = outcome
  BY DEF Finished
<1>7. events' = Append(events, event)
  BY <1>2 DEF armed
<1> HIDE DEF event
<1>8. \E what \in Outcomes, told \in Told :
         /\ Execute(op, what) /\ events' = Append(events, told)
         /\ told.type = "OperationFinished" /\ told.op = op /\ told.outcome = what
         /\ work' = IF work.kind = "Apply" THEN Idle
                    ELSE [work EXCEPT !.left = Tail(@), !.done = Append(@, op), !.halted = what # "Applied"]
  BY <1>2, <1>5, <1>6, <1>7
<1> QED
  BY <1>1, <1>3, <1>8 DEF op

LEMMA RollbackTells ==
    ASSUME Shape, EngineRollback
    PROVE  /\ work = Idle /\ rollbacks # <<>> /\ rollbacks' = Tail(rollbacks) /\ Head(rollbacks) \in Backward
           /\ UNCHANGED <<staged, confirm, plan, verify, undo, pending, lane, work, made, runs, touched>>
           /\ \E outcome \in Outcomes, event \in Told :
                /\ Execute(Head(rollbacks), outcome)
                /\ events' = Append(events, event)
                /\ event.type = "OperationFinished" /\ event.op = Head(rollbacks) /\ event.outcome = outcome
                /\ ~event.armed
<1> DEFINE op == Head(rollbacks)
<1>1. op \in Backward /\ rollbacks # <<>>
  BY FirstAndRest DEF EngineRollback, Shape
<1>2. PICK outcome \in Outcomes :
         Execute(op, outcome) /\ events' = Append(events, Finished(op, outcome, FALSE))
  BY DEF EngineRollback
<1> DEFINE event == Finished(op, outcome, FALSE)
<1>3. /\ work = Idle /\ rollbacks' = Tail(rollbacks)
      /\ UNCHANGED <<staged, confirm, plan, verify, undo, pending, lane, work, made, runs, touched>>
  BY DEF EngineRollback, Resting, screen, lists, changes
<1> HIDE DEF op
<1>4. event \in Told
  BY <1>1, ToldIs
<1>5. event.type = "OperationFinished" /\ event.op = op /\ event.outcome = outcome /\ ~event.armed
  BY DEF Finished
<1>6. events' = Append(events, event)
  BY <1>2
<1> HIDE DEF event
<1> QED
  BY <1>1, <1>2, <1>3, <1>4, <1>5, <1>6 DEF op

(* What is told of a reading. *)
LEMMA ReadTells ==
    ASSUME Shape, EngineRead
    PROVE  \E event \in Told :
              /\ event \in {Refreshed, RefreshFailed} /\ event.type = "RefreshFinished"
              /\ events' = Append(events, event) /\ work = Idle
              /\ UNCHANGED <<firewall, screen, lists, changes, lane, rollbacks, work, history>>
<1>1. PICK event \in {Refreshed, RefreshFailed} : EngineRefresh(event)
  BY DEF EngineRead
<1>2. event \in Told
  BY ToldIs, RefreshedTold DEF Shape
<1>3. event.type = "RefreshFinished"
  BY DEF Refreshed, RefreshFailed
<1> QED
  BY <1>1, <1>2, <1>3 DEF EngineRefresh, Resting

LEMMA OnePlaceOfEngine ==
    ASSUME Shape, OnePlace, EngineWork \/ EngineRead PROVE OnePlace'
<1> USE DEF screen, lists, changes, engine, history
<1>1. CASE EngineExecute
  <2> DEFINE op == Head(work.left)
  <2>1. /\ op \in Forward /\ IdsOf(work.left) = {op.id} \cup IdsOf(work'.left)
        /\ Distinct(work'.left) /\ op.id \notin IdsOf(work'.left)
    BY <1>1, ExecutedIs DEF OnePlace
  <2>2. /\ runs' = [runs EXCEPT ![op.id] = @ + 1]
        /\ UNCHANGED <<staged, confirm, lane, made>>
    BY <1>1, ExecuteTells
  <2>3. PICK event \in Told : events' = Append(events, event) /\ event.type # "PlanFinished"
    BY <1>1, ExecuteTells
  <2> HIDE DEF op
  <2>5. ReturnedBy(events') = ReturnedBy(events) /\ SeparateReturns(events')
    BY <2>3, QuietEvent DEF OnePlace
  <2>6. OnePlaceOf(IdsOf(staged), IdsOf(confirm.ops), IdsIn(lane), IdsOf(work.left),
                   ReturnedBy(events), Executed, made)
    BY DEF OnePlace
  <2>7. op.id \notin Executed
    BY <2>1, <2>6 DEF OnePlaceOf
  <2>8. Executed' = Executed \cup {op.id} /\ \A n \in 1..MaxChanges : runs'[n] <= 1
    BY <2>1, <2>2, <2>7, NowExecuted DEF OnePlace
  <2>9. OnePlaceOf(IdsOf(staged), IdsOf(confirm.ops), IdsIn(lane), IdsOf(work'.left),
                   ReturnedBy(events), Executed', made)
    BY <2>1, <2>6, <2>8 DEF OnePlaceOf
  <2> QED
    BY <2>1, <2>2, <2>5, <2>8, <2>9 DEF OnePlace
<1>2. CASE EnginePlanDone
  <2>1. /\ events' = Append(events, PlanFinished(work.left)) /\ work' = Idle
        /\ UNCHANGED <<staged, confirm, lane, runs, made>>
    BY <1>2 DEF EnginePlanDone
  <2>2. PlanFinished(work.left) \in Told /\ Returned(PlanFinished(work.left)) = work.left
    BY WorkTypes, ToldIs DEF Shape, Returned, PlanFinished
  <2>3. OnePlaceOf(IdsOf(staged), IdsOf(confirm.ops), IdsIn(lane), IdsOf(work.left),
                   ReturnedBy(events), Executed, made)
    BY DEF OnePlace
  <2>4. IdsOf(work.left) \cap ReturnedBy(events) = {} /\ Distinct(work.left) /\ SeparateReturns(events)
    BY <2>3 DEF OnePlace, OnePlaceOf
  <2>5. /\ ReturnedBy(events') = ReturnedBy(events) \cup IdsOf(work.left)
        /\ SeparateReturns(events')
    BY <2>1, <2>2, <2>4, ReturnsGrow DEF Shape
  <2>6. OnePlaceOf(IdsOf(staged), IdsOf(confirm.ops), IdsIn(lane), {},
                   ReturnedBy(events'), Executed, made)
    BY <2>3, <2>5 DEF OnePlaceOf
  <2>7. Executed' = Executed
    BY <2>1 DEF Executed
  <2> QED
    BY <2>1, <2>5, <2>6, <2>7, IdleHolds DEF OnePlace
<1>3. CASE EngineRollback \/ EngineRead
  <2>1. /\ \E event \in Told : event.type # "PlanFinished" /\ events' = Append(events, event)
        /\ UNCHANGED <<staged, confirm, lane, work, runs, made>>
    BY <1>3, RollbackTells, ReadTells
  <2> QED
    BY <2>1, QuietPlaces
<1> QED
  BY <1>1, <1>2, <1>3, OnePlaceOfBegin DEF EngineWork

LEMMA OnePlaceStep ==
    ASSUME Shape, OnePlace, [Next]_vars PROVE OnePlace'
<1>1. CASE UNCHANGED vars
  BY <1>1, SamePlaces DEF vars, screen, lists, engine, history
<1>2. CASE \E setting \in Setting : ForeignChange(setting)
  BY <1>2, SamePlaces DEF ForeignChange, screen, lists, engine
<1> QED
  BY <1>1, <1>2, OnePlaceOfPerson, OnePlaceOfEvents, OnePlaceOfEngine DEF Next

LEMMA OnePlaceInit ==
    ASSUME Init PROVE OnePlace
<1>1. /\ staged = <<>> /\ confirm = None /\ lane = <<>> /\ work = Idle /\ events = <<>> /\ made = 0
      /\ runs = [n \in 1..MaxChanges |-> 0]
  BY DEF Init
<1>2. IdsIn(lane) = {} /\ Separate(lane) /\ ReturnedBy(events) = {} /\ SeparateReturns(events)
  BY <1>1, OfNothing DEF IdsIn, Separate, ReturnedBy, SeparateReturns
<1>3. Executed = {} /\ \A n \in 1..MaxChanges : runs[n] <= 1
  BY <1>1 DEF Executed
<1> QED
  BY <1>1, <1>2, <1>3, NumbersOfNone, NoneHolds, IdleHolds DEF OnePlace, OnePlaceOf

-----------------------------------------------------------------------------
(* The plan is in one place *)

PlanRequests == {request \in Asked : request.kind = "Plan"}
PlanEnds == {event \in Told : event.type = "PlanFinished"}

LEMMA PlansCounted ==
    /\ \A requests \in Seq(Asked) :
          Cardinality({i \in 1..Len(requests) : requests[i].kind = "Plan"}) = Counted(requests, PlanRequests)
    /\ \A told \in Seq(Told) :
          Cardinality({i \in 1..Len(told) : told[i].type = "PlanFinished"}) = Counted(told, PlanEnds)
<1>1. ASSUME NEW requests \in Seq(Asked)
      PROVE  {i \in 1..Len(requests) : requests[i].kind = "Plan"}
                = {i \in 1..Len(requests) : requests[i] \in PlanRequests}
  <2>1. \A i \in 1..Len(requests) : requests[i] \in Asked
    BY <1>1
  <2> QED
    BY <2>1 DEF PlanRequests
<1>2. ASSUME NEW told \in Seq(Told)
      PROVE  {i \in 1..Len(told) : told[i].type = "PlanFinished"}
                = {i \in 1..Len(told) : told[i] \in PlanEnds}
  <2>1. \A i \in 1..Len(told) : told[i] \in Told
    BY <1>2
  <2> QED
    BY <2>1 DEF PlanEnds
<1> QED
  BY <1>1, <1>2 DEF Counted

(* The plans under way before and after a step. *)
LEMMA PlansNow ==
    ASSUME Shape
    PROVE  PlansUnderWay = Counted(lane, PlanRequests) + (IF work.kind = "Plan" THEN 1 ELSE 0)
                              + Counted(events, PlanEnds)
  BY PlansCounted DEF Shape, PlansUnderWay

LEMMA PlansNext ==
    ASSUME Shape'
    PROVE  PlansUnderWay' = Counted(lane', PlanRequests) + (IF work'.kind = "Plan" THEN 1 ELSE 0)
                               + Counted(events', PlanEnds)
  BY PlansCounted DEF Shape, PlansUnderWay

LEMMA PlanCounts ==
    ASSUME Shape
    PROVE  Counted(lane, PlanRequests) \in Nat /\ Counted(events, PlanEnds) \in Nat
  BY CountedNone DEF Shape

LEMMA SamePlan ==
    ASSUME PlanPlaced, UNCHANGED <<plan, lane, work, events, runs>>
    PROVE  PlanPlaced'
<1>1. Executed' = Executed
  BY DEF Executed
<1> QED
  BY <1>1 DEF PlanPlaced, PlansUnderWay, PlanActive

(* Only a confirmed plan changes what is in flight. *)
LEMMA PlanPlacedOfPerson ==
    ASSUME Shape, Shape', PlanPlaced, Person PROVE PlanPlaced'
<1> USE DEF screen, lists, changes, engine, history
<1>1. CASE Accept
  <2>1. /\ lane' = Append(lane, confirm) /\ confirm \in Asked /\ lane \in Seq(Asked)
        /\ plan = {} /\ UNCHANGED <<work, events, runs>>
        /\ plan' = IF confirm.kind = "Plan" THEN IdsOf(confirm.ops) ELSE plan
    BY <1>1 DEF Accept, AtKeys, PlanActive, Shape
  <2>2. /\ Len(lane') = Len(lane) + 1 /\ lane'[Len(lane) + 1] = confirm /\ Len(lane) \in Nat
        /\ \A i \in 1..Len(lane) : lane'[i] = lane[i] /\ lane[i] \in Asked
    BY <2>1, Appended
  <2>3. Executed' = Executed
    BY <2>1 DEF Executed
  <2>4. /\ Counted(lane, PlanRequests) = 0 /\ work.kind # "Plan" /\ Counted(events, PlanEnds) = 0
    <3>1. PlansUnderWay = 0
      BY <2>1 DEF PlanPlaced, PlanActive
    <3> DEFINE inLane == Counted(lane, PlanRequests)
    <3> DEFINE inEvents == Counted(events, PlanEnds)
    <3> DEFINE inWork == IF work.kind = "Plan" THEN 1 ELSE 0
    <3>2. PlansUnderWay = inLane + inWork + inEvents
      BY PlansNow
    <3>3. inLane \in Nat /\ inEvents \in Nat /\ inWork \in Nat /\ (inWork = 0 => work.kind # "Plan")
      BY PlanCounts
    <3> HIDE DEF inLane, inWork, inEvents
    <3>4. inLane = 0 /\ inWork = 0 /\ inEvents = 0
      BY <3>1, <3>2, <3>3
    <3> QED
      BY <3>3, <3>4 DEF inLane, inEvents
  <2>5. /\ \A i \in 1..Len(lane) : lane[i].kind # "Plan"
        /\ \A i \in 1..Len(events) : events[i].type # "PlanFinished"
    <3>1. \A i \in 1..Len(lane) : lane[i] \notin PlanRequests
      BY <2>1, <2>4, CountedNone
    <3>2. events \in Seq(Told)
      BY DEF Shape
    <3>3. \A i \in 1..Len(events) : events[i] \notin PlanEnds /\ events[i] \in Told
      BY <2>4, <3>2, CountedNone
    <3> QED
      BY <2>2, <3>1, <3>3 DEF PlanRequests, PlanEnds
  <2>6. Counted(lane', PlanRequests) = IF confirm.kind = "Plan" THEN 1 ELSE 0
    BY <2>1, <2>4, CountedAppend DEF PlanRequests
  <2>7. PlansUnderWay' = IF confirm.kind = "Plan" THEN 1 ELSE 0
    BY <2>1, <2>4, <2>6, PlansNext
  <2>8. confirm.kind = "Plan" => plan' # {}
    <3>1. confirm.ops \in Seq(Forward) /\ confirm.ops # <<>>
      BY <2>1, AskedTypes
    <3> QED
      BY <2>1, <3>1, NumbersOf
  <2>9. \A i \in 1..Len(lane') : lane'[i].kind = "Plan" => plan' \subseteq Executed' \cup IdsOf(lane'[i].ops)
    <3> SUFFICES ASSUME NEW i \in 1..Len(lane'), lane'[i].kind = "Plan"
                 PROVE  plan' \subseteq IdsOf(lane'[i].ops)
      OBVIOUS
    <3>1. i = Len(lane) + 1
      BY <2>2, <2>5
    <3> QED
      BY <2>1, <2>2, <3>1
  <2>10. /\ work'.kind # "Plan"
         /\ \A i \in 1..Len(events') : events'[i].type # "PlanFinished"
    BY <2>1, <2>4, <2>5
  <2> QED
    BY <2>1, <2>7, <2>8, <2>9, <2>10 DEF PlanPlaced, PlanActive
<1>2. CASE Person /\ ~Accept
  <2>1. UNCHANGED <<plan, lane, work, events, runs>>
    BY <1>2 DEF Person, Change, Stage, Cancel, ApplyStagedPlan, DiscardStagedPlan, Restore, BulkDelete,
                KeepChanges, UndoLastOperation, FireRollbacks
  <2> QED
    BY <2>1, SamePlan
<1> QED
  BY <1>1, <1>2

LEMMA PlanPlacedOfEvents ==
    ASSUME Shape, Shape', PlanPlaced, ConsumeEvent PROVE PlanPlaced'
<1> USE DEF screen, lists, changes, engine, history
<1>1. /\ events # <<>> /\ events' = Tail(events) /\ events \in Seq(Told)
      /\ UNCHANGED <<lane, work, runs>>
  BY DEF ConsumeEvent, ConsumeFinished, ConsumePlanFinished, ConsumeRefreshed, Shape
<1>2. /\ Head(events) = events[1] /\ Len(events') = Len(events) - 1 /\ Head(events) \in Told
      /\ \A i \in 1..Len(events') : events'[i] = events[i + 1]
      /\ Len(events) \in Nat \ {0}
  BY <1>1, FirstAndRest
<1>3. Executed' = Executed
  BY <1>1 DEF Executed
<1> DEFINE inLane == Counted(lane, PlanRequests) + (IF work.kind = "Plan" THEN 1 ELSE 0)
<1> DEFINE ends == Counted(events', PlanEnds)
<1>4. inLane \in Nat /\ ends \in Nat
  BY <1>1, PlanCounts, CountedTail
<1>5. PlansUnderWay' = inLane + ends
  BY <1>1, PlansNext
<1>6. PlansUnderWay = inLane + ((IF Head(events) \in PlanEnds THEN 1 ELSE 0) + ends)
  <2>1. Counted(events, PlanEnds) = (IF Head(events) \in PlanEnds THEN 1 ELSE 0) + ends
    BY <1>1, CountedTail
  <2>2. PlansUnderWay = inLane + Counted(events, PlanEnds)
    BY PlansNow
  <2> QED
    BY <2>1, <2>2
<1> HIDE DEF inLane, ends
<1>7. \A i \in 1..Len(events') : i + 1 \in 1..Len(events) /\ events'[i] = events[i + 1]
  BY <1>2
<1>8. CASE ConsumePlanFinished
  <2>1. Head(events) \in PlanEnds /\ plan' = {}
    BY <1>2, <1>8 DEF ConsumePlanFinished, PlanEnds
  <2>2. PlansUnderWay \in {0, 1}
    BY DEF PlanPlaced
  <2>3. PlansUnderWay' = 0
    BY <1>4, <1>5, <1>6, <2>1, <2>2
  <2> QED
    BY <2>1, <2>3 DEF PlanPlaced, PlanActive
<1>9. CASE ConsumeFinished \/ ConsumeRefreshed
  <2>1. Head(events) \notin PlanEnds /\ plan' = plan
    BY <1>9 DEF ConsumeFinished, ConsumeRefreshed, PlanEnds
  <2>2. PlansUnderWay' = PlansUnderWay
    BY <1>4, <1>5, <1>6, <2>1
  <2>3. PlanActive' = PlanActive
    BY <2>1 DEF PlanActive
  <2>4. \A i \in 1..Len(events') : events'[i].type = "PlanFinished" =>
            plan' \subseteq Executed' \cup IdsOf(events'[i].remaining)
    BY <1>3, <1>7, <2>1 DEF PlanPlaced
  <2> QED
    BY <1>1, <1>3, <2>1, <2>2, <2>3, <2>4 DEF PlanPlaced
<1> QED
  BY <1>8, <1>9 DEF ConsumeEvent

(* An event that ends no plan. *)
LEMMA QuietPlan ==
    ASSUME Shape, Shape', PlanPlaced, NEW event \in Told, event.type # "PlanFinished",
           events' = events \/ events' = Append(events, event),
           plan' = plan, Executed \subseteq Executed'
    PROVE  /\ Counted(events', PlanEnds) = Counted(events, PlanEnds)
           /\ \A i \in 1..Len(events') :
                events'[i].type = "PlanFinished" => plan' \subseteq Executed' \cup IdsOf(events'[i].remaining)
<1>1. events \in Seq(Told)
  BY DEF Shape
<1>2. \A i \in 1..Len(events) :
         events[i].type = "PlanFinished" => plan' \subseteq Executed' \cup IdsOf(events[i].remaining)
  BY DEF PlanPlaced
<1>3. CASE events' = events
  BY <1>2, <1>3
<1>4. CASE events' = Append(events, event)
  <2>1. /\ Len(events') = Len(events) + 1 /\ events'[Len(events) + 1] = event /\ Len(events) \in Nat
        /\ \A i \in 1..Len(events) : events'[i] = events[i]
    BY <1>1, <1>4, Appended
  <2>2. event \notin PlanEnds /\ Counted(events, PlanEnds) \in Nat
    BY PlanCounts DEF PlanEnds
  <2>3. Counted(events', PlanEnds) = Counted(events, PlanEnds) + 0
    BY <1>1, <1>4, <2>2, CountedAppend
  <2>4. \A i \in 1..Len(events') :
            events'[i].type = "PlanFinished" => i \in 1..Len(events) /\ events'[i] = events[i]
    BY <2>1
  <2> QED
    BY <1>2, <2>2, <2>3, <2>4
<1> QED
  BY <1>3, <1>4

LEMMA QuietPlanPlaced ==
    ASSUME Shape, Shape', PlanPlaced, NEW event \in Told, event.type # "PlanFinished",
           events' = events \/ events' = Append(events, event), UNCHANGED <<plan, lane, work, runs>>
    PROVE  PlanPlaced'
<1>1. Executed' = Executed
  BY DEF Executed
<1>2. /\ Counted(events', PlanEnds) = Counted(events, PlanEnds)
      /\ \A i \in 1..Len(events') :
            events'[i].type = "PlanFinished" => plan' \subseteq Executed' \cup IdsOf(events'[i].remaining)
  BY <1>1, QuietPlan
<1>3. PlansUnderWay' = PlansUnderWay
  BY <1>2, PlansNow, PlansNext
<1>4. PlanActive' = PlanActive
  BY DEF PlanActive
<1> QED
  BY <1>1, <1>2, <1>3, <1>4 DEF PlanPlaced

LEMMA PlanPlacedOfEngine ==
    ASSUME Shape, Shape', PlanPlaced, EngineWork \/ EngineRead PROVE PlanPlaced'
<1> USE DEF screen, lists, changes, engine, history
<1>1. CASE EngineBegin
  <2> DEFINE request == Head(lane)
  <2> DEFINE failed == Finished(Head(request.ops), "Failed", FALSE)
  <2>1. /\ lane # <<>> /\ lane \in Seq(Asked) /\ lane' = Tail(lane) /\ failed \in Told /\ request \in Asked
        /\ work = Idle
        /\ events' = events \/ events' = Append(events, failed)
        /\ \/ work'.kind = request.kind /\ work'.left = request.ops
           \/ work' = Idle /\ request.kind = "Apply"
    BY <1>1, BeginIs
  <2>2. /\ failed.type # "PlanFinished" /\ UNCHANGED <<plan, runs>>
    BY <1>1 DEF Finished, EngineBegin
  <2>3. Executed' = Executed
    BY <2>2 DEF Executed
  <2>4. /\ Counted(events', PlanEnds) = Counted(events, PlanEnds)
        /\ \A i \in 1..Len(events') :
              events'[i].type = "PlanFinished" => plan' \subseteq Executed' \cup IdsOf(events'[i].remaining)
    <3> HIDE DEF failed
    <3> QED
      BY <2>1, <2>2, <2>3, QuietPlan
  <2>5. /\ request = lane[1] /\ Len(lane') = Len(lane) - 1 /\ Len(lane) \in Nat \ {0}
        /\ \A i \in 1..Len(lane) - 1 : lane'[i] = lane[i + 1]
    BY <2>1, FirstAndRest
  <2>6. Counted(lane, PlanRequests) = (IF request \in PlanRequests THEN 1 ELSE 0) + Counted(lane', PlanRequests)
    BY <2>1, CountedTail
  <2> HIDE DEF request, failed
  <2>7. request \in PlanRequests <=> work'.kind = "Plan"
    BY <2>1, IdleTypes DEF PlanRequests
  <2>8. PlansUnderWay' = PlansUnderWay /\ PlanActive' = PlanActive
    <3> DEFINE inLane == Counted(lane', PlanRequests)
    <3> DEFINE inEvents == Counted(events, PlanEnds)
    <3> DEFINE inWork == IF work'.kind = "Plan" THEN 1 ELSE 0
    <3>1. inLane \in Nat /\ inEvents \in Nat /\ inWork \in Nat
      BY <2>1, PlanCounts, CountedTail
    <3>2. PlansUnderWay = (inWork + inLane) + 0 + inEvents
      BY <2>1, <2>6, <2>7, PlansNow, IdleTypes
    <3>3. PlansUnderWay' = inLane + inWork + inEvents
      BY <2>4, PlansNext
    <3>4. PlanActive' = PlanActive
      BY <2>2 DEF PlanActive
    <3> HIDE DEF inLane, inWork, inEvents
    <3> QED
      BY <3>1, <3>2, <3>3, <3>4
  <2>9. ASSUME NEW i \in 1..Len(lane'), lane'[i].kind = "Plan"
        PROVE  plan' \subseteq Executed' \cup IdsOf(lane'[i].ops)
    <3>1. i + 1 \in 1..Len(lane) /\ lane'[i] = lane[i + 1]
      BY <2>5
    <3> QED
      BY <2>2, <2>3, <2>9, <3>1 DEF PlanPlaced
  <2>10. work'.kind = "Plan" => plan' \subseteq Executed' \cup IdsOf(work'.left)
    <3>1. request.kind = "Plan" => plan \subseteq Executed \cup IdsOf(request.ops)
      BY <2>5 DEF PlanPlaced
    <3> QED
      BY <2>1, <2>2, <2>3, <3>1, IdleTypes
  <2> QED
    BY <2>4, <2>8, <2>9, <2>10 DEF PlanPlaced
<1>2. CASE EngineExecute
  <2> DEFINE op == Head(work.left)
  <2>1. /\ op \in Forward /\ IdsOf(work.left) = {op.id} \cup IdsOf(work'.left)
        /\ work.kind \in {"Apply", "Plan"}
        /\ work.kind = "Apply" => work' = Idle
        /\ work.kind = "Plan" => work'.kind = "Plan"
    BY <1>2, ExecutedIs
  <2>2. /\ runs' = [runs EXCEPT ![op.id] = @ + 1]
        /\ UNCHANGED <<plan, lane>>
    BY <1>2, ExecuteTells
  <2>4. PICK event \in Told : events' = Append(events, event) /\ event.type # "PlanFinished"
    BY <1>2, ExecuteTells
  <2> HIDE DEF op
  <2>5. Executed' = Executed \cup {op.id}
    BY <2>1, <2>2, NowExecuted
  <2>6. /\ Counted(events', PlanEnds) = Counted(events, PlanEnds)
        /\ \A i \in 1..Len(events') :
              events'[i].type = "PlanFinished" => plan' \subseteq Executed' \cup IdsOf(events'[i].remaining)
    BY <2>2, <2>4, <2>5, QuietPlan
  <2>7. work'.kind = "Plan" <=> work.kind = "Plan"
    BY <2>1, IdleTypes
  <2>8. PlansUnderWay' = PlansUnderWay /\ PlanActive' = PlanActive
    BY <2>2, <2>6, <2>7, PlansNow, PlansNext DEF PlanActive
  <2>9. work'.kind = "Plan" => plan' \subseteq Executed' \cup IdsOf(work'.left)
    BY <2>1, <2>2, <2>5, <2>7 DEF PlanPlaced
  <2>10. \A i \in 1..Len(lane') : lane'[i].kind = "Plan" => plan' \subseteq Executed' \cup IdsOf(lane'[i].ops)
    BY <2>2, <2>5 DEF PlanPlaced
  <2> QED
    BY <2>6, <2>8, <2>9, <2>10 DEF PlanPlaced
<1>3. CASE EnginePlanDone
  <2> DEFINE event == PlanFinished(work.left)
  <2>1. /\ events' = Append(events, event) /\ work' = Idle /\ work.kind = "Plan"
        /\ UNCHANGED <<plan, lane, runs>>
    BY <1>3 DEF EnginePlanDone
  <2>2. events \in Seq(Told) /\ event \in PlanEnds /\ event.remaining = work.left /\ event \in Told
    BY WorkTypes, ToldIs DEF Shape, PlanFinished, PlanEnds
  <2> HIDE DEF event
  <2>3. /\ Len(events') = Len(events) + 1 /\ events'[Len(events) + 1] = event /\ Len(events) \in Nat
        /\ \A i \in 1..Len(events) : events'[i] = events[i]
    BY <2>1, <2>2, Appended
  <2>4. Counted(events', PlanEnds) = Counted(events, PlanEnds) + 1
    BY <2>1, <2>2, CountedAppend
  <2>5. Executed' = Executed
    BY <2>1 DEF Executed
  <2>6. PlansUnderWay' = PlansUnderWay /\ PlanActive' = PlanActive
    <3> DEFINE inLane == Counted(lane, PlanRequests)
    <3> DEFINE inEvents == Counted(events, PlanEnds)
    <3>1. inLane \in Nat /\ inEvents \in Nat
      BY PlanCounts
    <3>2. PlansUnderWay = inLane + 1 + inEvents
      BY <2>1, PlansNow
    <3>3. PlansUnderWay' = inLane + 0 + (inEvents + 1)
      BY <2>1, <2>4, PlansNext, IdleTypes
    <3>4. PlanActive' = PlanActive
      BY <2>1 DEF PlanActive
    <3> HIDE DEF inLane, inEvents
    <3> QED
      BY <3>1, <3>2, <3>3, <3>4
  <2>7. ASSUME NEW i \in 1..Len(events'), events'[i].type = "PlanFinished"
        PROVE  plan' \subseteq Executed' \cup IdsOf(events'[i].remaining)
    <3>1. CASE i \in 1..Len(events)
      BY <2>1, <2>3, <2>5, <2>7, <3>1 DEF PlanPlaced
    <3>2. CASE i = Len(events) + 1
      BY <2>1, <2>2, <2>3, <2>5, <3>2 DEF PlanPlaced
    <3> QED
      BY <2>3, <3>1, <3>2
  <2> QED
    BY <2>1, <2>5, <2>6, <2>7, IdleTypes DEF PlanPlaced
<1>4. CASE EngineRollback \/ EngineRead
  <2>1. /\ \E event \in Told : event.type # "PlanFinished" /\ events' = Append(events, event)
        /\ UNCHANGED <<plan, lane, work, runs>>
    BY <1>4, RollbackTells, ReadTells
  <2> QED
    BY <2>1, QuietPlanPlaced
<1> QED
  BY <1>1, <1>2, <1>3, <1>4 DEF EngineWork

LEMMA PlanPlacedStep ==
    ASSUME Shape, Shape', PlanPlaced, [Next]_vars PROVE PlanPlaced'
<1>1. CASE UNCHANGED vars
  BY <1>1, SamePlan DEF vars, lists, engine, history
<1>2. CASE \E setting \in Setting : ForeignChange(setting)
  BY <1>2, SamePlan DEF ForeignChange, lists, engine
<1> QED
  BY <1>1, <1>2, PlanPlacedOfPerson, PlanPlacedOfEvents, PlanPlacedOfEngine DEF Next

LEMMA PlanPlacedInit ==
    ASSUME Init PROVE PlanPlaced
<1>1. lane = <<>> /\ work = Idle /\ events = <<>> /\ plan = {}
  BY DEF Init
<1>2. PlansUnderWay = 0
  <2>1. lane \in Seq(Asked) /\ events \in Seq(Told)
    BY ShapeInit DEF Shape
  <2>2. Counted(lane, PlanRequests) = 0 /\ Counted(events, PlanEnds) = 0
    <3>1. /\ \A i \in 1..Len(lane) : lane[i] \notin PlanRequests
          /\ \A i \in 1..Len(events) : events[i] \notin PlanEnds
      BY <1>1, OfNothing
    <3> QED
      BY <2>1, <3>1, CountedNone
  <2> QED
    BY <1>1, <2>2, ShapeInit, PlansNow, IdleTypes
<1> QED
  BY <1>1, <1>2, OfNothing, IdleTypes DEF PlanPlaced, PlanActive

LEMMA PlanIsAccounted ==
    ASSUME Shape, PlanPlaced PROVE PlanAccounted
<1>1. lane \in Seq(Asked) /\ events \in Seq(Told)
  BY DEF Shape
<1>2. PlansUnderWay = (IF PlanActive THEN 1 ELSE 0)
  BY DEF PlanPlaced
<1>3. CASE plan = {}
  BY <1>2, <1>3 DEF PlanAccounted
<1>4. CASE \E i \in 1..Len(lane) : lane[i] \in PlanRequests
  <2>1. PICK i \in 1..Len(lane) : lane[i] \in PlanRequests
    BY <1>4
  <2>2. plan \subseteq Executed \cup IdsOf(lane[i].ops)
    BY <2>1 DEF PlanPlaced, PlanRequests
  <2>3. IdsOf(lane[i].ops) \subseteq InHand
    BY <2>1 DEF InHand
  <2> QED
    BY <1>2, <2>2, <2>3 DEF PlanAccounted
<1>5. CASE work.kind = "Plan"
  <2>1. plan \subseteq Executed \cup IdsOf(work.left)
    BY <1>5 DEF PlanPlaced
  <2> QED
    BY <1>2, <2>1 DEF PlanAccounted, InHand
<1>6. CASE \E i \in 1..Len(events) : events[i] \in PlanEnds
  <2>1. PICK i \in 1..Len(events) : events[i] \in PlanEnds
    BY <1>6
  <2>2. events[i].type = "PlanFinished"
    BY <2>1 DEF PlanEnds
  <2>3. plan \subseteq Executed \cup IdsOf(events[i].remaining)
    BY <2>2 DEF PlanPlaced
  <2>4. IdsOf(events[i].remaining) \subseteq InHand
    BY <2>2 DEF InHand
  <2> QED
    BY <1>2, <2>3, <2>4 DEF PlanAccounted
<1>7. CASE /\ plan # {} /\ work.kind # "Plan"
           /\ \A i \in 1..Len(lane) : lane[i] \notin PlanRequests
           /\ \A i \in 1..Len(events) : events[i] \notin PlanEnds
  <2>1. Counted(lane, PlanRequests) = 0 /\ Counted(events, PlanEnds) = 0
    BY <1>1, <1>7, CountedNone
  <2>2. PlansUnderWay = 0
    BY <1>7, <2>1, PlansNow
  <2> QED
    BY <1>2, <1>7, <2>2 DEF PlanActive
<1> QED
  BY <1>3, <1>4, <1>5, <1>6, <1>7

(* Nothing that was executed is on its way to execution. *)
LEMMA OnceIsExecuted ==
    ASSUME Shape, OnePlace PROVE ExecutedOnce
<1>1. InHand = IdsOf(work.left) \cup IdsIn(lane) \cup ReturnedBy(events)
  <2>1. ReturnedBy(events)
           = UNION {IdsOf(events[i].remaining) : i \in {j \in 1..Len(events) : events[j].type = "PlanFinished"}}
    <3> DEFINE places == {j \in 1..Len(events) : events[j].type = "PlanFinished"}
    <3>1. \A i \in places : Returned(events[i]) = events[i].remaining
      BY DEF Returned
    <3>2. \A i \in (1..Len(events)) \ places : IdsOf(Returned(events[i])) = {}
      BY NumbersOfNone DEF Returned
    <3>3. \A n : n \in ReturnedBy(events) <=> \E i \in 1..Len(events) : n \in IdsOf(Returned(events[i]))
      BY DEF ReturnedBy
    <3>4. \A n : n \in ReturnedBy(events) <=> \E i \in places : n \in IdsOf(events[i].remaining)
      <4> HIDE DEF places
      <4>1. places \subseteq 1..Len(events)
        BY DEF places
      <4> QED
        BY <3>1, <3>2, <3>3, <4>1
    <3> HIDE DEF places
    <3>5. ReturnedBy(events) = UNION {IdsOf(events[i].remaining) : i \in places}
      BY <3>4
    <3> QED
      BY <3>5 DEF places
  <2> QED
    BY <2>1 DEF InHand, IdsIn
<1>2. OnePlaceOf(IdsOf(staged), IdsOf(confirm.ops), IdsIn(lane), IdsOf(work.left),
                 ReturnedBy(events), Executed, made)
  BY DEF OnePlace
<1>3. (IdsOf(staged) \cup IdsOf(confirm.ops) \cup InHand) \cap Executed = {}
  BY <1>1, <1>2 DEF OnePlaceOf
<1> QED
  BY <1>3, ShapeTyped DEF ExecutedOnce, OnePlace

-----------------------------------------------------------------------------
(* What is reported, and what can be taken back *)

LEMMA LiveTypes ==
    ASSUME NEW event \in Told
    PROVE  /\ MadeBy[event] = IF Live(event) /\ event.op.by # "rollback" THEN {event.op.id} ELSE {}
           /\ TakenBy[event] = IF Live(event) /\ event.op.by = "rollback" THEN {event.op.id} ELSE {}
           /\ ArmedBy[event] = IF event.type = "OperationFinished" /\ event.armed THEN {event.op.id} ELSE {}
           /\ ArmedBy[event] \subseteq MadeBy[event]
           /\ ~Live(event) => MadeBy[event] = {} /\ TakenBy[event] = {} /\ ArmedBy[event] = {}
<1>1. MadeBy[event] = IF Live(event) /\ event.op.by # "rollback" THEN {event.op.id} ELSE {}
  BY DEF MadeBy
<1>2. TakenBy[event] = IF Live(event) /\ event.op.by = "rollback" THEN {event.op.id} ELSE {}
  BY DEF TakenBy
<1>3. ArmedBy[event] = IF event.type = "OperationFinished" /\ event.armed THEN {event.op.id} ELSE {}
  BY DEF ArmedBy
<1>4. event.type = "OperationFinished" /\ event.armed => Live(event) /\ event.op.by # "rollback"
  <2>1. event.type = "OperationFinished" /\ event.armed => event.op \in Forward
    BY ToldTypes
  <2> QED
    BY <2>1, OperationTypes DEF Live
<1> QED
  BY <1>1, <1>2, <1>3, <1>4

LEMMA MadeOnes ==
    ASSUME NEW S, NEW T
    PROVE  /\ Makes(S \cup T) = Makes(S) \cup Makes(T) /\ Takes(S \cup T) = Takes(S) \cup Takes(T)
           /\ S \subseteq T => Makes(S) \subseteq Makes(T) /\ Takes(S) \subseteq Takes(T)
<1>1. \A U, n : n \in Makes(U) <=> \E op \in U : op.by # "rollback" /\ op.id = n
  BY DEF Makes
<1>2. \A U, n : n \in Takes(U) <=> \E op \in U : op.by = "rollback" /\ op.id = n
  BY DEF Takes
<1>3. Makes(S \cup T) = Makes(S) \cup Makes(T)
  BY <1>1
<1>4. Takes(S \cup T) = Takes(S) \cup Takes(T)
  BY <1>2
<1>5. S \subseteq T => Makes(S) \subseteq Makes(T)
  BY <1>1
<1>6. S \subseteq T => Takes(S) \subseteq Takes(T)
  BY <1>2
<1> QED
  BY <1>3, <1>4, <1>5, <1>6

LEMMA MadeOne ==
    ASSUME NEW op
    PROVE  /\ Makes({op}) = IF op.by # "rollback" THEN {op.id} ELSE {}
           /\ Takes({op}) = IF op.by = "rollback" THEN {op.id} ELSE {}
<1>1. \A n : n \in Makes({op}) <=> op.by # "rollback" /\ op.id = n
  BY DEF Makes
<1>2. \A n : n \in Takes({op}) <=> op.by = "rollback" /\ op.id = n
  BY DEF Takes
<1> QED
  BY <1>1, <1>2

LEMMA MadeForward ==
    ASSUME NEW ops \in Seq(Forward)
    PROVE  Makes(ToSet(ops)) = IdsOf(ops) /\ Takes(ToSet(ops)) = {}
<1>1. \A op \in ToSet(ops) : op.by # "rollback"
  BY ElementsOf, OperationTypes
<1>2. \A n : n \in IdsOf(ops) <=> \E op \in ToSet(ops) : op.id = n
  BY NumbersOf
<1>3. \A n : n \in Makes(ToSet(ops)) <=> \E op \in ToSet(ops) : op.id = n
  BY <1>1 DEF Makes
<1>4. \A n : n \notin Takes(ToSet(ops))
  BY <1>1 DEF Takes
<1> QED
  BY <1>2, <1>3, <1>4

LEMMA SameReports ==
    ASSUME ReportedOnce, UNCHANGED <<verify, undo, pending, rollbacks, events, runs>>
    PROVE  ReportedOnce'
  BY DEF ReportedOnce, Concluded, Executed

(* When nothing is executed and no event is read or written. *)
LEMMA ReportedAmong ==
    ASSUME ReportedOnce, UNCHANGED <<events, runs>>, Distinct(pending'), Distinct(rollbacks'),
           OnceOf(Gathered(events, MadeBy), Gathered(events, TakenBy), Gathered(events, ArmedBy),
                  Makes(Concluded'), Takes(Concluded'), IdsOf(pending'), IdsOf(rollbacks'), Executed)
    PROVE  ReportedOnce'
<1>1. Executed' = Executed
  BY DEF Executed
<1> QED
  BY <1>1 DEF ReportedOnce

(* Countdowns that expire or are made to: their operations, newest first. *)
LEMMA RevertedOnes ==
    ASSUME Shape, NEW n \in Nat, FireRollbacks(n)
    PROVE  LET first == SubSeq(pending, 1, n)
               reverting == [i \in 1..n |-> InverseOf(pending[i], pending[i].id, "rollback")]
           IN  /\ reverting \in Seq(Backward) /\ Reverse(reverting) \in Seq(Backward)
               /\ IdsOf(Reverse(reverting)) = IdsOf(first)
               /\ Distinct(first) => Distinct(Reverse(reverting))
               /\ rollbacks' = rollbacks \o Reverse(reverting)
<1> DEFINE first == SubSeq(pending, 1, n)
<1> DEFINE reverting == [i \in 1..n |-> InverseOf(pending[i], pending[i].id, "rollback")]
<1> DEFINE all == Reverse(reverting)
<1>1. n \in 1..Len(pending) /\ pending \in Seq(Forward) /\ rollbacks' = rollbacks \o all
  BY DEF FireRollbacks, Shape
<1>2. /\ first \in Seq(Forward) /\ Len(first) = n
      /\ \A i \in 1..n : first[i] = pending[i] /\ pending[i] \in Forward
  BY <1>1, Prefix
<1>3. \A i \in 1..n : reverting[i] \in Backward /\ reverting[i].id = first[i].id
  <2> TAKE i \in 1..n
  <2>1. pending[i].id \in 1..MaxChanges /\ pending[i].setting \in Setting /\ pending[i].on \in BOOLEAN
    BY <1>2, OperationTypes
  <2>2. (~pending[i].on) \in BOOLEAN
    OBVIOUS
  <2> QED
    BY <1>2, <2>1, <2>2 DEF InverseOf, Operation, Backward
<1> HIDE DEF first
<1>4. reverting \in Seq(Backward) /\ Len(reverting) = n
  BY <1>3
<1> HIDE DEF reverting
<1>5. all \in Seq(Backward) /\ Len(all) = n /\ \A i \in 1..n : all[i] = reverting[n - i + 1]
  BY <1>4, Reversed
<1> HIDE DEF all
<1>6. \A i \in 1..n : n - i + 1 \in 1..n /\ n - (n - i + 1) + 1 = i
  OBVIOUS
<1>7. \A i \in 1..n : all[i].id = first[n - i + 1].id
  BY <1>3, <1>5, <1>6
<1>8. \A m : m \in IdsOf(all) <=> \E i \in 1..n : all[i].id = m
  BY <1>5, NumbersOf
<1>9. \A m : m \in IdsOf(first) <=> \E i \in 1..n : first[i].id = m
  BY <1>2, NumbersOf
<1>10. \A m : m \in IdsOf(all) => m \in IdsOf(first)
  BY <1>6, <1>7, <1>8, <1>9
<1>11. \A m : m \in IdsOf(first) => m \in IdsOf(all)
  BY <1>6, <1>7, <1>8, <1>9
<1>12. ASSUME Distinct(first) PROVE Distinct(all)
  <2> SUFFICES ASSUME NEW i \in 1..n, NEW j \in 1..n, all[i].id = all[j].id PROVE i = j
    BY <1>5 DEF Distinct
  <2>1. first[n - i + 1].id = first[n - j + 1].id /\ n - i + 1 \in 1..n /\ n - j + 1 \in 1..n
    BY <1>6, <1>7
  <2>2. n - i + 1 = n - j + 1
    BY <1>2, <1>12, <2>1 DEF Distinct
  <2> QED
    BY <2>2
<1> QED
  BY <1>1, <1>4, <1>5, <1>10, <1>11, <1>12 DEF first, reverting, all

LEMMA FrontOf ==
    ASSUME NEW S, NEW s \in Seq(S), s # <<>>
    PROVE  Front(s) \in Seq(S) /\ ToSet(Front(s)) \subseteq ToSet(s)
<1>1. Len(s) \in Nat \ {0} /\ Front(s) = SubSeq(s, 1, Len(s) - 1)
  BY FirstAndRest DEF Front
<1>2. Len(s) - 1 \in 0..Len(s)
  BY <1>1
<1> QED
  BY <1>1, <1>2, Prefix, Cut

LEMMA ReportedOnceOfPerson ==
    ASSUME Shape, ReportedOnce, Person PROVE ReportedOnce'
<1> USE DEF screen, lists, changes, engine, history
<1>1. OnceOf(Gathered(events, MadeBy), Gathered(events, TakenBy), Gathered(events, ArmedBy),
             Makes(Concluded), Takes(Concluded), IdsOf(pending), IdsOf(rollbacks), Executed)
  BY DEF ReportedOnce
<1>2. pending \in Seq(Forward) /\ undo \in Seq(Forward \cup Backward) /\ rollbacks \in Seq(Backward)
  BY DEF Shape
<1>3. CASE KeepChanges
  <2>1. /\ undo' = Pushed(undo, pending) /\ pending' = <<>>
        /\ UNCHANGED <<verify, rollbacks, events, runs>>
    BY <1>3 DEF KeepChanges
  <2>2. pending \in Seq(Forward \cup Backward)
    BY <1>2, OperationTypes, SequencesOf
  <2>3. ToSet(undo') \subseteq ToSet(undo) \cup ToSet(pending)
    BY <1>2, <2>1, <2>2, PushedOnes
  <2>4. Concluded' \subseteq Concluded \cup ToSet(pending)
    BY <2>1, <2>3 DEF Concluded
  <2>5. /\ Makes(Concluded') \subseteq Makes(Concluded) \cup IdsOf(pending)
        /\ Takes(Concluded') \subseteq Takes(Concluded)
    <3>1. /\ Makes(Concluded \cup ToSet(pending)) = Makes(Concluded) \cup IdsOf(pending)
          /\ Takes(Concluded \cup ToSet(pending)) = Takes(Concluded)
      <4>1. Makes(ToSet(pending)) = IdsOf(pending) /\ Takes(ToSet(pending)) = {}
        BY <1>2, MadeForward
      <4>2. /\ Makes(Concluded \cup ToSet(pending)) = Makes(Concluded) \cup Makes(ToSet(pending))
            /\ Takes(Concluded \cup ToSet(pending)) = Takes(Concluded) \cup Takes(ToSet(pending))
        BY MadeOnes
      <4> QED
        BY <4>1, <4>2
    <3>2. /\ Makes(Concluded') \subseteq Makes(Concluded \cup ToSet(pending))
          /\ Takes(Concluded') \subseteq Takes(Concluded \cup ToSet(pending))
      BY <2>4, MadeOnes
    <3> QED
      BY <3>1, <3>2
  <2>6. IdsOf(pending') = {} /\ Distinct(pending') /\ Distinct(rollbacks')
    BY <2>1, NumbersOfNone DEF ReportedOnce
  <2>7. OnceOf(Gathered(events, MadeBy), Gathered(events, TakenBy), Gathered(events, ArmedBy),
               Makes(Concluded'), Takes(Concluded'), IdsOf(pending'), IdsOf(rollbacks'), Executed)
    BY <1>1, <2>1, <2>5, <2>6 DEF OnceOf
  <2> QED
    BY <2>1, <2>6, <2>7, ReportedAmong
<1>4. ASSUME NEW n \in 1..Len(pending), FireRollbacks(n) PROVE ReportedOnce'
  <2> DEFINE first == SubSeq(pending, 1, n)
  <2> DEFINE rest == SubSeq(pending, n + 1, Len(pending))
  <2> DEFINE reverting == Reverse([i \in 1..n |-> InverseOf(pending[i], pending[i].id, "rollback")])
  <2>1. /\ pending' = rest /\ UNCHANGED <<verify, undo, events, runs>>
    BY <1>4 DEF FireRollbacks
  <2>2. /\ reverting \in Seq(Backward) /\ rollbacks' = rollbacks \o reverting
        /\ IdsOf(reverting) = IdsOf(first)
        /\ Distinct(first) => Distinct(reverting)
    BY <1>4, RevertedOnes
  <2>3. n \in 0..Len(pending) /\ Distinct(pending) /\ Distinct(rollbacks)
    BY <1>2 DEF ReportedOnce
  <2>4. /\ IdsOf(pending) = IdsOf(first) \cup IdsOf(rest) /\ IdsOf(first) \cap IdsOf(rest) = {}
        /\ Distinct(first) /\ Distinct(rest)
    BY <1>2, <2>3, DistinctPart
  <2> HIDE DEF first, rest, reverting
  <2>5. IdsOf(pending) \cap IdsOf(rollbacks) = {}
    BY <1>1 DEF OnceOf
  <2>6. IdsOf(rollbacks') = IdsOf(rollbacks) \cup IdsOf(first) /\ Distinct(rollbacks')
    <3>1. Distinct(reverting) /\ IdsOf(rollbacks) \cap IdsOf(reverting) = {}
      BY <2>2, <2>4, <2>5
    <3> QED
      BY <1>2, <2>2, <2>3, <3>1, DistinctJoined
  <2>7. Concluded' = Concluded
    BY <2>1 DEF Concluded
  <2>8. OnceOf(Gathered(events, MadeBy), Gathered(events, TakenBy), Gathered(events, ArmedBy),
               Makes(Concluded'), Takes(Concluded'), IdsOf(pending'), IdsOf(rollbacks'), Executed)
    BY <1>1, <2>1, <2>4, <2>6, <2>7 DEF OnceOf
  <2> QED
    BY <2>1, <2>4, <2>6, <2>8, ReportedAmong
<1>5. CASE UndoLastOperation
  <2>1. undo # <<>> /\ undo' = Front(undo) /\ UNCHANGED <<verify, pending, rollbacks, events, runs>>
    BY <1>5 DEF UndoLastOperation
  <2>2. Concluded' \subseteq Concluded
    BY <1>2, <2>1, FrontOf DEF Concluded
  <2>3. Makes(Concluded') \subseteq Makes(Concluded) /\ Takes(Concluded') \subseteq Takes(Concluded)
    BY <2>2, MadeOnes
  <2>4. OnceOf(Gathered(events, MadeBy), Gathered(events, TakenBy), Gathered(events, ArmedBy),
               Makes(Concluded'), Takes(Concluded'), IdsOf(pending'), IdsOf(rollbacks'), Executed)
    BY <1>1, <2>1, <2>3 DEF OnceOf
  <2>5. Distinct(pending') /\ Distinct(rollbacks')
    BY <2>1 DEF ReportedOnce
  <2> QED
    BY <2>1, <2>4, <2>5, ReportedAmong
<1>6. CASE /\ Person /\ ~KeepChanges /\ ~UndoLastOperation /\ ~\E n \in 1..Len(pending) : FireRollbacks(n)
  <2>1. UNCHANGED <<verify, undo, pending, rollbacks, events, runs>>
    BY <1>6 DEF Person, Change, Accept, Stage, Cancel, ApplyStagedPlan, DiscardStagedPlan, Restore, BulkDelete
  <2> QED
    BY <2>1, SameReports
<1> QED
  BY <1>3, <1>4, <1>5, <1>6

LEMMA ArmedAreMade ==
    ASSUME NEW told \in Seq(Told) PROVE Gathered(told, ArmedBy) \subseteq Gathered(told, MadeBy)
<1>1. \A i \in 1..Len(told) : told[i] \in Told
  OBVIOUS
<1>2. \A i \in 1..Len(told) : ArmedBy[told[i]] \subseteq MadeBy[told[i]]
  BY <1>1, LiveTypes
<1> QED
  BY <1>2 DEF Gathered

LEMMA ReportedAfterReading ==
    ASSUME Shape, ReportedOnce, events # <<>>, events' = Tail(events), UNCHANGED <<rollbacks, runs>>,
           Makes(Concluded') \subseteq Makes(Concluded) \cup MadeBy[Head(events)],
           Takes(Concluded') \subseteq Takes(Concluded) \cup TakenBy[Head(events)],
           IdsOf(pending') = IdsOf(pending) \cup ArmedBy[Head(events)],
           ArmedBy[Head(events)] \cap IdsOf(pending) = {} => Distinct(pending')
    PROVE  ReportedOnce'
<1> DEFINE event == Head(events)
<1>1. events \in Seq(Told) /\ event \in Told /\ events' \in Seq(Told)
  BY FirstAndRest DEF Shape
<1>2. /\ Gathered(events, MadeBy) = MadeBy[event] \cup Gathered(events', MadeBy)
      /\ Scattered(events', MadeBy) /\ MadeBy[event] \cap Gathered(events', MadeBy) = {}
  BY <1>1, GatheredTail DEF ReportedOnce
<1>3. /\ Gathered(events, TakenBy) = TakenBy[event] \cup Gathered(events', TakenBy)
      /\ Scattered(events', TakenBy) /\ TakenBy[event] \cap Gathered(events', TakenBy) = {}
  BY <1>1, GatheredTail DEF ReportedOnce
<1>4. Gathered(events, ArmedBy) = ArmedBy[event] \cup Gathered(events', ArmedBy)
  BY <1>1, GatheredTail
<1>5. ArmedBy[event] \subseteq MadeBy[event] /\ Gathered(events', ArmedBy) \subseteq Gathered(events', MadeBy)
  BY <1>1, LiveTypes, ArmedAreMade
<1>6. OnceOf(Gathered(events, MadeBy), Gathered(events, TakenBy), Gathered(events, ArmedBy),
             Makes(Concluded), Takes(Concluded), IdsOf(pending), IdsOf(rollbacks), Executed)
  BY DEF ReportedOnce
<1> HIDE DEF event
<1>7. /\ OnceOf(Gathered(events', MadeBy), Gathered(events', TakenBy), Gathered(events', ArmedBy),
                Makes(Concluded'), Takes(Concluded'), IdsOf(pending'), IdsOf(rollbacks), Executed)
      /\ ArmedBy[event] \cap IdsOf(pending) = {}
  <2> DEFINE made1 == Gathered(events', MadeBy)
  <2> DEFINE taken1 == Gathered(events', TakenBy)
  <2> DEFINE armed1 == Gathered(events', ArmedBy)
  <2> DEFINE concluded1 == Concluded'
  <2> DEFINE ids1 == IdsOf(pending')
  <2>1. /\ Makes(concluded1) \subseteq Makes(Concluded) \cup MadeBy[event]
        /\ Takes(concluded1) \subseteq Takes(Concluded) \cup TakenBy[event]
        /\ ids1 = IdsOf(pending) \cup ArmedBy[event]
    BY DEF event
  <2>2. /\ Gathered(events, MadeBy) = MadeBy[event] \cup made1 /\ MadeBy[event] \cap made1 = {}
        /\ Gathered(events, TakenBy) = TakenBy[event] \cup taken1 /\ TakenBy[event] \cap taken1 = {}
        /\ Gathered(events, ArmedBy) = ArmedBy[event] \cup armed1
        /\ ArmedBy[event] \subseteq MadeBy[event] /\ armed1 \subseteq made1
    BY <1>2, <1>3, <1>4, <1>5
  <2> HIDE DEF made1, taken1, armed1, concluded1, ids1
  <2>3. /\ OnceOf(made1, taken1, armed1, Makes(concluded1), Takes(concluded1), ids1, IdsOf(rollbacks), Executed)
        /\ ArmedBy[event] \cap IdsOf(pending) = {}
    BY <1>6, <2>1, <2>2 DEF OnceOf
  <2> QED
    BY <2>3 DEF made1, taken1, armed1, concluded1, ids1
<1>8. Executed' = Executed
  BY DEF Executed
<1>9. Distinct(pending')
  BY <1>7 DEF event
<1> QED
  BY <1>2, <1>3, <1>7, <1>8, <1>9 DEF ReportedOnce

(* An event that reports no execution. *)
LEMMA ReportedAfterOthers ==
    ASSUME Shape, ReportedOnce, events # <<>>, events' = Tail(events), UNCHANGED <<pending, rollbacks, runs>>,
           Head(events).type # "OperationFinished", Concluded' \subseteq Concluded
    PROVE  ReportedOnce'
<1>1. Head(events) \in Told
  BY FirstAndRest DEF Shape
<1>2. ~Live(Head(events))
  BY DEF Live
<1>3. /\ MadeBy[Head(events)] = {} /\ TakenBy[Head(events)] = {} /\ ArmedBy[Head(events)] = {}
  BY <1>1, <1>2, LiveTypes
<1>4. Makes(Concluded') \subseteq Makes(Concluded) /\ Takes(Concluded') \subseteq Takes(Concluded)
  BY MadeOnes
<1>5. Distinct(pending')
  BY DEF ReportedOnce
<1> QED
  BY <1>3, <1>4, <1>5, ReportedAfterReading

LEMMA FinishedIs ==
    ASSUME Shape, ConsumeFinished
    PROVE  /\ events # <<>> /\ events' = Tail(events) /\ events \in Seq(Told) /\ Head(events) \in Told
           /\ Head(events).type = "OperationFinished"
           /\ Head(events).op \in Forward \cup Backward
           /\ Head(events).armed \in BOOLEAN
           /\ Head(events).armed => Head(events).op \in Forward /\ Head(events).outcome # "Failed"
           /\ verify' = IF Head(events).outcome = "Applied" THEN Append(verify, Head(events).op) ELSE verify
           /\ pending' = IF Head(events).armed THEN Append(pending, Head(events).op) ELSE pending
           /\ UNCHANGED <<undo, rollbacks, runs, applied>>
<1>1. events # <<>> /\ events' = Tail(events) /\ events \in Seq(Told)
  BY DEF ConsumeFinished, Shape
<1>2. Head(events) \in Told /\ Head(events).type = "OperationFinished"
  BY <1>1, FirstAndRest DEF ConsumeFinished
<1>3. /\ Head(events).op \in Forward \cup Backward /\ Head(events).armed \in BOOLEAN
      /\ Head(events).armed => Head(events).op \in Forward /\ Head(events).outcome # "Failed"
  BY <1>2, ToldTypes
<1> QED
  BY <1>1, <1>2, <1>3 DEF ConsumeFinished, history

LEMMA ReportedOnceOfFinished ==
    ASSUME Shape, ReportedOnce, ConsumeFinished PROVE ReportedOnce'
<1> DEFINE event == Head(events)
<1>1. /\ events # <<>> /\ events' = Tail(events) /\ event \in Told /\ event.type = "OperationFinished"
      /\ event.op \in Forward \cup Backward /\ event.armed \in BOOLEAN
      /\ event.armed => event.op \in Forward
      /\ verify' = IF event.outcome = "Applied" THEN Append(verify, event.op) ELSE verify
      /\ pending' = IF event.armed THEN Append(pending, event.op) ELSE pending
      /\ UNCHANGED <<undo, rollbacks, runs>>
  BY FinishedIs
<1>2. verify \in Seq(Forward \cup Backward) /\ pending \in Seq(Forward) /\ Distinct(pending)
  BY DEF Shape, ReportedOnce
<1>3. /\ MadeBy[event] = IF Live(event) /\ event.op.by # "rollback" THEN {event.op.id} ELSE {}
      /\ TakenBy[event] = IF Live(event) /\ event.op.by = "rollback" THEN {event.op.id} ELSE {}
      /\ ArmedBy[event] = IF event.armed THEN {event.op.id} ELSE {}
  BY <1>1, LiveTypes
<1>4. /\ Makes(Concluded') \subseteq Makes(Concluded) \cup MadeBy[event]
      /\ Takes(Concluded') \subseteq Takes(Concluded) \cup TakenBy[event]
  <2>1. CASE event.outcome = "Applied"
    <3>1. ToSet(verify') = ToSet(verify) \cup {event.op}
      <4>1. verify' = Append(verify, event.op) /\ event.op \in Forward \cup Backward
        BY <1>1, <2>1
      <4> QED
        BY <1>2, <4>1, Appended
    <3>2. Live(event)
      BY <1>1, <2>1 DEF Live
    <3>3. Concluded' = Concluded \cup {event.op}
      BY <1>1, <3>1 DEF Concluded
    <3>4. /\ Makes({event.op}) = MadeBy[event] /\ Takes({event.op}) = TakenBy[event]
      BY <1>3, <3>2, MadeOne
    <3>5. /\ Makes(Concluded \cup {event.op}) = Makes(Concluded) \cup Makes({event.op})
          /\ Takes(Concluded \cup {event.op}) = Takes(Concluded) \cup Takes({event.op})
      BY MadeOnes
    <3> QED
      BY <3>3, <3>4, <3>5
  <2>2. CASE event.outcome # "Applied"
    <3>1. Concluded' = Concluded
      BY <1>1, <2>2 DEF Concluded
    <3> QED
      BY <3>1
  <2> QED
    BY <2>1, <2>2
<1>5. /\ IdsOf(pending') = IdsOf(pending) \cup ArmedBy[event]
      /\ ArmedBy[event] \cap IdsOf(pending) = {} => Distinct(pending')
  <2>1. CASE event.armed
    <3>1. event.op \in Forward /\ pending' = Append(pending, event.op)
      BY <1>1, <2>1
    <3>2. pending' = pending \o <<event.op>> /\ <<event.op>> \in Seq(Forward)
      BY <1>2, <3>1
    <3>3. IdsOf(<<event.op>>) = {event.op.id} /\ Distinct(<<event.op>>)
      BY <3>1, OneNew
    <3> HIDE DEF event
    <3>4. /\ IdsOf(pending \o <<event.op>>) = IdsOf(pending) \cup IdsOf(<<event.op>>)
          /\ Distinct(pending) /\ Distinct(<<event.op>>) /\ IdsOf(pending) \cap IdsOf(<<event.op>>) = {}
               => Distinct(pending \o <<event.op>>)
      BY <1>2, <3>2, DistinctJoined
    <3>5. ArmedBy[event] = {event.op.id}
      BY <1>3, <2>1
    <3> QED
      BY <1>2, <3>2, <3>3, <3>4, <3>5
  <2>2. CASE ~event.armed
    BY <1>1, <1>2, <1>3, <2>2
  <2> QED
    BY <1>1, <2>1, <2>2
<1> QED
  BY <1>1, <1>4, <1>5, ReportedAfterReading

(* What a snapshot shows goes to the undo stack. *)
LEMMA RefreshIs ==
    ASSUME Shape, ConsumeRefreshed
    PROVE  /\ events # <<>> /\ events' = Tail(events) /\ events \in Seq(Told) /\ Head(events) \in Told
           /\ Head(events).type = "RefreshFinished" /\ Head(events).ok \in BOOLEAN
           /\ UNCHANGED <<pending, rollbacks, runs>>
           /\ Head(events).ok => verify' = <<>> /\ applied' = applied \ ToSet(verify)
           /\ ~Head(events).ok => UNCHANGED <<verify, undo, applied>>
           /\ \A op \in ToSet(undo') :
                \/ op \in ToSet(undo)
                \/ op \in ToSet(verify) /\ \A i \in 1..Len(pending) : ~SameValue(pending[i], op)
           /\ Concluded' \subseteq Concluded
<1> DEFINE event == Head(events)
<1> DEFINE stackable == {i \in 1..Len(verify) : Undoable(verify[i], event.settings)}
<1>1. events # <<>> /\ events' = Tail(events) /\ events \in Seq(Told) /\ UNCHANGED <<pending, rollbacks, runs>>
  BY DEF ConsumeRefreshed, Shape
<1>2. event \in Told /\ event.type = "RefreshFinished" /\ event.ok \in BOOLEAN
  BY <1>1, FirstAndRest, ToldTypes DEF ConsumeRefreshed
<1>3. verify \in Seq(Forward \cup Backward) /\ undo \in Seq(Forward \cup Backward)
  BY DEF Shape
<1>4. CASE event.ok
  <2>1. verify' = <<>> /\ applied' = applied \ ToSet(verify) /\ undo' = Pushed(undo, At(verify, stackable))
    BY <1>4 DEF ConsumeRefreshed
  <2>2. \A i \in stackable : \A j \in 1..Len(pending) : ~SameValue(pending[j], verify[i])
    BY DEF Undoable
  <2>3. stackable \in SUBSET (1..Len(verify))
    OBVIOUS
  <2> HIDE DEF stackable
  <2>4. /\ At(verify, stackable) \in Seq(Forward \cup Backward)
        /\ ToSet(At(verify, stackable)) = {verify[i] : i \in stackable}
    BY <1>3, <2>3, AtPlaces
  <2>5. ToSet(undo') \subseteq ToSet(undo) \cup {verify[i] : i \in stackable}
    BY <1>3, <2>1, <2>4, PushedOnes
  <2>6. \A i \in stackable : verify[i] \in ToSet(verify)
    BY <1>3, <2>3, ElementsOf
  <2>7. \A op \in ToSet(undo') :
          \/ op \in ToSet(undo)
          \/ op \in ToSet(verify) /\ \A i \in 1..Len(pending) : ~SameValue(pending[i], op)
    BY <2>2, <2>5, <2>6
  <2>8. Concluded' \subseteq Concluded
    BY <2>1, <2>7, OfNothing DEF Concluded
  <2> QED
    BY <1>1, <1>2, <1>4, <2>1, <2>7, <2>8
<1>5. CASE ~event.ok
  <2>1. UNCHANGED <<verify, undo, applied>>
    BY <1>5 DEF ConsumeRefreshed
  <2>2. Concluded' = Concluded
    BY <2>1 DEF Concluded
  <2> QED
    BY <1>1, <1>2, <1>5, <2>1, <2>2
<1> QED
  BY <1>2, <1>4, <1>5

LEMMA ReportedOnceOfEvents ==
    ASSUME Shape, ReportedOnce, ConsumeEvent PROVE ReportedOnce'
<1>1. CASE ConsumePlanFinished
  <2>1. /\ events # <<>> /\ events' = Tail(events) /\ UNCHANGED <<verify, undo, pending, rollbacks, runs>>
        /\ Head(events).type # "OperationFinished"
    BY <1>1 DEF ConsumePlanFinished, changes, history
  <2>2. Concluded' \subseteq Concluded
    BY <2>1 DEF Concluded
  <2> QED
    BY <2>1, <2>2, ReportedAfterOthers
<1>2. CASE ConsumeRefreshed
  <2>1. /\ events # <<>> /\ events' = Tail(events) /\ UNCHANGED <<pending, rollbacks, runs>>
        /\ Head(events).type = "RefreshFinished" /\ Concluded' \subseteq Concluded
    BY <1>2, RefreshIs
  <2> QED
    BY <2>1, ReportedAfterOthers
<1> QED
  BY <1>1, <1>2, ReportedOnceOfFinished DEF ConsumeEvent

(* An event is told: what it reports was executed now, or takes back what only a
   rollback on its way could. *)
LEMMA ReportedAfterTelling ==
    ASSUME Shape, ReportedOnce, NEW event \in Told, events' = events \/ events' = Append(events, event),
           UNCHANGED <<verify, undo, pending>>, Executed \subseteq Executed', Distinct(rollbacks'),
           OnceOf(Gathered(events, MadeBy) \cup MadeBy[event], Gathered(events, TakenBy) \cup TakenBy[event],
                  Gathered(events, ArmedBy) \cup ArmedBy[event],
                  Makes(Concluded), Takes(Concluded), IdsOf(pending), IdsOf(rollbacks'), Executed'),
           MadeBy[event] \cap Gathered(events, MadeBy) = {}, TakenBy[event] \cap Gathered(events, TakenBy) = {}
    PROVE  ReportedOnce'
<1>1. events \in Seq(Told)
  BY DEF Shape
<1>2. Concluded' = Concluded /\ Distinct(pending')
  BY DEF Concluded, ReportedOnce
<1>3. CASE events' = Append(events, event)
  <2>1. /\ Gathered(events', MadeBy) = Gathered(events, MadeBy) \cup MadeBy[event]
        /\ Scattered(events', MadeBy)
    BY <1>1, <1>3, GatheredAppend DEF ReportedOnce
  <2>2. /\ Gathered(events', TakenBy) = Gathered(events, TakenBy) \cup TakenBy[event]
        /\ Scattered(events', TakenBy)
    BY <1>1, <1>3, GatheredAppend DEF ReportedOnce
  <2>3. Gathered(events', ArmedBy) = Gathered(events, ArmedBy) \cup ArmedBy[event]
    BY <1>1, <1>3, GatheredAppend
  <2> QED
    BY <1>2, <2>1, <2>2, <2>3 DEF ReportedOnce
<1>4. CASE events' = events
  <2>1. Gathered(events, ArmedBy) \subseteq Gathered(events, MadeBy)
    BY <1>1, ArmedAreMade
  <2>2. OnceOf(Gathered(events, MadeBy), Gathered(events, TakenBy), Gathered(events, ArmedBy),
               Makes(Concluded), Takes(Concluded), IdsOf(pending), IdsOf(rollbacks'), Executed')
    BY <2>1 DEF OnceOf
  <2> QED
    BY <1>2, <1>4, <2>2 DEF ReportedOnce
<1> QED
  BY <1>3, <1>4

LEMMA QuietReport ==
    ASSUME Shape, ReportedOnce, NEW event \in Told, ~Live(event), events' = events \/ events' = Append(events, event),
           UNCHANGED <<verify, undo, pending, rollbacks, runs>>
    PROVE  ReportedOnce'
<1>1. MadeBy[event] = {} /\ TakenBy[event] = {} /\ ArmedBy[event] = {}
  BY LiveTypes
<1>2. Executed' = Executed /\ Distinct(rollbacks')
  BY DEF Executed, ReportedOnce
<1>3. OnceOf(Gathered(events, MadeBy), Gathered(events, TakenBy), Gathered(events, ArmedBy),
             Makes(Concluded), Takes(Concluded), IdsOf(pending), IdsOf(rollbacks), Executed)
  BY DEF ReportedOnce
<1> QED
  BY <1>1, <1>2, <1>3, ReportedAfterTelling

LEMMA ReportedOnceOfEngine ==
    ASSUME Shape, OnePlace, ReportedOnce, EngineWork \/ EngineRead PROVE ReportedOnce'
<1>0. OnceOf(Gathered(events, MadeBy), Gathered(events, TakenBy), Gathered(events, ArmedBy),
             Makes(Concluded), Takes(Concluded), IdsOf(pending), IdsOf(rollbacks), Executed)
  BY DEF ReportedOnce
<1>1. CASE EngineBegin
  <2> DEFINE failed == Finished(Head(Head(lane).ops), "Failed", FALSE)
  <2>1. failed \in Told /\ (events' = events \/ events' = Append(events, failed))
    BY <1>1, BeginIs
  <2>2. ~Live(failed)
    BY DEF Live, Finished
  <2>3. UNCHANGED <<verify, undo, pending, rollbacks, runs>>
    BY <1>1 DEF EngineBegin, changes
  <2> HIDE DEF failed
  <2> QED
    BY <2>1, <2>2, <2>3, QuietReport
<1>2. CASE EngineExecute
  <2> DEFINE op == Head(work.left)
  <2>1. /\ op \in Forward /\ runs' = [runs EXCEPT ![op.id] = @ + 1]
        /\ UNCHANGED <<verify, undo, pending, rollbacks>>
    BY <1>2, ExecuteTells
  <2>2. PICK event \in Told :
            events' = Append(events, event) /\ event.type = "OperationFinished" /\ event.op = op
    BY <1>2, ExecuteTells
  <2>3. op.id \in IdsOf(work.left)
    BY <1>2, ExecutedIs
  <2> HIDE DEF op
  <2>4. op.id \notin Executed
    BY <2>3 DEF OnePlace, OnePlaceOf
  <2>5. Executed' = Executed \cup {op.id}
    BY <2>1, NowExecuted
  <2>6. /\ MadeBy[event] \subseteq {op.id} /\ TakenBy[event] = {} /\ ArmedBy[event] \subseteq MadeBy[event]
    <3>1. op.by # "rollback"
      BY <2>1, OperationTypes
    <3> QED
      BY <2>2, <3>1, LiveTypes
  <2>7. OnceOf(Gathered(events, MadeBy) \cup MadeBy[event], Gathered(events, TakenBy) \cup TakenBy[event],
               Gathered(events, ArmedBy) \cup ArmedBy[event],
               Makes(Concluded), Takes(Concluded), IdsOf(pending), IdsOf(rollbacks), Executed')
    BY <1>0, <2>4, <2>5, <2>6 DEF OnceOf
  <2>8. MadeBy[event] \cap Gathered(events, MadeBy) = {} /\ TakenBy[event] \cap Gathered(events, TakenBy) = {}
    BY <1>0, <2>4, <2>6 DEF OnceOf
  <2>9. Distinct(rollbacks') /\ Executed \subseteq Executed'
    BY <2>1, <2>5 DEF ReportedOnce
  <2> QED
    BY <2>1, <2>2, <2>7, <2>8, <2>9, ReportedAfterTelling
<1>3. CASE EnginePlanDone
  <2> DEFINE event == PlanFinished(work.left)
  <2>1. events' = Append(events, event) /\ UNCHANGED <<verify, undo, pending, rollbacks, runs>>
    BY <1>3 DEF EnginePlanDone, changes, history
  <2>2. event \in Told
    BY WorkTypes, ToldIs DEF Shape
  <2>3. ~Live(event)
    BY DEF Live, PlanFinished
  <2> HIDE DEF event
  <2> QED
    BY <2>1, <2>2, <2>3, QuietReport
<1>4. CASE EngineRollback
  <2> DEFINE op == Head(rollbacks)
  <2>1. /\ rollbacks # <<>> /\ rollbacks' = Tail(rollbacks) /\ op \in Backward
        /\ UNCHANGED <<verify, undo, pending, runs>>
    BY <1>4, RollbackTells
  <2>2. PICK event \in Told : /\ events' = Append(events, event) /\ event.type = "OperationFinished"
                              /\ event.op = op /\ ~event.armed
    BY <1>4, RollbackTells
  <2>3. rollbacks \in Seq(Backward) /\ Distinct(rollbacks)
    BY DEF Shape, ReportedOnce
  <2>4. /\ IdsOf(rollbacks) = {op.id} \cup IdsOf(rollbacks') /\ Distinct(rollbacks')
        /\ op.id \notin IdsOf(rollbacks')
    BY <2>1, <2>3, DistinctRest
  <2> HIDE DEF op
  <2>5. Executed' = Executed
    BY <2>1 DEF Executed
  <2>6. MadeBy[event] = {} /\ TakenBy[event] \subseteq {op.id} /\ ArmedBy[event] = {}
    <3>1. op.by = "rollback"
      BY <2>1, OperationTypes
    <3> QED
      BY <2>2, <3>1, LiveTypes
  <2>7. OnceOf(Gathered(events, MadeBy) \cup MadeBy[event], Gathered(events, TakenBy) \cup TakenBy[event],
               Gathered(events, ArmedBy) \cup ArmedBy[event],
               Makes(Concluded), Takes(Concluded), IdsOf(pending), IdsOf(rollbacks'), Executed')
    BY <1>0, <2>4, <2>5, <2>6 DEF OnceOf
  <2>8. MadeBy[event] \cap Gathered(events, MadeBy) = {} /\ TakenBy[event] \cap Gathered(events, TakenBy) = {}
    BY <1>0, <2>4, <2>6 DEF OnceOf
  <2> QED
    BY <2>1, <2>2, <2>4, <2>5, <2>7, <2>8, ReportedAfterTelling
<1>5. CASE EngineRead
  <2>1. PICK event \in Told : event.type = "RefreshFinished" /\ events' = Append(events, event)
    BY <1>5, ReadTells
  <2>2. UNCHANGED <<verify, undo, pending, rollbacks, runs>>
    BY <1>5, ReadTells DEF changes, history
  <2>3. ~Live(event)
    BY <2>1 DEF Live
  <2> QED
    BY <2>1, <2>2, <2>3, QuietReport
<1> QED
  BY <1>1, <1>2, <1>3, <1>4, <1>5 DEF EngineWork

LEMMA ReportedOnceStep ==
    ASSUME Shape, OnePlace, ReportedOnce, [Next]_vars PROVE ReportedOnce'
<1>1. CASE UNCHANGED vars
  BY <1>1, SameReports DEF vars, changes, engine, history
<1>2. CASE \E setting \in Setting : ForeignChange(setting)
  BY <1>2, SameReports DEF ForeignChange, changes, engine
<1> QED
  BY <1>1, <1>2, ReportedOnceOfPerson, ReportedOnceOfEvents, ReportedOnceOfEngine DEF Next

LEMMA ReportedOnceInit ==
    ASSUME Init PROVE ReportedOnce
<1>1. events = <<>> /\ pending = <<>> /\ rollbacks = <<>> /\ verify = <<>> /\ undo = <<>>
  BY DEF Init
<1>2. Concluded = {} /\ Makes({}) = {} /\ Takes({}) = {}
  BY <1>1, OfNothing DEF Concluded, Makes, Takes
<1>3. \A Of : Gathered(events, Of) = {} /\ Scattered(events, Of)
  BY <1>1, OfNothing DEF Gathered, Scattered
<1>4. IdsOf(pending) = {} /\ IdsOf(rollbacks) = {} /\ Distinct(pending) /\ Distinct(rollbacks)
  BY <1>1, NumbersOfNone
<1> QED
  BY <1>2, <1>3, <1>4 DEF ReportedOnce, OnceOf

-----------------------------------------------------------------------------
(* What is armed is not undoable *)

LEMMA ArmedNotUndoableStep ==
    ASSUME Shape, ReportedOnce, ArmedNotUndoable, [Next]_vars PROVE ArmedNotUndoable'
<1>1. pending \in Seq(Forward) /\ undo \in Seq(Forward \cup Backward)
  BY DEF Shape
<1>2. CASE UNCHANGED <<pending, undo>>
  BY <1>2 DEF ArmedNotUndoable
<1>3. CASE KeepChanges
  <2>1. ToSet(pending') = {}
    BY <1>3, OfNothing DEF KeepChanges
  <2> QED
    BY <2>1 DEF ArmedNotUndoable
<1>4. ASSUME NEW n \in 1..Len(pending), FireRollbacks(n) PROVE ArmedNotUndoable'
  <2>1. pending' = SubSeq(pending, n + 1, Len(pending)) /\ undo' = undo
    BY <1>4 DEF FireRollbacks
  <2>2. ToSet(pending') \subseteq ToSet(pending)
    <3>1. n \in 0..Len(pending)
      OBVIOUS
    <3> QED
      BY <1>1, <2>1, <3>1, Cut
  <2> QED
    BY <2>1, <2>2 DEF ArmedNotUndoable
<1>5. CASE UndoLastOperation
  <2>1. undo # <<>> /\ undo' = Front(undo) /\ pending' = pending
    BY <1>5 DEF UndoLastOperation
  <2>2. ToSet(undo') \subseteq ToSet(undo)
    BY <1>1, <2>1, FrontOf
  <2> QED
    BY <2>1, <2>2 DEF ArmedNotUndoable
<1>6. CASE ConsumeFinished
  <2> DEFINE event == Head(events)
  <2>1. /\ event \in Told /\ event.type = "OperationFinished" /\ events # <<>> /\ events \in Seq(Told)
        /\ event.armed => event.op \in Forward
        /\ pending' = IF event.armed THEN Append(pending, event.op) ELSE pending
        /\ undo' = undo
    BY <1>6, FinishedIs
  <2>2. CASE event.armed
    <3>1. ToSet(pending') = ToSet(pending) \cup {event.op}
      BY <1>1, <2>1, <2>2, Appended
    <3>2. event.op.id \in Gathered(events, MadeBy)
      <4>1. event.op.id \in MadeBy[event]
        BY <2>1, <2>2, LiveTypes
      <4> QED
        BY <2>1, <4>1, GatheredTail
    <3>3. event.op.id \notin Makes(Concluded)
      BY <3>2 DEF ReportedOnce, OnceOf
    <3>4. event.op.by # "rollback"
      BY <2>1, <2>2, OperationTypes
    <3>5. event.op \notin ToSet(undo)
      BY <3>3, <3>4 DEF Makes, Concluded
    <3> QED
      BY <2>1, <3>1, <3>5 DEF ArmedNotUndoable
  <2>3. CASE ~event.armed
    BY <2>1, <2>3 DEF ArmedNotUndoable
  <2> QED
    BY <2>2, <2>3
<1>7. CASE ConsumeRefreshed
  <2>1. /\ pending' = pending
        /\ \A op \in ToSet(undo') :
              \/ op \in ToSet(undo)
              \/ op \in ToSet(verify) /\ \A i \in 1..Len(pending) : ~SameValue(pending[i], op)
    BY <1>7, RefreshIs
  <2>2. \A op \in ToSet(pending) : \E i \in 1..Len(pending) : SameValue(pending[i], op)
    BY <1>1, ElementsOf DEF SameValue
  <2> QED
    BY <2>1, <2>2 DEF ArmedNotUndoable
<1>8. CASE EngineWork \/ EngineRead \/ ConsumePlanFinished
  BY <1>2, <1>8 DEF EngineWork, EngineRead, EngineBegin, EngineExecute, EnginePlanDone, EngineRollback,
                    EngineRefresh, ConsumePlanFinished, changes
<1>9. CASE UNCHANGED vars
  BY <1>2, <1>9 DEF vars, changes
<1>10. CASE \E setting \in Setting : ForeignChange(setting)
  BY <1>2, <1>10 DEF ForeignChange, changes
<1>11. CASE /\ Person /\ ~KeepChanges /\ ~UndoLastOperation
            /\ ~\E n \in 1..Len(pending) : FireRollbacks(n)
  BY <1>2, <1>11 DEF Person, Change, Accept, Stage, Cancel, ApplyStagedPlan, DiscardStagedPlan, Restore,
                     BulkDelete, changes
<1> QED
  BY <1>3, <1>4, <1>5, <1>6, <1>7, <1>8, <1>9, <1>10, <1>11 DEF Next, ConsumeEvent

-----------------------------------------------------------------------------
(* What was applied is remembered *)

LEMMA LiveNotConcluded ==
    ASSUME Shape, ReportedOnce, NEW i \in 1..Len(events), Live(events[i])
    PROVE  events[i].op \notin Concluded
<1> DEFINE event == events[i]
<1>1. event \in Told
  BY DEF Shape
<1>2. /\ MadeBy[event] = IF event.op.by # "rollback" THEN {event.op.id} ELSE {}
      /\ TakenBy[event] = IF event.op.by = "rollback" THEN {event.op.id} ELSE {}
  BY <1>1, LiveTypes
<1>3. MadeBy[event] \subseteq Gathered(events, MadeBy) /\ TakenBy[event] \subseteq Gathered(events, TakenBy)
  BY DEF Gathered
<1>4. MadeBy[event] \cap Makes(Concluded) = {} /\ TakenBy[event] \cap Takes(Concluded) = {}
  BY <1>3 DEF ReportedOnce, OnceOf
<1> HIDE DEF event
<1>5. CASE event.op.by = "rollback"
  <2>1. event.op.id \notin Takes(Concluded)
    BY <1>2, <1>4, <1>5
  <2> QED
    BY <1>5, <2>1 DEF Takes, event
<1>6. CASE event.op.by # "rollback"
  <2>1. event.op.id \notin Makes(Concluded)
    BY <1>2, <1>4, <1>6
  <2> QED
    BY <1>6, <2>1 DEF Makes, event
<1> QED
  BY <1>5, <1>6

LEMMA ExplainedTail ==
    ASSUME NEW ops, NEW told \in Seq(Told), told # <<>>, AllExplained(ops, told)
    PROVE  /\ AllExplained(ops, Tail(told))
           /\ AppliedBy(Head(told)) => AllExplained(ops \cup {Head(told).op}, Tail(told))
<1> DEFINE rest == Tail(told)
<1>1. /\ Len(told) \in Nat \ {0} /\ Len(rest) = Len(told) - 1 /\ Head(told) = told[1]
      /\ \A i \in 1..Len(told) - 1 : rest[i] = told[i + 1]
  BY FirstAndRest
<1> HIDE DEF rest
<1>2. \A i \in 1..Len(rest) : i + 1 \in 1..Len(told) /\ rest[i] = told[i + 1]
  BY <1>1
<1>3. ASSUME NEW i \in 1..Len(rest), Shows(rest[i])
      PROVE  /\ \A op \in ops : Explained(op, rest[i])
             /\ \A j \in 1..i : AppliedBy(rest[j]) => Explained(rest[j].op, rest[i])
             /\ AppliedBy(Head(told)) => Explained(Head(told).op, rest[i])
  <2>1. /\ \A op \in ops : Explained(op, told[i + 1])
        /\ \A j \in 1..(i + 1) : AppliedBy(told[j]) => Explained(told[j].op, told[i + 1])
    BY <1>2, <1>3 DEF AllExplained
  <2>2. \A j \in 1..i : j + 1 \in 1..(i + 1) /\ rest[j] = told[j + 1]
    <3>1. \A j \in 1..i : j \in 1..Len(rest) /\ j + 1 \in 1..(i + 1)
      BY <1>1
    <3> QED
      BY <1>2, <3>1
  <2>3. 1 \in 1..(i + 1)
    OBVIOUS
  <2> QED
    BY <1>1, <1>2, <2>1, <2>2, <2>3
<1>4. AllExplained(ops, rest)
  BY <1>3 DEF AllExplained
<1>5. AppliedBy(Head(told)) => AllExplained(ops \cup {Head(told).op}, rest)
  BY <1>3 DEF AllExplained
<1> QED
  BY <1>4, <1>5 DEF rest

LEMMA ExplainedAppend ==
    ASSUME NEW ops, NEW told \in Seq(Told), NEW event \in Told, AllExplained(ops, told),
           Shows(event) => /\ \A op \in ops : Explained(op, event)
                           /\ \A j \in 1..Len(told) : AppliedBy(told[j]) => Explained(told[j].op, event)
    PROVE  AllExplained(ops, Append(told, event))
<1> DEFINE more == Append(told, event)
<1>1. /\ Len(told) \in Nat /\ Len(more) = Len(told) + 1 /\ more[Len(told) + 1] = event
      /\ \A i \in 1..Len(told) : more[i] = told[i]
  BY Appended
<1> HIDE DEF more
<1> SUFFICES ASSUME NEW i \in 1..Len(more), Shows(more[i])
             PROVE  /\ \A op \in ops : Explained(op, more[i])
                    /\ \A j \in 1..i : AppliedBy(more[j]) => Explained(more[j].op, more[i])
  BY DEF AllExplained, more
<1>2. CASE i \in 1..Len(told)
  <2>1. \A j \in 1..i : j \in 1..Len(told)
    BY <1>1, <1>2
  <2>2. Shows(told[i])
    BY <1>1, <1>2
  <2>3. /\ \A op \in ops : Explained(op, told[i])
        /\ \A j \in 1..i : AppliedBy(told[j]) => Explained(told[j].op, told[i])
    BY <1>2, <2>2 DEF AllExplained
  <2> QED
    BY <1>1, <1>2, <2>1, <2>3
<1>3. CASE i = Len(told) + 1
  <2>1. more[i] = event /\ Shows(event)
    BY <1>1, <1>3
  <2>2. ~AppliedBy(event)
    BY <2>1 DEF AppliedBy, Shows
  <2>3. \A j \in 1..i : (j \in 1..Len(told) /\ more[j] = told[j]) \/ more[j] = event
    <3>1. \A j \in 1..i : j \in 1..Len(told) \/ j = Len(told) + 1
      BY <1>1, <1>3
    <3> QED
      BY <1>1, <3>1
  <2> QED
    BY <2>1, <2>2, <2>3
<1> QED
  BY <1>1, <1>2, <1>3

LEMMA SameMemory ==
    ASSUME Remembered, UNCHANGED <<firewall, verify, events, applied, writer>>
    PROVE  Remembered'
  BY DEF Remembered, WritersHold, AllExplained

LEMMA RememberedOfEvents ==
    ASSUME Shape, ReportedOnce, Remembered, ConsumeEvent PROVE Remembered'
<1> DEFINE event == Head(events)
<1>1. /\ events # <<>> /\ events' = Tail(events) /\ events \in Seq(Told) /\ UNCHANGED <<firewall, writer>>
  BY DEF ConsumeEvent, ConsumeFinished, ConsumePlanFinished, ConsumeRefreshed, Shape, history
<1>2. /\ event = events[1] /\ Len(events') = Len(events) - 1 /\ Len(events) \in Nat \ {0}
      /\ \A i \in 1..Len(events) - 1 : events'[i] = events[i + 1]
  BY <1>1, FirstAndRest
<1>3. \A i \in 1..Len(events') : i + 1 \in 1..Len(events) /\ events'[i] = events[i + 1]
  BY <1>2
<1>4. /\ AllExplained(ToSet(verify), events')
      /\ AppliedBy(event) => AllExplained(ToSet(verify) \cup {event.op}, events')
  BY <1>1, ExplainedTail DEF Remembered
<1>5. CASE ConsumeFinished
  <2>1. verify' = (IF event.outcome = "Applied" THEN Append(verify, event.op) ELSE verify) /\ applied' = applied
    BY <1>5, FinishedIs
  <2>2. event.type = "OperationFinished" /\ verify \in Seq(Forward \cup Backward) /\ event.op \in Forward \cup Backward
    BY <1>5, FinishedIs DEF Shape
  <2>3. 1 \in 1..Len(events)
    BY <1>2
  <2>4. \A i \in 1..Len(events') : AppliedBy(events'[i]) => events'[i].op \in applied'
    BY <1>3, <2>1 DEF Remembered
  <2>5. WritersHold'
    BY <1>1, <2>1 DEF Remembered, WritersHold
  <2> HIDE DEF event
  <2>6. CASE event.outcome = "Applied"
    <3>1. AppliedBy(event) /\ event.op \in applied
      BY <1>2, <2>2, <2>3, <2>6 DEF AppliedBy, Remembered
    <3>2. ToSet(verify') = ToSet(verify) \cup {event.op}
      BY <2>1, <2>2, <2>6, Appended
    <3>3. AllExplained(ToSet(verify'), events') /\ ToSet(verify') \subseteq applied'
      BY <1>4, <2>1, <3>1, <3>2 DEF Remembered
    <3> QED
      BY <2>4, <2>5, <3>3 DEF Remembered
  <2>7. CASE event.outcome # "Applied"
    <3>1. verify' = verify
      BY <2>1, <2>7
    <3> QED
      BY <1>4, <2>1, <2>4, <2>5, <3>1 DEF Remembered
  <2> QED
    BY <2>6, <2>7
<1>6. CASE ConsumePlanFinished
  <2>1. UNCHANGED <<verify, applied>>
    BY <1>6 DEF ConsumePlanFinished, changes, history
  <2>2. \A i \in 1..Len(events') : AppliedBy(events'[i]) => events'[i].op \in applied'
    BY <1>3, <2>1 DEF Remembered
  <2>3. WritersHold'
    BY <1>1, <2>1 DEF Remembered, WritersHold
  <2> QED
    BY <1>4, <2>1, <2>2, <2>3 DEF Remembered
<1>7. CASE ConsumeRefreshed
  <2>1. /\ event.ok \in BOOLEAN
        /\ event.ok => verify' = <<>> /\ applied' = applied \ ToSet(verify)
        /\ ~event.ok => UNCHANGED <<verify, applied>>
    BY <1>7, RefreshIs
  <2>2. \A i \in 1..Len(events') : AppliedBy(events'[i]) => events'[i].op \in applied /\ events'[i].op \notin ToSet(verify)
    <3> SUFFICES ASSUME NEW i \in 1..Len(events'), AppliedBy(events'[i])
                 PROVE  events'[i].op \in applied /\ events'[i].op \notin ToSet(verify)
      OBVIOUS
    <3>1. i + 1 \in 1..Len(events) /\ events'[i] = events[i + 1]
      BY <1>3
    <3>2. Live(events[i + 1])
      BY <3>1 DEF Live, AppliedBy
    <3>3. events[i + 1].op \notin Concluded
      BY <3>1, <3>2, LiveNotConcluded
    <3> QED
      BY <3>1, <3>3 DEF Remembered, Concluded
  <2> HIDE DEF event
  <2>3. applied' \subseteq applied /\ ToSet(verify') \subseteq applied' /\ ToSet(verify') \subseteq ToSet(verify)
    BY <2>1, OfNothing DEF Remembered
  <2>4. WritersHold'
    BY <1>1, <2>3 DEF Remembered, WritersHold
  <2>5. \A i \in 1..Len(events') : AppliedBy(events'[i]) => events'[i].op \in applied'
    BY <2>1, <2>2
  <2>6. AllExplained(ToSet(verify'), events')
    BY <1>4, <2>3 DEF AllExplained
  <2> QED
    BY <2>3, <2>4, <2>5, <2>6 DEF Remembered
<1> QED
  BY <1>5, <1>6, <1>7 DEF ConsumeEvent

(* What is executed has its effect, unless it failed, and nothing else sets
   another setting. *)
LEMMA ExecuteHolds ==
    ASSUME Shape, WritersHold, NEW op \in Forward \cup Backward, NEW outcome, Execute(op, outcome)
    PROVE  WritersHold' /\ applied \subseteq applied' /\ (outcome = "Applied" => op \in applied')
<1>1. op.by # "other" /\ op.setting \in Setting /\ op.on \in BOOLEAN
  BY OperationTypes
<1>2. PICK lands \in BOOLEAN :
         /\ firewall' = IF lands THEN Effect(op, firewall) ELSE firewall
         /\ writer' = IF lands THEN [writer EXCEPT ![op.setting] = op] ELSE writer
         /\ applied' = IF outcome = "Applied" THEN applied \cup {op} ELSE applied
  BY DEF Execute
<1>3. applied \subseteq applied' /\ (outcome = "Applied" => op \in applied')
      /\ \A o \in applied' : o \in applied \/ o = op
  BY <1>2
<1>4. \A o \in applied' : o.by # "other"
  BY <1>1, <1>3 DEF WritersHold
<1>5. CASE ~lands
  BY <1>2, <1>3, <1>4, <1>5 DEF WritersHold
<1>6. CASE lands
  <2>1. writer' = [writer EXCEPT ![op.setting] = op] /\ firewall' = Effect(op, firewall)
    BY <1>2, <1>6
  <2>2. writer \in [Setting -> Operations]
    BY DEF Shape
  <2>3. \A s \in Setting : writer'[s] = IF s = op.setting THEN op ELSE writer[s]
    BY <2>1, <2>2
  <2>4. \A s \in Setting : s # op.setting => (s \in firewall' <=> s \in firewall)
    BY <2>1 DEF Effect
  <2>5. Holds(op, firewall')
    <3>1. CASE op.on = TRUE
      BY <2>1, <3>1 DEF Effect, Holds
    <3>2. CASE op.on = FALSE
      <4>1. ~op.on
        BY <3>2
      <4>2. firewall' = firewall \ {op.setting}
        BY <2>1, <4>1 DEF Effect
      <4>3. (op.setting \in firewall') = FALSE
        BY <4>2
      <4> QED
        BY <3>2, <4>3 DEF Holds
    <3> QED
      BY <1>1, <3>1, <3>2
  <2>6. ASSUME NEW s \in Setting, writer'[s].by # "other"
        PROVE  writer'[s].setting = s /\ Holds(writer'[s], firewall')
    <3>1. CASE s = op.setting
      BY <2>3, <2>5, <3>1
    <3>2. CASE s # op.setting
      <4>1. writer'[s] = writer[s] /\ writer[s].setting = s /\ Holds(writer[s], firewall)
        BY <2>3, <2>6, <3>2 DEF WritersHold
      <4>2. (s \in firewall') = (s \in firewall)
        BY <2>4, <3>2
      <4> QED
        BY <4>1, <4>2 DEF Holds
    <3> QED
      BY <3>1, <3>2
  <2> QED
    BY <1>3, <1>4, <2>6 DEF WritersHold
<1> QED
  BY <1>5, <1>6

(* An event that reports no success and shows nothing. *)
LEMMA QuietMemory ==
    ASSUME Shape, Remembered, NEW event \in Told, ~AppliedBy(event), ~Shows(event),
           events' = events \/ events' = Append(events, event), UNCHANGED <<firewall, verify, applied, writer>>
    PROVE  Remembered'
<1>1. events \in Seq(Told)
  BY DEF Shape
<1>2. CASE events' = Append(events, event)
  <2>1. AllExplained(ToSet(verify), events')
    BY <1>1, <1>2, ExplainedAppend DEF Remembered
  <2>2. ASSUME NEW i \in 1..Len(events'), AppliedBy(events'[i]) PROVE events'[i].op \in applied
    <3>1. (i \in 1..Len(events) /\ events'[i] = events[i]) \/ events'[i] = event
      BY <1>1, <1>2, Appended
    <3> QED
      BY <2>2, <3>1 DEF Remembered
  <2> QED
    BY <2>1, <2>2 DEF Remembered, WritersHold
<1>3. CASE events' = events
  BY <1>3, SameMemory
<1> QED
  BY <1>2, <1>3

LEMMA RememberedOfExecution ==
    ASSUME Shape, Remembered, NEW op \in Forward \cup Backward, NEW outcome, Execute(op, outcome),
           NEW event \in Told, events' = Append(events, event), event.type = "OperationFinished",
           event.op = op, event.outcome = outcome, verify' = verify
    PROVE  Remembered'
<1>1. events \in Seq(Told)
  BY DEF Shape
<1>2. WritersHold' /\ applied \subseteq applied' /\ (outcome = "Applied" => op \in applied')
  BY ExecuteHolds DEF Remembered
<1>3. ~Shows(event)
  BY DEF Shows
<1>4. AllExplained(ToSet(verify), events')
  BY <1>1, <1>3, ExplainedAppend DEF Remembered
<1>5. ASSUME NEW i \in 1..Len(events'), AppliedBy(events'[i]) PROVE events'[i].op \in applied'
  <2>1. (i \in 1..Len(events) /\ events'[i] = events[i]) \/ events'[i] = event
    BY <1>1, Appended
  <2>2. CASE i \in 1..Len(events) /\ events'[i] = events[i]
    BY <1>2, <1>5, <2>2 DEF Remembered
  <2>3. CASE events'[i] = event
    BY <1>2, <1>5, <2>3 DEF AppliedBy
  <2> QED
    BY <2>1, <2>2, <2>3
<1> QED
  BY <1>2, <1>4, <1>5 DEF Remembered

(* What was applied and is not in the snapshot was overtaken. *)
LEMMA SnapshotExplains ==
    ASSUME Shape, Remembered, NEW op \in applied
    PROVE  Explained(op, Refreshed)
<1>1. Refreshed.settings = firewall /\ Refreshed.overtaken = Overtaken
  BY DEF Refreshed
<1>2. op.by # "other" /\ op.setting \in Setting
  BY DEF Remembered, WritersHold, Shape, Operations
<1>3. CASE writer[op.setting] = op
  BY <1>1, <1>2, <1>3 DEF Remembered, WritersHold, Explained
<1>4. CASE writer[op.setting] # op
  BY <1>1, <1>4 DEF Overtaken, Explained
<1> QED
  BY <1>3, <1>4

LEMMA RememberedOfEngine ==
    ASSUME Shape, Remembered, EngineWork \/ EngineRead PROVE Remembered'
<1>1. CASE EngineBegin
  <2> DEFINE failed == Finished(Head(Head(lane).ops), "Failed", FALSE)
  <2>1. failed \in Told /\ (events' = events \/ events' = Append(events, failed))
    BY <1>1, BeginIs
  <2>2. ~AppliedBy(failed) /\ ~Shows(failed)
    BY DEF AppliedBy, Shows, Finished
  <2>3. UNCHANGED <<firewall, verify, applied, writer>>
    BY <1>1 DEF EngineBegin, changes
  <2> HIDE DEF failed
  <2> QED
    BY <2>1, <2>2, <2>3, QuietMemory
<1>2. CASE EngineExecute
  <2>1. /\ Head(work.left) \in Forward \cup Backward /\ verify' = verify
        /\ \E outcome \in Outcomes, event \in Told :
              /\ Execute(Head(work.left), outcome)
              /\ events' = Append(events, event)
              /\ event.type = "OperationFinished" /\ event.op = Head(work.left) /\ event.outcome = outcome
    BY <1>2, ExecuteTells
  <2> QED
    BY <2>1, RememberedOfExecution
<1>3. CASE EnginePlanDone
  <2> DEFINE event == PlanFinished(work.left)
  <2>1. events' = Append(events, event) /\ UNCHANGED <<firewall, verify, applied, writer>>
    BY <1>3 DEF EnginePlanDone, changes, history
  <2>2. event \in Told
    BY WorkTypes, ToldIs DEF Shape
  <2>3. ~AppliedBy(event) /\ ~Shows(event)
    BY DEF AppliedBy, Shows, PlanFinished
  <2> HIDE DEF event
  <2> QED
    BY <2>1, <2>2, <2>3, QuietMemory
<1>4. CASE EngineRollback
  <2>1. /\ Head(rollbacks) \in Forward \cup Backward /\ verify' = verify
        /\ \E outcome \in Outcomes, event \in Told :
              /\ Execute(Head(rollbacks), outcome)
              /\ events' = Append(events, event)
              /\ event.type = "OperationFinished" /\ event.op = Head(rollbacks) /\ event.outcome = outcome
    BY <1>4, RollbackTells
  <2> QED
    BY <2>1, RememberedOfExecution
<1>5. CASE EngineRead
  <2>1. PICK event \in Told : /\ event \in {Refreshed, RefreshFailed} /\ event.type = "RefreshFinished"
                              /\ events' = Append(events, event)
    BY <1>5, ReadTells
  <2>2. UNCHANGED <<firewall, verify, applied, writer>> /\ events \in Seq(Told)
    BY <1>5, ReadTells DEF changes, history, Shape
  <2>3. ~AppliedBy(event)
    BY <2>1 DEF AppliedBy
  <2>4. CASE event = RefreshFailed
    <3>1. ~Shows(event)
      BY <2>4 DEF Shows, RefreshFailed
    <3> QED
      BY <2>1, <2>2, <2>3, <3>1, QuietMemory
  <2>5. CASE event = Refreshed
    <3>1. \A op \in applied : Explained(op, event)
      BY <2>5, SnapshotExplains
    <3>2. \A op \in ToSet(verify) : Explained(op, event)
      BY <3>1 DEF Remembered
    <3>3. \A j \in 1..Len(events) : AppliedBy(events[j]) => Explained(events[j].op, event)
      BY <3>1 DEF Remembered
    <3>4. AllExplained(ToSet(verify), events')
      BY <2>1, <2>2, <3>2, <3>3, ExplainedAppend DEF Remembered
    <3>5. ASSUME NEW i \in 1..Len(events'), AppliedBy(events'[i]) PROVE events'[i].op \in applied
      <4>1. (i \in 1..Len(events) /\ events'[i] = events[i]) \/ events'[i] = event
        BY <2>1, <2>2, Appended
      <4> QED
        BY <2>3, <3>5, <4>1 DEF Remembered
    <3> QED
      BY <2>2, <3>4, <3>5 DEF Remembered, WritersHold
  <2> QED
    BY <2>1, <2>4, <2>5
<1> QED
  BY <1>1, <1>2, <1>3, <1>4, <1>5 DEF EngineWork

(* Another program's change is nobody's operation. *)
LEMMA RememberedOfOthers ==
    ASSUME Shape, Remembered, NEW setting \in Setting, ForeignChange(setting) PROVE Remembered'
<1> DEFINE op == Operation(0, setting, setting \notin firewall, "other")
<1>1. /\ firewall' = Effect(op, firewall) /\ writer' = [writer EXCEPT ![setting] = NoWriter]
      /\ UNCHANGED <<verify, events, applied>>
  BY DEF ForeignChange, changes, engine
<1>2. writer \in [Setting -> Operations] /\ NoWriter.by = "other" /\ op.setting = setting
  BY DEF Shape, NoWriter, Operation
<1> HIDE DEF op
<1>3. \A s \in Setting : writer'[s] = IF s = setting THEN NoWriter ELSE writer[s]
  BY <1>1, <1>2
<1>4. \A s \in Setting : s # setting => (s \in firewall') = (s \in firewall)
  BY <1>1, <1>2 DEF Effect
<1>5. ASSUME NEW s \in Setting, writer'[s].by # "other"
      PROVE  writer'[s].setting = s /\ Holds(writer'[s], firewall')
  <2>1. s # setting
    BY <1>2, <1>3, <1>5
  <2>2. writer'[s] = writer[s] /\ writer[s].setting = s /\ Holds(writer[s], firewall)
    BY <1>3, <1>5, <2>1 DEF Remembered, WritersHold
  <2> QED
    BY <1>4, <2>1, <2>2 DEF Holds
<1>6. WritersHold'
  BY <1>1, <1>5 DEF WritersHold, Remembered
<1> QED
  BY <1>1, <1>6 DEF Remembered

LEMMA RememberedStep ==
    ASSUME Shape, ReportedOnce, Remembered, [Next]_vars PROVE Remembered'
<1>1. CASE UNCHANGED vars
  BY <1>1, SameMemory DEF vars, changes, engine, history
<1>2. CASE Person
  <2>1. UNCHANGED <<firewall, verify, events, applied, writer>>
    BY <1>2 DEF Person, Change, Accept, Stage, Cancel, ApplyStagedPlan, DiscardStagedPlan, Restore, BulkDelete,
                KeepChanges, UndoLastOperation, FireRollbacks, changes, engine, history
  <2> QED
    BY <2>1, SameMemory
<1> QED
  BY <1>1, <1>2, RememberedOfEvents, RememberedOfEngine, RememberedOfOthers DEF Next

LEMMA RememberedInit ==
    ASSUME Init PROVE Remembered
<1>1. verify = <<>> /\ events = <<>> /\ applied = {} /\ writer = [s \in Setting |-> NoWriter]
  BY DEF Init
<1>2. \A s \in Setting : writer[s].by = "other"
  BY <1>1 DEF NoWriter, Operation
<1> QED
  BY <1>1, <1>2, OfNothing DEF Remembered, WritersHold, AllExplained

LEMMA WarningIsTrue ==
    ASSUME Shape, Remembered PROVE WarningsAreTrue
<1> SUFFICES ASSUME events # <<>>, Head(events).type = "RefreshFinished", Head(events).ok,
                    NEW op \in ToSet(verify), ~Holds(op, Head(events).settings)
             PROVE  op \in Head(events).overtaken
  BY DEF WarningsAreTrue
<1>1. Head(events) = events[1] /\ 1 \in 1..Len(events)
  BY FirstAndRest DEF Shape
<1>2. Explained(op, events[1])
  BY <1>1 DEF Remembered, AllExplained, Shows
<1> QED
  BY <1>1, <1>2 DEF Explained

-----------------------------------------------------------------------------
(* A plan works on the firewall that was reviewed *)

(* The firewall is what was reviewed and what was done since. *)
AsReviewed(settings, reviewed, done) ==
    \A setting \in Setting :
        LET setBy == {i \in 1..Len(done) : done[i].setting = setting} IN
            setting \in settings <=>
                \/ setBy = {} /\ setting \in reviewed
                \/ \E last \in setBy : done[last].on /\ \A i \in setBy : i <= last

LEMMA AsReviewedFirst ==
    ASSUME NEW settings PROVE AsReviewed(settings, settings, <<>>)
<1>1. \A setting \in Setting : {i \in 1..Len(<<>>) : <<>>[i].setting = setting} = {}
  BY OfNothing
<1> QED
  BY <1>1 DEF AsReviewed

LEMMA AsReviewedThen ==
    ASSUME NEW settings, NEW reviewed, NEW done \in Seq(Operations), NEW op \in Forward,
           AsReviewed(settings, reviewed, done)
    PROVE  AsReviewed(Effect(op, settings), reviewed, Append(done, op))
<1> DEFINE more == Append(done, op)
<1> DEFINE n == Len(done)
<1>1. /\ n \in Nat /\ Len(more) = n + 1 /\ more[n + 1] = op
      /\ \A i \in 1..n : more[i] = done[i]
  <2>1. op \in Operations
    BY OperationTypes
  <2> QED
    BY <2>1, Appended
<1>2. op.on \in BOOLEAN
  BY OperationTypes
<1> HIDE DEF more, n
<1> SUFFICES ASSUME NEW setting \in Setting
             PROVE  LET setBy == {i \in 1..Len(more) : more[i].setting = setting} IN
                        setting \in Effect(op, settings) <=>
                            \/ setBy = {} /\ setting \in reviewed
                            \/ \E last \in setBy : more[last].on /\ \A i \in setBy : i <= last
  BY DEF AsReviewed, more
<1> DEFINE old == {i \in 1..n : done[i].setting = setting}
<1> DEFINE setBy == {i \in 1..Len(more) : more[i].setting = setting}
<1>3. \A i : i \in setBy <=> (i \in old \/ (i = n + 1 /\ op.setting = setting))
  <2>1. \A i \in 1..Len(more) : i \in 1..n \/ i = n + 1
    BY <1>1
  <2>2. (1..n) \subseteq 1..Len(more) /\ n + 1 \in 1..Len(more)
    BY <1>1
  <2> QED
    BY <1>1, <2>1, <2>2
<1>4. setting \in settings <=>
         \/ old = {} /\ setting \in reviewed
         \/ \E last \in old : done[last].on /\ \A i \in old : i <= last
  BY DEF AsReviewed, n
<1>5. \A i \in old : i \in 1..n /\ more[i] = done[i]
  BY <1>1
<1> HIDE DEF old, setBy
<1>6. CASE op.setting = setting
  <2>1. n + 1 \in setBy /\ \A i \in setBy : i <= n + 1
    BY <1>1, <1>3, <1>5, <1>6
  <2>2. \A last \in setBy : (\A i \in setBy : i <= last) => last = n + 1
    BY <1>1, <1>3, <1>5, <2>1
  <2>3. (\E last \in setBy : more[last].on /\ \A i \in setBy : i <= last) <=> op.on
    BY <1>1, <2>1, <2>2
  <2>4. setting \in Effect(op, settings) <=> op.on
    BY <1>6 DEF Effect
  <2> QED
    BY <2>1, <2>3, <2>4 DEF setBy
<1>7. CASE op.setting # setting
  <2>1. setBy = old
    BY <1>3, <1>7
  <2>2. setting \in Effect(op, settings) <=> setting \in settings
    BY <1>7 DEF Effect
  <2> QED
    BY <1>4, <1>5, <2>1, <2>2 DEF setBy
<1> QED
  BY <1>6, <1>7

LEMMA FirewallAsReviewedStep ==
    ASSUME Shape, FirewallAsReviewed, [Next]_vars PROVE FirewallAsReviewed'
<1>0. FirewallAsReviewed = (~Resting /\ ~work.halted /\ ~touched => AsReviewed(firewall, work.expected, work.done))
  BY DEF FirewallAsReviewed, AsReviewed
<1>1. CASE UNCHANGED <<firewall, work, touched>>
  BY <1>1 DEF FirewallAsReviewed, Resting
<1>2. CASE work' = Idle
  BY <1>2 DEF FirewallAsReviewed, Resting
<1>3. CASE EngineBegin
  <2>1. firewall' = firewall
    BY <1>3 DEF EngineBegin
  <2>2. \/ /\ Current(Head(lane)) /\ work'.done = <<>> /\ work'.expected = Head(lane).expected
        \/ work' = Idle
        \/ work'.halted
    BY <1>3, BeginIs
  <2>3. CASE Current(Head(lane)) /\ work'.done = <<>> /\ work'.expected = Head(lane).expected
    <3>1. work'.expected = firewall'
      BY <2>1, <2>3 DEF Current
    <3>2. AsReviewed(firewall', work'.expected, work'.done)
      BY <2>3, <3>1, AsReviewedFirst
    <3> QED
      BY <3>2 DEF FirewallAsReviewed, AsReviewed
  <2>4. CASE work'.halted
    BY <2>4 DEF FirewallAsReviewed
  <2> QED
    BY <1>2, <2>2, <2>3, <2>4
<1>4. CASE EngineExecute
  <2> DEFINE op == Head(work.left)
  <2>1. PICK outcome \in Outcomes :
           /\ Execute(op, outcome)
           /\ work' = IF work.kind = "Apply" THEN Idle
                      ELSE [work EXCEPT !.left = Tail(@), !.done = Append(@, op),
                                        !.halted = outcome # "Applied"]
    BY <1>4, ExecuteTells
  <2>2. /\ op \in Forward /\ work \in Working /\ ~work.halted /\ work # Idle /\ touched' = touched
    BY <1>4, ExecutedIs, ExecuteTells DEF EngineExecute, Resting
  <2> HIDE DEF op
  <2>3. CASE work.kind = "Apply"
    BY <1>2, <2>1, <2>3
  <2>4. CASE work.kind # "Apply"
    <3>1. work = [kind |-> work.kind, left |-> work.left, done |-> work.done,
                  expected |-> work.expected, halted |-> work.halted]
      BY <2>2 DEF Working, Works
    <3>2. /\ work'.done = Append(work.done, op) /\ work'.expected = work.expected
          /\ work'.halted = (outcome # "Applied")
      BY <2>1, <2>4, <3>1
    <3>3. CASE outcome # "Applied"
      BY <3>2, <3>3 DEF FirewallAsReviewed
    <3>4. CASE outcome = "Applied" /\ ~touched
      <4>1. firewall' = Effect(op, firewall)
        BY <2>1, <3>4 DEF Execute
      <4>2. AsReviewed(firewall, work.expected, work.done)
        BY <1>0, <2>2, <3>4 DEF Resting
      <4>3. AsReviewed(firewall', work'.expected, work'.done)
        BY <2>2, <3>2, <4>1, <4>2, WorkTypes, AsReviewedThen
      <4> QED
        BY <4>3 DEF FirewallAsReviewed, AsReviewed
    <3>5. CASE touched
      BY <2>2, <3>5 DEF FirewallAsReviewed
    <3> QED
      BY <3>3, <3>4, <3>5
  <2> QED
    BY <2>3, <2>4
<1>5. CASE EnginePlanDone
  BY <1>2, <1>5 DEF EnginePlanDone
<1>6. CASE EngineRollback
  BY <1>2, <1>6, RollbackTells
<1>7. CASE EngineRead \/ ConsumeEvent \/ Person \/ UNCHANGED vars
  BY <1>1, <1>7 DEF EngineRead, EngineRefresh, ConsumeEvent, ConsumeFinished, ConsumePlanFinished,
        ConsumeRefreshed, Person, Change, Accept, Stage, Cancel, ApplyStagedPlan, DiscardStagedPlan, Restore,
        BulkDelete, KeepChanges, UndoLastOperation, FireRollbacks, engine, history, vars
<1>8. CASE \E setting \in Setting : ForeignChange(setting)
  BY <1>8 DEF ForeignChange, FirewallAsReviewed
<1> QED
  BY <1>3, <1>4, <1>5, <1>6, <1>7, <1>8 DEF Next, EngineWork

-----------------------------------------------------------------------------
(* Together *)

LEMMA ReviewInvInit ==
    ASSUME Init PROVE ReviewInv
<1>1. ArmedNotUndoable /\ FirewallAsReviewed
  BY OfNothing DEF Init, ArmedNotUndoable, FirewallAsReviewed, Resting
<1> QED
  BY <1>1, ShapeInit, OnePlaceInit, PlanPlacedInit, ReportedOnceInit, RememberedInit DEF ReviewInv

LEMMA ReviewInvStep ==
    ASSUME ReviewInv, [Next]_vars PROVE ReviewInv'
<1>1. Shape'
  BY ShapeStep DEF ReviewInv
<1>2. OnePlace' /\ PlanPlaced'
  BY <1>1, OnePlaceStep, PlanPlacedStep DEF ReviewInv
<1>3. ReportedOnce' /\ Remembered'
  BY ReportedOnceStep, RememberedStep DEF ReviewInv
<1>4. ArmedNotUndoable' /\ FirewallAsReviewed'
  BY ArmedNotUndoableStep, FirewallAsReviewedStep DEF ReviewInv
<1> QED
  BY <1>1, <1>2, <1>3, <1>4 DEF ReviewInv

LEMMA ReviewInvHolds == Spec => []ReviewInv
  BY ReviewInvInit, ReviewInvStep, PTL DEF Spec

(* A change that was reviewed is executed at most once: whatever is halted,
   rejected, returned, deleted in bulk or staged again, nothing that was executed
   is where it could be executed again. *)
THEOREM ReviewedIsExecutedOnce == Spec => []ExecutedOnce
<1>1. ReviewInv => ExecutedOnce
  BY OnceIsExecuted DEF ReviewInv
<1> QED
  BY <1>1, ReviewInvHolds, PTL

(* The plan in flight is with the engine or its end is on the way, once, and what
   was not executed of it is with whoever has the plan. *)
THEOREM PlansAreAccounted == Spec => []PlanAccounted
<1>1. ReviewInv => PlanAccounted
  BY PlanIsAccounted DEF ReviewInv
<1> QED
  BY <1>1, ReviewInvHolds, PTL

(* What is under a countdown is not on the undo stack. *)
THEOREM ArmedIsNotUndoable == Spec => []ArmedNotUndoable
<1>1. ReviewInv => ArmedNotUndoable
  BY DEF ReviewInv
<1> QED
  BY <1>1, ReviewInvHolds, PTL

(* A plan executes on the firewall that was on the screen when it was reviewed and
   on its own operations, as long as no other program interferes. *)
THEOREM PlansWorkAsReviewed == Spec => []FirewallAsReviewed
<1>1. ReviewInv => FirewallAsReviewed
  BY DEF ReviewInv
<1> QED
  BY <1>1, ReviewInvHolds, PTL

(* A change that the reducer does not find in a snapshot was applied, and
   overtaken before the snapshot was read. *)
THEOREM NoWarningIsFalse == Spec => []WarningsAreTrue
<1>1. ReviewInv => WarningsAreTrue
  BY WarningIsTrue DEF ReviewInv
<1> QED
  BY <1>1, ReviewInvHolds, PTL

=============================================================================
