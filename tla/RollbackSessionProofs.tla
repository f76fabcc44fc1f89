------------------------ MODULE RollbackSessionProofs ------------------------
(***************************************************************************)
(* The dead man's switch, for every capacity, every countdown and any      *)
(* operations: the accounts are exact, there is room for every inverse,    *)
(* each registration lives the promised life, and a clean exit leaves      *)
(* nothing behind.                                                         *)
(*                                                                         *)
(* Operations are numbered as they are submitted and keep their order on   *)
(* their way: reported ones come before the one that is executed, before   *)
(* those in the lane, before those in the outbox.  From that follows that  *)
(* an operation is in one place, that a plan is the last request until it  *)
(* ends, and that single operations report before the plan's.              *)
(***************************************************************************)
EXTENDS RollbackSessionProperties, SequenceFacts

-----------------------------------------------------------------------------
(* Where operations are *)

IsOp(event) == event.type = "OperationFinished"

ReportedIn(es) == {es[i].id : i \in {j \in 1..Len(es) : IsOp(es[j])}}
ArmedIn(es) == {es[i].id : i \in {j \in 1..Len(es) : es[j].armed}}
OpsIn(lane) == UNION {ToSet(lane[i].ops) : i \in 1..Len(lane)}

Before(A, B) == \A a \in A, b \in B : a < b

(* The operations of a request follow each other; a single one is alone, and a
   plan is named after its first. *)
InSequence(request) ==
    /\ \A i, j \in 1..Len(request.ops) : i < j => request.ops[i] < request.ops[j]
    /\ request.kind = "Apply" => Len(request.ops) = 1
    /\ request.kind \notin {"Apply", "Plan"} => request.ops = <<>>
NamedAfterFirst(request) ==
    request.kind = "Plan" => request.ops # <<>> /\ request.ops[1] = request.id

EventsInOrder(es) ==
    \A i, j \in 1..Len(es) : i < j /\ IsOp(es[i]) /\ IsOp(es[j]) => es[i].id < es[j].id
LaneInOrder(lane) ==
    \A i, j \in 1..Len(lane) : i < j => Before(ToSet(lane[i].ops), ToSet(lane[j].ops))
RiskyArmed(es) == \A i \in 1..Len(es) : es[i].armed => IsOp(es[i]) /\ es[i].id \in Risky

Shapes ==
    /\ InSequence(normal) /\ InSequence(current) /\ NamedAfterFirst(normal)
    /\ \A i \in 1..Len(requestLane) : InSequence(requestLane[i])
    /\ RiskyArmed(events)

(* Reported before executed before waiting, each in the order of submission. *)
InLine(reported, executed, sent, waiting, last) ==
    /\ Before(reported, executed \cup sent \cup waiting)
    /\ Before(executed, sent \cup waiting)
    /\ Before(sent, waiting)
    /\ \A op \in reported \cup executed \cup sent \cup waiting : op <= last

Order ==
    /\ EventsInOrder(events) /\ LaneInOrder(requestLane)
    /\ InLine(ReportedIn(events) \cup registered, ToSet(current.ops), OpsIn(requestLane),
              ToSet(normal.ops), submitted)

-----------------------------------------------------------------------------
(* The plan *)

IsOfPlan(op, p) == p # NoPlan /\ op >= p.id

(* A request is the plan's if its operations are. *)
Belongs(request, p) ==
    /\ request.kind = "Plan" => p # NoPlan /\ request.id = p.id
    /\ \A op \in ToSet(request.ops) : IsOfPlan(op, p) <=> request.kind = "Plan"

(* While it is in flight, a plan is the last request, and its end is the last
   event but for rollbacks. *)
PlanIsLast ==
    /\ plan # NoPlan => plan.id \in Ops
    /\ Belongs(normal, plan) /\ Belongs(current, plan)
    /\ \A i \in 1..Len(requestLane) :
          /\ Belongs(requestLane[i], plan)
          /\ requestLane[i].kind = "Plan" => i = Len(requestLane) /\ normal = NoRequest
    /\ current.kind = "Plan" => requestLane = <<>> /\ normal = NoRequest
    /\ \A i \in 1..Len(events) :
          events[i].type = "PlanFinished" =>
              /\ plan # NoPlan /\ events[i].id = plan.id
              /\ requestLane = <<>> /\ normal = NoRequest /\ current.kind \notin {"Apply", "Plan"}
              /\ \A j \in 1..Len(events) : i < j => events[j].type = "RollbackFinished"

Flow == Shapes /\ Order /\ PlanIsLast

-----------------------------------------------------------------------------
(* Where registrations are *)

ExecutedBy(request) == {r \in Ops : request = RollbackWork(r)}
RanOnce(counts) == {r \in Ops : counts[r] > 0}

(* Each in one place, and there once. *)
Once == IsInjective(Ids(pending)) /\ IsInjective(queue) /\ IsInjective(rollbackLane)

(* A registration on its way to the reducer, on countdown, kept, in the outbox, in
   the engine's lane, being reverted, or reverted. *)
LivesOnce(r, known, arriving, counting, keeping, waiting, sent, executing, reverted) ==
    /\ r \in known <=>
          r \in arriving \cup counting \cup keeping \cup waiting \cup sent \cup executing \cup reverted
    /\ r \in arriving => r \notin counting \cup keeping \cup waiting \cup sent \cup executing \cup reverted
    /\ r \in counting => r \notin keeping \cup waiting \cup sent \cup executing \cup reverted
    /\ r \in keeping => r \notin waiting \cup sent \cup executing \cup reverted
    /\ r \in waiting => r \notin sent \cup executing \cup reverted
    /\ r \in sent => r \notin executing \cup reverted
    /\ r \in executing => r \notin reverted

Located ==
    \A r \in Ops :
        /\ LivesOnce(r, registered, ArmedIn(events), ToSet(Ids(pending)), kept, ToSet(queue),
                     ToSet(rollbackLane), ExecutedBy(current), RanOnce(runs))
        /\ runs[r] <= 1

(* The drain waits for every rollback that was sent. *)
Awaited ==
    /\ \A r \in ToSet(rollbackLane) \cup ExecutedBy(current) :
          r \in inFlight /\ (mode = "Draining" => r \in expected)
    /\ \A i \in 1..Len(events) : events[i].type = "RollbackFinished" => events[i].id \in RanOnce(runs)
    /\ completed \subseteq RanOnce(runs)
    /\ mode = "Draining" => pending = <<>>

SessionInv == AccountsExact /\ Flow /\ Once /\ Located /\ Awaited /\ CleanExitSettlesAll

-----------------------------------------------------------------------------
(* Sequences of events, requests and countdowns *)

LEMMA NothingIn ==
    /\ ReportedIn(<<>>) = {} /\ ArmedIn(<<>>) = {} /\ OpsIn(<<>>) = {}
    /\ EventsInOrder(<<>>) /\ LaneInOrder(<<>>) /\ RiskyArmed(<<>>)
  BY DEF ReportedIn, ArmedIn, OpsIn, EventsInOrder, LaneInOrder, RiskyArmed

LEMMA SetsOfEvents ==
    ASSUME NEW es \in Seq(Events)
    PROVE  /\ ReportedIn(es) \subseteq Ops /\ ArmedIn(es) \subseteq Ops
           /\ \A x : x \in ReportedIn(es) <=> \E i \in 1..Len(es) : IsOp(es[i]) /\ es[i].id = x
           /\ \A x : x \in ArmedIn(es) <=> \E i \in 1..Len(es) : es[i].armed /\ es[i].id = x
<1>1. \A i \in 1..Len(es) : es[i] \in Events
  OBVIOUS
<1>2. \A i \in 1..Len(es) : es[i].id \in Ops
  BY <1>1 DEF Events
<1>3. \A x : x \in ReportedIn(es) <=> \E i \in 1..Len(es) : IsOp(es[i]) /\ es[i].id = x
  BY DEF ReportedIn
<1>4. \A x : x \in ArmedIn(es) <=> \E i \in 1..Len(es) : es[i].armed /\ es[i].id = x
  BY DEF ArmedIn
<1> QED
  BY <1>2, <1>3, <1>4

LEMMA EventAppended ==
    ASSUME NEW es \in Seq(Events), NEW e \in Events
    PROVE  /\ ReportedIn(Append(es, e)) = ReportedIn(es) \cup (IF IsOp(e) THEN {e.id} ELSE {})
           /\ ArmedIn(Append(es, e)) = ArmedIn(es) \cup (IF e.armed THEN {e.id} ELSE {})
           /\ EventsInOrder(es) /\ (IsOp(e) => Before(ReportedIn(es), {e.id}))
                => EventsInOrder(Append(es, e))
           /\ RiskyArmed(es) /\ (e.armed => IsOp(e) /\ e.id \in Risky) => RiskyArmed(Append(es, e))
<1> DEFINE t == Append(es, e)
<1>1. /\ t \in Seq(Events) /\ Len(t) = Len(es) + 1 /\ Len(es) \in Nat
      /\ \A i \in 1..Len(es) : t[i] = es[i]
      /\ t[Len(es) + 1] = e
  OBVIOUS
<1> HIDE DEF t
<1>2. /\ \A i \in 1..Len(t) : i \in 1..Len(es) \/ i = Len(es) + 1
      /\ \A i \in 1..Len(es) : i \in 1..Len(t)
      /\ Len(es) + 1 \in 1..Len(t)
  BY <1>1
<1>3. /\ \A x : x \in ReportedIn(es) <=> \E i \in 1..Len(es) : IsOp(es[i]) /\ es[i].id = x
      /\ \A x : x \in ArmedIn(es) <=> \E i \in 1..Len(es) : es[i].armed /\ es[i].id = x
  BY SetsOfEvents
<1>4. /\ \A x : x \in ReportedIn(t) <=> \E i \in 1..Len(t) : IsOp(t[i]) /\ t[i].id = x
      /\ \A x : x \in ArmedIn(t) <=> \E i \in 1..Len(t) : t[i].armed /\ t[i].id = x
  BY <1>1, SetsOfEvents
<1>5. \A x : x \in ReportedIn(t) <=> x \in ReportedIn(es) \/ (IsOp(e) /\ x = e.id)
  BY <1>1, <1>2, <1>3, <1>4
<1>6. \A x : x \in ArmedIn(t) <=> x \in ArmedIn(es) \/ (e.armed /\ x = e.id)
  BY <1>1, <1>2, <1>3, <1>4
<1>7. ASSUME EventsInOrder(es), IsOp(e) => Before(ReportedIn(es), {e.id}) PROVE EventsInOrder(t)
  <2> SUFFICES ASSUME NEW i \in 1..Len(t), NEW j \in 1..Len(t), i < j, IsOp(t[i]), IsOp(t[j])
               PROVE  t[i].id < t[j].id
    BY DEF EventsInOrder
  <2>1. CASE j \in 1..Len(es)
    <3>1. i \in 1..Len(es)
      BY <2>1
    <3> QED
      BY <1>1, <1>7, <2>1, <3>1 DEF EventsInOrder
  <2>2. CASE j = Len(es) + 1
    <3>1. i \in 1..Len(es)
      BY <1>1, <2>2
    <3>2. es[i].id \in ReportedIn(es) /\ IsOp(e)
      BY <1>1, <1>3, <2>2, <3>1
    <3> QED
      BY <1>1, <1>7, <2>2, <3>1, <3>2 DEF Before
  <2> QED
    BY <1>2, <2>1, <2>2
<1>8. ASSUME RiskyArmed(es), e.armed => IsOp(e) /\ e.id \in Risky PROVE RiskyArmed(t)
  BY <1>1, <1>2, <1>8 DEF RiskyArmed
<1>9. /\ ReportedIn(t) = ReportedIn(es) \cup (IF IsOp(e) THEN {e.id} ELSE {})
      /\ ArmedIn(t) = ArmedIn(es) \cup (IF e.armed THEN {e.id} ELSE {})
  BY <1>5, <1>6
<1> QED
  BY <1>7, <1>8, <1>9 DEF t

(* The event that is read first is the first of what it reports. *)
LEMMA EventRead ==
    ASSUME NEW es \in Seq(Events), es # <<>>, EventsInOrder(es), RiskyArmed(es)
    PROVE  /\ Head(es) \in Events /\ Head(es) = es[1] /\ Tail(es) \in Seq(Events)
           /\ ReportedIn(es) = ReportedIn(Tail(es)) \cup (IF IsOp(Head(es)) THEN {Head(es).id} ELSE {})
           /\ ArmedIn(es) = ArmedIn(Tail(es)) \cup (IF Head(es).armed THEN {Head(es).id} ELSE {})
           /\ EventsInOrder(Tail(es)) /\ RiskyArmed(Tail(es))
           /\ IsOp(Head(es)) => Before({Head(es).id}, ReportedIn(Tail(es)))
           /\ Head(es).armed => IsOp(Head(es)) /\ Head(es).id \in Risky
           /\ ArmedIn(Tail(es)) \subseteq ReportedIn(Tail(es))
<1> DEFINE t == Tail(es)
<1>1. /\ Len(es) \in Nat \ {0} /\ Head(es) = es[1] /\ Head(es) \in Events
      /\ t \in Seq(Events) /\ Len(t) = Len(es) - 1
      /\ \A i \in 1..Len(es) - 1 : t[i] = es[i + 1]
  OBVIOUS
<1> HIDE DEF t
<1>2. /\ \A i \in 1..Len(t) : i + 1 \in 1..Len(es) /\ t[i] = es[i + 1] /\ 1 < i + 1
      /\ \A i \in 1..Len(es) : i = 1 \/ (i - 1 \in 1..Len(t) /\ es[i] = t[i - 1])
      /\ 1 \in 1..Len(es)
  BY <1>1
<1>3. /\ \A x : x \in ReportedIn(es) <=> \E i \in 1..Len(es) : IsOp(es[i]) /\ es[i].id = x
      /\ \A x : x \in ArmedIn(es) <=> \E i \in 1..Len(es) : es[i].armed /\ es[i].id = x
  BY SetsOfEvents
<1>4. /\ \A x : x \in ReportedIn(t) <=> \E i \in 1..Len(t) : IsOp(t[i]) /\ t[i].id = x
      /\ \A x : x \in ArmedIn(t) <=> \E i \in 1..Len(t) : t[i].armed /\ t[i].id = x
  BY <1>1, SetsOfEvents
<1>5. \A x : x \in ReportedIn(es) <=> x \in ReportedIn(t) \/ (IsOp(es[1]) /\ x = es[1].id)
  <2>1. \A x : x \in ReportedIn(es) => x \in ReportedIn(t) \/ (IsOp(es[1]) /\ x = es[1].id)
    BY <1>2, <1>3, <1>4
  <2>2. \A x : x \in ReportedIn(t) => x \in ReportedIn(es)
    BY <1>2, <1>3, <1>4
  <2>3. \A x : IsOp(es[1]) /\ x = es[1].id => x \in ReportedIn(es)
    BY <1>2, <1>3
  <2> QED
    BY <2>1, <2>2, <2>3
<1>6. \A x : x \in ArmedIn(es) <=> x \in ArmedIn(t) \/ (es[1].armed /\ x = es[1].id)
  <2>1. \A x : x \in ArmedIn(es) => x \in ArmedIn(t) \/ (es[1].armed /\ x = es[1].id)
    <3>1. ASSUME NEW i \in 1..Len(es), es[i].armed
          PROVE  es[i].id \in ArmedIn(t) \/ (es[1].armed /\ es[i].id = es[1].id)
      <4>1. CASE i = 1
        BY <3>1, <4>1
      <4>2. CASE i - 1 \in 1..Len(t) /\ es[i] = t[i - 1]
        BY <1>4, <3>1, <4>2
      <4> QED
        BY <1>2, <4>1, <4>2
    <3> QED
      BY <1>3, <3>1
  <2>2. \A x : x \in ArmedIn(t) \/ (es[1].armed /\ x = es[1].id) => x \in ArmedIn(es)
    BY <1>2, <1>3, <1>4
  <2> QED
    BY <2>1, <2>2
<1>7. EventsInOrder(t)
  <2> SUFFICES ASSUME NEW i \in 1..Len(t), NEW j \in 1..Len(t), i < j, IsOp(t[i]), IsOp(t[j])
               PROVE  t[i].id < t[j].id
    BY DEF EventsInOrder
  <2>1. i + 1 \in 1..Len(es) /\ j + 1 \in 1..Len(es) /\ i + 1 < j + 1
    BY <1>2
  <2> QED
    BY <1>2, <2>1 DEF EventsInOrder
<1>8. RiskyArmed(t) /\ (es[1].armed => IsOp(es[1]) /\ es[1].id \in Risky)
  BY <1>2 DEF RiskyArmed
<1>9. IsOp(es[1]) => Before({es[1].id}, ReportedIn(t))
  BY <1>2, <1>4 DEF EventsInOrder, Before
<1>10. ArmedIn(t) \subseteq ReportedIn(t)
  BY <1>4, <1>8 DEF RiskyArmed
<1>11. /\ ReportedIn(es) = ReportedIn(t) \cup (IF IsOp(es[1]) THEN {es[1].id} ELSE {})
       /\ ArmedIn(es) = ArmedIn(t) \cup (IF es[1].armed THEN {es[1].id} ELSE {})
  BY <1>5, <1>6
<1> QED
  BY <1>1, <1>7, <1>8, <1>9, <1>10, <1>11 DEF t

LEMMA SetOfLane ==
    ASSUME NEW lane \in Seq(Requests)
    PROVE  /\ OpsIn(lane) \subseteq Ops
           /\ \A x : x \in OpsIn(lane) <=> \E i \in 1..Len(lane) : x \in ToSet(lane[i].ops)
<1>1. \A x : x \in OpsIn(lane) <=> \E i \in 1..Len(lane) : x \in ToSet(lane[i].ops)
  BY DEF OpsIn
<1>2. \A i \in 1..Len(lane) : lane[i].ops \in Seq(Ops)
  <2>1. \A i \in 1..Len(lane) : lane[i] \in Requests
    OBVIOUS
  <2> QED
    BY <2>1 DEF Requests
<1>3. \A i \in 1..Len(lane) : ToSet(lane[i].ops) \subseteq Ops
  BY <1>2, ElementsOf
<1> QED
  BY <1>1, <1>3

LEMMA RequestSent ==
    ASSUME NEW lane \in Seq(Requests), NEW request \in Requests
    PROVE  /\ OpsIn(Append(lane, request)) = OpsIn(lane) \cup ToSet(request.ops)
           /\ LaneInOrder(lane) /\ Before(OpsIn(lane), ToSet(request.ops))
                => LaneInOrder(Append(lane, request))
<1> DEFINE t == Append(lane, request)
<1>1. /\ t \in Seq(Requests) /\ Len(t) = Len(lane) + 1 /\ Len(lane) \in Nat
      /\ \A i \in 1..Len(lane) : t[i] = lane[i]
      /\ t[Len(lane) + 1] = request
  OBVIOUS
<1> HIDE DEF t
<1>2. /\ \A i \in 1..Len(t) : i \in 1..Len(lane) \/ i = Len(lane) + 1
      /\ \A i \in 1..Len(lane) : i \in 1..Len(t)
      /\ Len(lane) + 1 \in 1..Len(t)
  BY <1>1
<1>3. /\ \A x : x \in OpsIn(lane) <=> \E i \in 1..Len(lane) : x \in ToSet(lane[i].ops)
      /\ \A x : x \in OpsIn(t) <=> \E i \in 1..Len(t) : x \in ToSet(t[i].ops)
  BY <1>1, SetOfLane
<1>4. \A x : x \in OpsIn(t) <=> x \in OpsIn(lane) \/ x \in ToSet(request.ops)
  BY <1>1, <1>2, <1>3
<1>5. OpsIn(t) = OpsIn(lane) \cup ToSet(request.ops)
  BY <1>4
<1>6. ASSUME LaneInOrder(lane), Before(OpsIn(lane), ToSet(request.ops)) PROVE LaneInOrder(t)
  <2> SUFFICES ASSUME NEW i \in 1..Len(t), NEW j \in 1..Len(t), i < j
               PROVE  Before(ToSet(t[i].ops), ToSet(t[j].ops))
    BY DEF LaneInOrder
  <2>1. CASE j \in 1..Len(lane)
    <3>1. i \in 1..Len(lane)
      BY <2>1
    <3> QED
      BY <1>1, <1>6, <2>1, <3>1 DEF LaneInOrder
  <2>2. CASE j = Len(lane) + 1
    <3>1. i \in 1..Len(lane)
      BY <1>1, <2>2
    <3>2. ToSet(t[i].ops) \subseteq OpsIn(lane)
      BY <1>1, <1>3, <3>1
    <3> QED
      BY <1>1, <1>6, <2>2, <3>2 DEF Before
  <2> QED
    BY <1>2, <2>1, <2>2
<1> QED
  BY <1>5, <1>6 DEF t

LEMMA RequestTaken ==
    ASSUME NEW lane \in Seq(Requests), lane # <<>>, LaneInOrder(lane)
    PROVE  /\ Head(lane) \in Requests /\ Head(lane) = lane[1] /\ Tail(lane) \in Seq(Requests)
           /\ OpsIn(lane) = ToSet(Head(lane).ops) \cup OpsIn(Tail(lane))
           /\ LaneInOrder(Tail(lane))
           /\ Before(ToSet(Head(lane).ops), OpsIn(Tail(lane)))
<1> DEFINE t == Tail(lane)
<1>1. /\ Len(lane) \in Nat \ {0} /\ Head(lane) = lane[1] /\ Head(lane) \in Requests
      /\ t \in Seq(Requests) /\ Len(t) = Len(lane) - 1
      /\ \A i \in 1..Len(lane) - 1 : t[i] = lane[i + 1]
  OBVIOUS
<1> HIDE DEF t
<1>2. /\ \A i \in 1..Len(t) : i + 1 \in 1..Len(lane) /\ t[i] = lane[i + 1] /\ 1 < i + 1
      /\ \A i \in 1..Len(lane) : i = 1 \/ (i - 1 \in 1..Len(t) /\ lane[i] = t[i - 1])
      /\ 1 \in 1..Len(lane)
  BY <1>1
<1>3. /\ \A x : x \in OpsIn(lane) <=> \E i \in 1..Len(lane) : x \in ToSet(lane[i].ops)
      /\ \A x : x \in OpsIn(t) <=> \E i \in 1..Len(t) : x \in ToSet(t[i].ops)
  BY <1>1, SetOfLane
<1>4. \A x : x \in OpsIn(lane) <=> x \in OpsIn(t) \/ x \in ToSet(lane[1].ops)
  <2>1. \A x : x \in OpsIn(lane) => x \in OpsIn(t) \/ x \in ToSet(lane[1].ops)
    BY <1>2, <1>3
  <2>2. \A x : x \in OpsIn(t) => x \in OpsIn(lane)
    BY <1>2, <1>3
  <2>3. \A x : x \in ToSet(lane[1].ops) => x \in OpsIn(lane)
    BY <1>2, <1>3
  <2> QED
    BY <2>1, <2>2, <2>3
<1>5. OpsIn(lane) = ToSet(lane[1].ops) \cup OpsIn(t)
  BY <1>4
<1>6. LaneInOrder(t)
  <2> SUFFICES ASSUME NEW i \in 1..Len(t), NEW j \in 1..Len(t), i < j
               PROVE  Before(ToSet(t[i].ops), ToSet(t[j].ops))
    BY DEF LaneInOrder
  <2>1. i + 1 \in 1..Len(lane) /\ j + 1 \in 1..Len(lane) /\ i + 1 < j + 1
    BY <1>2
  <2> QED
    BY <1>2, <2>1 DEF LaneInOrder
<1>7. Before(ToSet(lane[1].ops), OpsIn(t))
  BY <1>2, <1>3 DEF LaneInOrder, Before
<1> QED
  BY <1>1, <1>5, <1>6, <1>7 DEF t

LEMMA IdsOf ==
    ASSUME NEW c \in Seq(Countdowns)
    PROVE  /\ Ids(c) \in Seq(Ops) /\ Len(Ids(c)) = Len(c)
           /\ \A i \in 1..Len(c) : Ids(c)[i] = c[i].id
<1>1. \A i \in 1..Len(c) : c[i] \in Countdowns
  OBVIOUS
<1>2. \A i \in 1..Len(c) : c[i].id \in Ops
  BY <1>1 DEF Countdowns
<1> QED
  BY <1>2 DEF Ids

-----------------------------------------------------------------------------
(* The parts of AccountsExact *)

Alone(U, p) == {op \in U \cap Risky : ~IsOfPlan(op, p)}
Planned(U, p) == {op \in U \cap Risky : IsOfPlan(op, p)}

Accounts ==
    /\ reservations = singles + (plan.total - plan.consumed)
    /\ singles = Cardinality(Alone(Unreported, plan))
    /\ Cardinality(Planned(Unreported, plan)) <= plan.total - plan.consumed

MirrorsExact ==
    mode = "Running" => busyMirror = (normal # NoRequest) /\ queueMirror = Len(queue)

LEMMA PartsOfAccounts ==
    AccountsExact <=> TypeOK /\ RoomForEveryInverse /\ OldestFirst /\ Accounts /\ MirrorsExact
  BY DEF AccountsExact, Accounts, MirrorsExact, Alone, Planned, IsOfPlan, OfPlan

LEMMA UnreportedIs ==
    Unreported = ToSet(normal.ops) \cup ToSet(current.ops) \cup OpsIn(requestLane)
                    \cup ReportedIn(events)
<1>1. OpsIn(requestLane) = UNION {ToSet(requestLane[i].ops) : i \in 1..Len(requestLane)}
  BY DEF OpsIn
<1>2. ReportedIn(events) = {events[i].id : i \in {j \in 1..Len(events) : events[j].type = "OperationFinished"}}
  BY DEF ReportedIn, IsOp
<1> QED
  BY <1>1, <1>2 DEF Unreported

LEMMA UnreportedNextIs ==
    Unreported' = ToSet(normal'.ops) \cup ToSet(current'.ops) \cup OpsIn(requestLane')
                    \cup ReportedIn(events')
<1>1. OpsIn(requestLane') = UNION {ToSet(requestLane'[i].ops) : i \in 1..Len(requestLane')}
  BY DEF OpsIn
<1>2. ReportedIn(events') = {events'[i].id : i \in {j \in 1..Len(events') : events'[j].type = "OperationFinished"}}
  BY DEF ReportedIn, IsOp
<1> QED
  BY <1>1, <1>2 DEF Unreported

LEMMA RequestTypes ==
    /\ \A request \in Requests : request.ops \in Seq(Ops) /\ request.id \in Ops
    /\ NoRequest.ops = <<>> /\ NoRequest.kind = "None"
    /\ \A r : RollbackWork(r).ops = <<>> /\ RollbackWork(r).kind = "Rollback" /\ RollbackWork(r).id = r
  BY DEF Requests, NoRequest, RollbackWork

LEMMA OpsAreOps ==
    ASSUME TypeOK
    PROVE  /\ ToSet(normal.ops) \subseteq Ops /\ ToSet(current.ops) \subseteq Ops
           /\ OpsIn(requestLane) \subseteq Ops /\ ReportedIn(events) \subseteq Ops
           /\ Unreported \subseteq Ops /\ IsFiniteSet(Unreported)
           /\ normal.ops \in Seq(Ops) /\ current.ops \in Seq(Ops)
<1>1. normal.ops \in Seq(Ops) /\ current.ops \in Seq(Ops)
  <2>1. normal.ops \in Seq(Ops)
    BY RequestTypes, OfNothing DEF TypeOK
  <2>2. current \in Requests \/ current = NoRequest \/ \E r \in Ops : current = RollbackWork(r)
    BY DEF TypeOK
  <2>3. current.ops \in Seq(Ops)
    BY <2>2, RequestTypes, OfNothing
  <2> QED
    BY <2>1, <2>3
<1>2. ToSet(normal.ops) \subseteq Ops /\ ToSet(current.ops) \subseteq Ops
  BY <1>1, ElementsOf
<1>3. OpsIn(requestLane) \subseteq Ops
  BY SetOfLane DEF TypeOK
<1>4. ReportedIn(events) \subseteq Ops
  BY SetsOfEvents DEF TypeOK
<1>5. Unreported \subseteq Ops
  BY <1>2, <1>3, <1>4, UnreportedIs
<1>6. IsFiniteSet(Ops)
  BY FS_Interval, SessionAssumption DEF Ops
<1>7. IsFiniteSet(Unreported)
  BY <1>5, <1>6, FS_Subset
<1> QED
  BY <1>1, <1>2, <1>3, <1>4, <1>5, <1>7

(* An unreported risky operation holds a place, from the single ones or from the
   plan. *)
LEMMA PlaceHeld ==
    ASSUME TypeOK, Accounts, NEW op \in Unreported \cap Risky
    PROVE  /\ reservations >= 1
           /\ ~IsOfPlan(op, plan) => singles >= 1
           /\ IsOfPlan(op, plan) => plan.consumed < plan.total
<1>1. IsFiniteSet(Unreported)
  BY OpsAreOps
<1>2. /\ Alone(Unreported, plan) \subseteq Unreported
      /\ Planned(Unreported, plan) \subseteq Unreported
  BY DEF Alone, Planned
<1>3. /\ IsFiniteSet(Alone(Unreported, plan)) /\ Cardinality(Alone(Unreported, plan)) \in Nat
      /\ IsFiniteSet(Planned(Unreported, plan)) /\ Cardinality(Planned(Unreported, plan)) \in Nat
  BY <1>1, <1>2, FS_Subset, FS_CardinalityType
<1>4. singles \in Nat /\ reservations \in Nat /\ plan.total \in Nat /\ plan.consumed \in Nat
  BY DEF TypeOK
<1>5. CASE IsOfPlan(op, plan)
  <2>1. Planned(Unreported, plan) # {}
    BY <1>5 DEF Planned
  <2>2. Cardinality(Planned(Unreported, plan)) # 0
    BY <1>3, <2>1, FS_EmptySet
  <2> QED
    BY <1>3, <1>4, <1>5, <2>2 DEF Accounts
<1>6. CASE ~IsOfPlan(op, plan)
  <2>1. Alone(Unreported, plan) # {}
    BY <1>6 DEF Alone
  <2>2. Cardinality(Alone(Unreported, plan)) # 0
    BY <1>3, <2>1, FS_EmptySet
  <2> QED
    BY <1>3, <1>4, <1>6, <2>2 DEF Accounts
<1> QED
  BY <1>5, <1>6

-----------------------------------------------------------------------------
(* The outbox, when there is room *)

LEMMA SmallerIs ==
    ASSUME NEW m \in Int, NEW n \in Int, m <= n
    PROVE  Smaller(m, n) = m
  BY DEF Smaller

LEMMA BatchFired ==
    ASSUME NEW batch \in Seq(Ops), queue \in Seq(Ops),
           Len(queue) + Len(batch) <= OutboxCapacity, Fire(batch)
    PROVE  queue' = queue \o batch
<1>1. Len(batch) \in Nat /\ Len(queue) \in Nat /\ OutboxCapacity \in Nat
  BY SessionAssumption
<1>2. Smaller(Len(batch), OutboxCapacity - Len(queue)) = Len(batch)
  BY <1>1, SmallerIs
<1>3. SubSeq(batch, 1, Len(batch)) = batch
  BY <1>1, Prefix
<1> QED
  BY <1>2, <1>3 DEF Fire

LEMMA OutboxFilled ==
    ASSUME NEW waiting \in Seq(Ops), NEW box \in Seq(Ops),
           Len(box) + Len(waiting) <= OutboxCapacity, Fill(waiting, box)
    PROVE  queue' = box \o waiting /\ deferred' = <<>>
<1>1. Len(waiting) \in Nat /\ Len(box) \in Nat /\ OutboxCapacity \in Nat
  BY SessionAssumption
<1>2. Smaller(Len(waiting), OutboxCapacity - Len(box)) = Len(waiting)
  BY <1>1, SmallerIs
<1>3. SubSeq(waiting, 1, Len(waiting)) = waiting
  BY <1>1, Prefix
<1>4. SubSeq(waiting, Len(waiting) + 1, Len(waiting)) = <<>>
  BY <1>1, Suffix
<1> QED
  BY <1>2, <1>3, <1>4 DEF Fill

(* The mirrors are exact after each step that leaves room for every inverse. *)
LEMMA Mirrored ==
    ASSUME TypeOK, MirrorsExact, mode = "Running", Mirror,
           queue' \in Seq(Ops), pending' \in Seq(Countdowns), reservations' \in Nat,
           Len(pending') + Len(queue') + reservations' <= OutboxCapacity
    PROVE  busyMirror' = (normal' # NoRequest) /\ queueMirror' = Len(queue')
<1> DEFINE announced == IF Len(queue') > Len(queue) THEN (Len(queue) + 1)..Len(queue') ELSE {Len(queue')}
<1> DEFINE valid == {n \in announced : Len(pending') + n + reservations' <= OutboxCapacity}
<1>0. queue \in Seq(Ops)
  BY DEF TypeOK
<1>1. /\ Len(queue) \in Nat /\ Len(queue') \in Nat /\ Len(pending') \in Nat
      /\ OutboxCapacity \in Nat
  BY <1>0, SessionAssumption
<1>2. Len(queue') \in valid /\ \A n \in valid : n <= Len(queue') /\ n \in Int
  BY <1>1
<1>3. Max(valid) = Len(queue')
  <2>1. Max(valid) = CHOOSE x \in valid : \A y \in valid : x >= y
    BY DEF Max
  <2>2. \A x \in valid : (\A y \in valid : x >= y) => x = Len(queue')
    BY <1>1, <1>2
  <2>3. \A y \in valid : Len(queue') >= y
    BY <1>1, <1>2
  <2> HIDE DEF valid
  <2> QED
    BY <1>2, <2>1, <2>2, <2>3
<1>4. CASE normal' = normal /\ queue' = queue
  BY <1>4 DEF Mirror, mirrors, MirrorsExact
<1>5. CASE ~(normal' = normal /\ queue' = queue)
  <2>1. valid # {}
    BY <1>2
  <2>2. busyMirror' = (normal' # NoRequest) /\ queueMirror' = Max(valid)
    BY <1>5, <2>1 DEF Mirror
  <2> QED
    BY <1>3, <2>2
<1> QED
  BY <1>4, <1>5

-----------------------------------------------------------------------------
(* Countdowns that are fired *)

(* The oldest k countdowns leave for the outbox, newest first. *)
OldestLeave(k) ==
    /\ pending' \in Seq(Countdowns) /\ OldestFirst'
    /\ Ids(pending') = SubSeq(Ids(pending), k + 1, Len(pending))
    /\ queue' = queue \o Reverse(SubSeq(Ids(pending), 1, k))

(* There is room for every countdown. *)
LEMMA RoomFor ==
    ASSUME TypeOK, RoomForEveryInverse
    PROVE  /\ Len(pending) \in Nat /\ Len(queue) \in Nat /\ reservations \in Nat /\ OutboxCapacity \in Nat
           /\ Len(queue) + Len(pending) + reservations <= OutboxCapacity
           /\ pending \in Seq(Countdowns) /\ queue \in Seq(Ops) /\ deferred = <<>>
           /\ Ids(pending) \in Seq(Ops) /\ Len(Ids(pending)) = Len(pending)
<1>1. pending \in Seq(Countdowns) /\ queue \in Seq(Ops) /\ reservations \in Nat
  BY DEF TypeOK
<1>2. Len(pending) \in Nat /\ Len(queue) \in Nat /\ OutboxCapacity \in Nat
  BY <1>1, SessionAssumption
<1> QED
  BY <1>1, <1>2, IdsOf DEF RoomForEveryInverse

LEMMA FrontOf ==
    ASSUME TypeOK, RoomForEveryInverse, NEW k \in 0..Len(pending)
    PROVE  LET batch == Reverse(SubSeq(Ids(pending), 1, k)) IN
           /\ batch \in Seq(Ops) /\ Len(batch) = k
           /\ ToSet(batch) = ToSet(SubSeq(Ids(pending), 1, k))
           /\ IsInjective(Ids(pending)) => IsInjective(batch)
<1> DEFINE s == Ids(pending)
<1> DEFINE f == SubSeq(s, 1, k)
<1>1. s \in Seq(Ops) /\ k \in 0..Len(s)
  BY RoomFor
<1> HIDE DEF s
<1>2. f \in Seq(Ops) /\ Len(f) = k /\ (IsInjective(s) => IsInjective(f))
  BY <1>1, Prefix, Cut
<1> HIDE DEF f
<1>3. /\ Reverse(f) \in Seq(Ops) /\ Len(Reverse(f)) = k /\ ToSet(Reverse(f)) = ToSet(f)
      /\ IsInjective(s) => IsInjective(Reverse(f))
  BY <1>2, Reversed
<1> QED
  BY <1>3 DEF f, s

(* Every countdown by hand or at the exit. *)
LEMMA AllFired ==
    ASSUME TypeOK, RoomForEveryInverse, pending' = <<>>,
           queue' = queue \o Reverse(Ids(pending))
    PROVE  OldestLeave(Len(pending))
<1>1. Ids(pending) \in Seq(Ops) /\ Len(Ids(pending)) = Len(pending) /\ Len(pending) \in Nat
  BY RoomFor
<1>2. SubSeq(Ids(pending), 1, Len(pending)) = Ids(pending)
  BY <1>1, Prefix
<1>3. SubSeq(Ids(pending), Len(pending) + 1, Len(pending)) = <<>>
  BY <1>1, Suffix
<1>4. Ids(pending') = <<>>
  BY DEF Ids
<1>5. pending' \in Seq(Countdowns) /\ OldestFirst'
  BY DEF OldestFirst
<1> QED
  BY <1>2, <1>3, <1>4, <1>5 DEF OldestLeave

(* The reversed identifiers of all countdowns find room. *)
LEMMA AllReversed ==
    ASSUME TypeOK, RoomForEveryInverse
    PROVE  /\ Reverse(Ids(pending)) \in Seq(Ops)
           /\ Len(queue) + Len(Reverse(Ids(pending))) <= OutboxCapacity
           /\ Len(Reverse(Ids(pending))) = Len(pending)
  BY RoomFor, Reversed

(* A tick fires those that expired: they are the oldest. *)
LEMMA TickFires ==
    ASSUME TypeOK, RoomForEveryInverse, OldestFirst, Tick
    PROVE  \E k \in 0..Len(pending) : OldestLeave(k)
<1> DEFINE n == Len(pending)
<1> DEFINE E == {i \in 1..Len(Ticked) : Expired(Ticked[i])}
<1>1. /\ n \in Nat /\ pending \in Seq(Countdowns) /\ queue \in Seq(Ops)
      /\ Len(queue) + n <= OutboxCapacity /\ Len(queue) \in Nat /\ OutboxCapacity \in Nat
  BY RoomFor
<1>2. \A i \in 1..n : pending[i] \in Countdowns
  BY <1>1
<1>3. \A i \in 1..n : pending[i].id \in Ops /\ pending[i].left \in 1..RollbackTicks
  BY <1>2 DEF Countdowns
<1>4. /\ Len(Ticked) = n
      /\ \A i \in 1..n : Ticked[i] = [pending[i] EXCEPT !.left = @ - 1]
  BY <1>1 DEF Ticked
<1>5. \A i \in 1..n : Ticked[i].id = pending[i].id /\ Ticked[i].left = pending[i].left - 1
  BY <1>2, <1>4 DEF Countdowns
<1>6. \A i, j \in 1..n : i < j /\ j \in E => i \in E
  BY <1>3, <1>4, <1>5 DEF OldestFirst, Expired
<1>7. E \in SUBSET (1..n)
  BY <1>4
<1>8. ExpiredNow = Cardinality(E)
  BY DEF ExpiredNow
<1> HIDE DEF E
<1> DEFINE k == ExpiredNow
<1>9. k \in 0..n /\ E = 1..k
  BY <1>1, <1>6, <1>7, <1>8, FirstOnes
<1> HIDE DEF k
<1>10. \A i \in 1..n : i \notin 1..k => Ticked[i].left >= 1
  BY <1>3, <1>4, <1>5, <1>9 DEF Expired, E
<1>11. ASSUME NEW i \in 1..n PROVE Ticked[i] \in [id : Ops, left : 0..RollbackTicks]
  <2>1. Ticked[i] = [id |-> pending[i].id, left |-> pending[i].left - 1]
    BY <1>2, <1>4 DEF Countdowns
  <2>2. pending[i].left - 1 \in 0..RollbackTicks
    BY <1>3, SessionAssumption
  <2> QED
    BY <1>3, <2>1, <2>2
<1>12. Ticked \in Seq([id : Ops, left : 0..RollbackTicks])
  BY <1>1, <1>4, <1>11 DEF Ticked
<1> DEFINE rest == SubSeq(Ticked, k + 1, Len(Ticked))
<1>13. /\ Len(rest) = n - k
       /\ \A i \in 1..n - k : rest[i] = Ticked[i + k]
       /\ rest \in Seq([id : Ops, left : 0..RollbackTicks])
  <2>1. k \in 0..Len(Ticked)
    BY <1>4, <1>9
  <2>2. /\ rest \in Seq([id : Ops, left : 0..RollbackTicks])
        /\ Len(rest) = Len(Ticked) - k
        /\ \A i \in 1..Len(Ticked) - k : rest[i] = Ticked[i + k]
    BY <1>12, <2>1, Suffix
  <2> QED
    BY <1>4, <2>2
<1>14. pending' = rest
  BY DEF Tick, k
<1> HIDE DEF rest
<1>15. \A i \in 1..n - k : i + k \in 1..n /\ i + k \notin 1..k
  BY <1>1, <1>9
<1>16. ASSUME NEW i \in 1..n - k PROVE rest[i] \in Countdowns
  <2>1. rest[i] = Ticked[i + k] /\ rest[i] \in [id : Ops, left : 0..RollbackTicks]
    BY <1>1, <1>11, <1>13, <1>15
  <2>2. Ticked[i + k].left >= 1
    BY <1>10, <1>15
  <2> QED
    BY <2>1, <2>2, SessionAssumption DEF Countdowns
<1>17. pending' \in Seq(Countdowns)
  <2>1. n - k \in Nat
    BY <1>1, <1>9
  <2>2. rest = [i \in 1..n - k |-> rest[i]]
    BY <1>13, <2>1
  <2> QED
    BY <1>14, <1>16, <2>1, <2>2
<1>18. OldestFirst'
  <2> SUFFICES ASSUME NEW i \in 1..n - k, NEW j \in 1..n - k, i < j
               PROVE  rest[i].left <= rest[j].left
    BY <1>13, <1>14 DEF OldestFirst
  <2>1. i + k \in 1..n /\ j + k \in 1..n /\ i + k < j + k
    BY <1>9, <1>15
  <2>2. pending[i + k].left <= pending[j + k].left
    BY <2>1 DEF OldestFirst
  <2>3. rest[i].left = pending[i + k].left - 1 /\ rest[j].left = pending[j + k].left - 1
    BY <1>5, <1>13, <2>1
  <2>4. pending[i + k].left \in Int /\ pending[j + k].left \in Int
    BY <1>3, <2>1
  <2> QED
    BY <2>2, <2>3, <2>4
<1>19. Ids(Ticked) = Ids(pending)
  BY <1>4, <1>5 DEF Ids
<1>20. Ids(pending) \in Seq(Ops) /\ Len(Ids(pending)) = n /\ \A i \in 1..n : Ids(pending)[i] = pending[i].id
  BY <1>1, IdsOf
<1>21. Ids(pending') = SubSeq(Ids(pending), k + 1, n)
  <2>1. /\ SubSeq(Ids(pending), k + 1, n) \in Seq(Ops)
        /\ Len(SubSeq(Ids(pending), k + 1, n)) = n - k
        /\ \A i \in 1..n - k : SubSeq(Ids(pending), k + 1, n)[i] = Ids(pending)[i + k]
    BY <1>9, <1>20, Suffix
  <2>2. /\ Ids(pending') \in Seq(Ops) /\ Len(Ids(pending')) = n - k
        /\ \A i \in 1..n - k : Ids(pending')[i] = pending'[i].id
    BY <1>13, <1>14, <1>17, IdsOf
  <2>3. ASSUME NEW i \in 1..n - k PROVE Ids(pending')[i] = SubSeq(Ids(pending), k + 1, n)[i]
    <3>1. i + k \in 1..n
      BY <1>15
    <3>2. Ids(pending')[i] = rest[i].id /\ rest[i] = Ticked[i + k]
      BY <1>13, <1>14, <2>2
    <3>3. Ticked[i + k].id = pending[i + k].id
      BY <1>5, <3>1
    <3>4. SubSeq(Ids(pending), k + 1, n)[i] = pending[i + k].id
      BY <1>20, <2>1, <3>1
    <3> QED
      BY <3>2, <3>3, <3>4
  <2> QED
    BY <2>1, <2>2, <2>3, SeqEqual
<1>22. Ids(SubSeq(Ticked, 1, k)) = SubSeq(Ids(pending), 1, k)
  <2>1. /\ SubSeq(Ids(pending), 1, k) \in Seq(Ops)
        /\ Len(SubSeq(Ids(pending), 1, k)) = k
        /\ \A i \in 1..k : SubSeq(Ids(pending), 1, k)[i] = Ids(pending)[i]
    BY <1>9, <1>20, Prefix
  <2>2. Len(SubSeq(Ticked, 1, k)) = k /\ \A i \in 1..k : SubSeq(Ticked, 1, k)[i] = Ticked[i]
    BY <1>4, <1>9, <1>12, Prefix
  <2>3. k \in Nat /\ \A i \in 1..k : i \in 1..n
    BY <1>1, <1>9
  <2>4. \A i \in 1..k : Ticked[i].id = Ids(pending)[i]
    BY <1>5, <1>20, <2>3
  <2>5. Ids(SubSeq(Ticked, 1, k)) = [i \in 1..k |-> Ids(pending)[i]]
    BY <2>2, <2>4 DEF Ids
  <2>6. SubSeq(Ids(pending), 1, k) = [i \in 1..k |-> SubSeq(Ids(pending), 1, k)[i]]
    BY <2>1
  <2> QED
    BY <2>1, <2>5, <2>6
<1>23. queue' = queue \o Reverse(SubSeq(Ids(pending), 1, k))
  <2>1. Fire(Reverse(SubSeq(Ids(pending), 1, k)))
    BY <1>22 DEF Tick, k
  <2>2. /\ Reverse(SubSeq(Ids(pending), 1, k)) \in Seq(Ops)
        /\ Len(Reverse(SubSeq(Ids(pending), 1, k))) = k
    BY <1>9, FrontOf
  <2>3. Len(queue) + k <= OutboxCapacity
    BY <1>1, <1>9
  <2> QED
    BY <1>1, <2>1, <2>2, <2>3, BatchFired
<1> QED
  BY <1>9, <1>17, <1>18, <1>21, <1>23 DEF OldestLeave

(* What leaves the countdowns is in the outbox, each once. *)
LEMMA FrontMoves ==
    ASSUME TypeOK, RoomForEveryInverse, NEW k \in 0..Len(pending), OldestLeave(k)
    PROVE  LET fired == ToSet(SubSeq(Ids(pending), 1, k)) IN
           /\ pending' \in Seq(Countdowns) /\ Len(pending') = Len(pending) - k
           /\ queue' \in Seq(Ops) /\ Len(queue') = Len(queue) + k
           /\ ToSet(Ids(pending)) = fired \cup ToSet(Ids(pending'))
           /\ ToSet(queue') = ToSet(queue) \cup fired
           /\ IsInjective(Ids(pending)) =>
                IsInjective(Ids(pending')) /\ fired \cap ToSet(Ids(pending')) = {}
           /\ IsInjective(Ids(pending)) /\ IsInjective(queue)
                /\ ToSet(Ids(pending)) \cap ToSet(queue) = {} => IsInjective(queue')
<1> DEFINE s == Ids(pending)
<1> DEFINE f == SubSeq(s, 1, k)
<1> DEFINE r == SubSeq(s, k + 1, Len(s))
<1> DEFINE batch == Reverse(f)
<1>1. s \in Seq(Ops) /\ k \in 0..Len(s) /\ queue \in Seq(Ops) /\ Len(s) = Len(pending)
  BY RoomFor
<1>2. /\ batch \in Seq(Ops) /\ Len(batch) = k /\ ToSet(batch) = ToSet(f)
      /\ IsInjective(s) => IsInjective(batch)
  BY FrontOf
<1>3. pending' \in Seq(Countdowns) /\ Ids(pending') = r /\ queue' = queue \o batch
  BY <1>1 DEF OldestLeave
<1>4. Len(Ids(pending')) = Len(pending')
  BY <1>3, IdsOf
<1> HIDE DEF s
<1>5. Len(r) = Len(s) - k
  BY <1>1, Suffix
<1>6. /\ ToSet(s) = ToSet(f) \cup ToSet(r)
      /\ IsInjective(s) => IsInjective(f) /\ IsInjective(r) /\ ToSet(f) \cap ToSet(r) = {}
  BY <1>1, Cut
<1> HIDE DEF f, r, batch
<1>7. /\ queue \o batch \in Seq(Ops) /\ Len(queue \o batch) = Len(queue) + k
      /\ ToSet(queue \o batch) = ToSet(queue) \cup ToSet(f)
      /\ IsInjective(queue) /\ IsInjective(batch) /\ ToSet(queue) \cap ToSet(f) = {}
           => IsInjective(queue \o batch)
  <2>0. queue \in Seq(Ops) /\ batch \in Seq(Ops)
    BY <1>1, <1>2
  <2>1. /\ queue \o batch \in Seq(Ops) /\ Len(queue \o batch) = Len(queue) + Len(batch)
        /\ ToSet(queue \o batch) = ToSet(queue) \cup ToSet(batch)
        /\ IsInjective(queue) /\ IsInjective(batch) /\ ToSet(queue) \cap ToSet(batch) = {}
             => IsInjective(queue \o batch)
    BY ONLY <2>0, Concatenated
  <2> QED
    BY <1>2, <2>1
<1>8. IsInjective(s) /\ IsInjective(queue) /\ ToSet(s) \cap ToSet(queue) = {} => IsInjective(queue')
  BY <1>2, <1>3, <1>6, <1>7
<1> QED
  BY <1>1, <1>3, <1>4, <1>5, <1>6, <1>7, <1>8 DEF f, s

-----------------------------------------------------------------------------
(* The accounts *)

AccountTypes ==
    /\ reservations \in Nat /\ singles \in Nat
    /\ plan \in [id : 0..MaxOps, total : 0..MaxOps, consumed : 0..MaxOps]

LEMMA NoPlanTypes ==
    /\ NoPlan \in [id : 0..MaxOps, total : 0..MaxOps, consumed : 0..MaxOps]
    /\ NoPlan.id = 0 /\ NoPlan.total = 0 /\ NoPlan.consumed = 0
  BY SessionAssumption DEF NoPlan

LEMMA ConsumeReleases ==
    ASSUME AccountTypes, Consume
    PROVE  AccountTypes' /\ reservations' <= reservations
<1>1. reservations' \in Nat /\ singles' \in Nat /\ reservations' <= reservations
  BY DEF AccountTypes, Consume
<1>2. CASE plan.consumed < plan.total
  <2>1. plan.consumed + 1 \in 0..MaxOps
    BY <1>2, SessionAssumption DEF AccountTypes
  <2>2. [plan EXCEPT !.consumed = @ + 1] \in [id : 0..MaxOps, total : 0..MaxOps, consumed : 0..MaxOps]
    BY <2>1 DEF AccountTypes
  <2> QED
    BY <1>1, <2>2 DEF AccountTypes, Consume
<1>3. CASE ~(plan.consumed < plan.total)
  BY <1>1, <1>3 DEF AccountTypes, Consume
<1> QED
  BY <1>2, <1>3

LEMMA FinishReleases ==
    ASSUME AccountTypes, NEW id, plan.consumed <= plan.total, FinishPlan(id)
    PROVE  AccountTypes' /\ reservations' <= reservations
<1>1. plan.total - plan.consumed \in Nat
  BY SessionAssumption DEF AccountTypes
<1>2. reservations' \in Nat /\ reservations' <= reservations
  BY <1>1 DEF AccountTypes, FinishPlan
<1> QED
  BY <1>2, NoPlanTypes DEF AccountTypes, FinishPlan

LEMMA PlanWithin ==
    ASSUME TypeOK, Accounts
    PROVE  AccountTypes /\ plan.consumed <= plan.total
<1>1. AccountTypes
  BY DEF TypeOK, AccountTypes
<1>2. IsFiniteSet(Planned(Unreported, plan))
  <2>1. Planned(Unreported, plan) \subseteq Unreported
    BY DEF Planned
  <2> QED
    BY <2>1, OpsAreOps, FS_Subset
<1>3. Cardinality(Planned(Unreported, plan)) \in Nat
  BY <1>2, FS_CardinalityType
<1> QED
  BY <1>1, <1>3 DEF Accounts, AccountTypes

-----------------------------------------------------------------------------
(* The event that is read *)

LEMMA HeadEvent ==
    ASSUME SessionInv, events # <<>>
    PROVE  LET event == Head(events) IN
           /\ event \in Events /\ event.id \in Ops
           /\ event.armed => /\ event.type = "OperationFinished" /\ event.id \in Risky
                             /\ reservations >= 1
           /\ ~Unreserved(event)
           /\ event.type = "OperationFinished" => event.id \in Unreported
           /\ Countdown(event) \in Seq(Countdowns)
           /\ event.armed => Countdown(event) = <<[id |-> event.id, left |-> RollbackTicks]>>
           /\ ~event.armed => Countdown(event) = <<>>
           /\ Ids(Countdown(event)) = IF event.armed THEN <<event.id>> ELSE <<>>
<1> DEFINE event == Head(events)
<1>1. TypeOK /\ Accounts /\ events \in Seq(Events) /\ EventsInOrder(events) /\ RiskyArmed(events)
  BY PartsOfAccounts DEF SessionInv, Flow, Shapes, Order, TypeOK
<1>2. /\ event \in Events
      /\ ReportedIn(events) = ReportedIn(Tail(events)) \cup (IF IsOp(event) THEN {event.id} ELSE {})
      /\ event.armed => IsOp(event) /\ event.id \in Risky
  BY <1>1, EventRead
<1> HIDE DEF event
<1>3. event.id \in Ops
  BY <1>2 DEF Events
<1>4. IsOp(event) => event.id \in Unreported
  BY <1>2, UnreportedIs
<1>5. event.armed => reservations >= 1
  BY <1>1, <1>2, <1>4, PlaceHeld
<1>6. ~Unreserved(event)
  BY <1>1, <1>5 DEF Unreserved, TypeOK
<1>7. [id |-> event.id, left |-> RollbackTicks] \in Countdowns
  BY <1>3, SessionAssumption DEF Countdowns
<1>8. /\ Countdown(event) = IF event.armed THEN <<[id |-> event.id, left |-> RollbackTicks]>> ELSE <<>>
  BY <1>6 DEF Countdown
<1>9. Countdown(event) \in Seq(Countdowns)
  BY <1>7, <1>8
<1>10. Ids(<<>>) = <<>> /\ Ids(<<[id |-> event.id, left |-> RollbackTicks]>>) = <<event.id>>
  BY DEF Ids
<1>11. Ids(Countdown(event)) = IF event.armed THEN <<event.id>> ELSE <<>>
  BY <1>8, <1>10
<1> QED
  BY <1>2, <1>3, <1>4, <1>5, <1>6, <1>8, <1>9, <1>11 DEF event, IsOp

LEMMA EventAccounted ==
    ASSUME SessionInv, events # <<>>, Account(Head(events))
    PROVE  /\ AccountTypes' /\ reservations' <= reservations
           /\ Head(events).armed => reservations' = reservations - 1
<1>1. TypeOK /\ Accounts /\ AccountTypes /\ plan.consumed <= plan.total
  BY PartsOfAccounts, PlanWithin DEF SessionInv
<1> DEFINE event == Head(events)
<1>2. event.armed => /\ event.type = "OperationFinished" /\ event.id \in Risky
                     /\ reservations >= 1
  BY HeadEvent
<1>3. Account(event)
  OBVIOUS
<1> HIDE DEF event
<1>4. CASE event.type = "OperationFinished" /\ event.id \in Risky
  <2>1. Consume
    BY <1>3, <1>4 DEF Account
  <2>2. AccountTypes' /\ reservations' <= reservations
    BY <1>1, <2>1, ConsumeReleases
  <2>3. event.armed => reservations' = reservations - 1
    BY <1>1, <1>2, <2>1 DEF Consume, AccountTypes
  <2> QED
    BY <2>2, <2>3 DEF event
<1>5. CASE ~(event.type = "OperationFinished" /\ event.id \in Risky) /\ event.type = "PlanFinished"
  <2>1. FinishPlan(event.id)
    BY <1>3, <1>5 DEF Account
  <2>2. AccountTypes' /\ reservations' <= reservations
    BY <1>1, <2>1, FinishReleases
  <2> QED
    BY <1>2, <1>5, <2>2 DEF event
<1>6. CASE ~(event.type = "OperationFinished" /\ event.id \in Risky) /\ event.type # "PlanFinished"
  <2>1. UNCHANGED accounts
    BY <1>3, <1>6 DEF Account
  <2>2. AccountTypes' /\ reservations' <= reservations
    BY <1>1, <2>1 DEF AccountTypes, accounts
  <2> QED
    BY <1>2, <1>6, <2>2 DEF event
<1> QED
  BY <1>4, <1>5, <1>6

(* A countdown that starts takes the place that was reserved for it. *)
LEMMA CountdownStarts ==
    ASSUME SessionInv, ConsumeEvent
    PROVE  /\ queue' = queue /\ pending' \in Seq(Countdowns)
           /\ pending' = pending \o Countdown(Head(events))
           /\ OldestFirst'
           /\ Ids(pending') = Ids(pending) \o Ids(Countdown(Head(events)))
           /\ Len(pending') + reservations' <= Len(pending) + reservations
<1> DEFINE event == Head(events)
<1> DEFINE started == Countdown(event)
<1>1. events # <<>> /\ Account(event) /\ pending' = pending \o started
  BY DEF ConsumeEvent
<1>2. /\ started \in Seq(Countdowns) /\ ~Unreserved(event)
      /\ event.armed => started = <<[id |-> event.id, left |-> RollbackTicks]>>
      /\ ~event.armed => started = <<>>
  BY <1>1, HeadEvent
<1>3. /\ AccountTypes' /\ reservations' <= reservations
      /\ event.armed => reservations' = reservations - 1
  BY <1>1, EventAccounted
<1>4. TypeOK /\ RoomForEveryInverse /\ OldestFirst
  BY PartsOfAccounts DEF SessionInv
<1>5. /\ pending \in Seq(Countdowns) /\ queue \in Seq(Ops) /\ Len(pending) \in Nat
      /\ reservations \in Nat /\ Len(queue) \in Nat
      /\ Len(queue) <= OutboxCapacity
  BY <1>4, RoomFor
<1>6. Fire(<<>>)
  BY <1>2 DEF ConsumeEvent
<1>7. queue' = queue
  <2>1. Len(queue) + Len(<<>>) <= OutboxCapacity
    BY <1>5
  <2>2. queue' = queue \o <<>>
    BY <1>5, <1>6, <2>1, BatchFired, OfNothing
  <2> QED
    BY <1>5, <2>2
<1> HIDE DEF started, event
<1>8. /\ pending' \in Seq(Countdowns) /\ Len(pending') = Len(pending) + Len(started)
      /\ \A i \in 1..Len(pending) : pending'[i] = pending[i]
      /\ \A i \in 1..Len(started) : pending'[Len(pending) + i] = started[i]
      /\ \A i \in 1..Len(pending') : i \in 1..Len(pending) \/ i - Len(pending) \in 1..Len(started)
  BY <1>1, <1>2, <1>5, Concatenated
<1>9. CASE ~event.armed
  <2>1. started = <<>> /\ Ids(started) = <<>>
    BY <1>2, <1>9 DEF Ids
  <2>2. pending' = pending
    BY <1>1, <1>5, <2>1
  <2>3. Ids(pending') = Ids(pending) \o Ids(started)
    BY <1>5, <2>1, <2>2, IdsOf
  <2>4. OldestFirst'
    BY <1>4, <2>2 DEF OldestFirst
  <2>5. Len(pending') + reservations' <= Len(pending) + reservations
    BY <1>3, <1>5, <2>2 DEF AccountTypes
  <2> QED
    BY <1>1, <1>7, <1>8, <2>3, <2>4, <2>5 DEF started, event
<1>10. CASE event.armed
  <2>1. started = <<[id |-> event.id, left |-> RollbackTicks]>> /\ Len(started) = 1
    BY <1>2, <1>10
  <2>2. Ids(started) = <<event.id>> /\ started[1].id = event.id /\ started[1].left = RollbackTicks
    BY <2>1 DEF Ids
  <2>3. \A i \in 1..Len(pending) : pending[i] \in Countdowns
    BY <1>5
  <2>4. OldestFirst'
    <3> SUFFICES ASSUME NEW i \in 1..Len(pending'), NEW j \in 1..Len(pending'), i < j
                 PROVE  pending'[i].left <= pending'[j].left
      BY DEF OldestFirst
    <3>1. i \in 1..Len(pending)
      BY <1>5, <1>8, <2>1
    <3>2. CASE j \in 1..Len(pending)
      BY <1>4, <1>8, <3>1, <3>2 DEF OldestFirst
    <3>3. CASE j = Len(pending) + 1
      <4>1. pending'[j].left = RollbackTicks
        BY <1>8, <2>1, <2>2, <3>3
      <4>2. pending[i].left \in 1..RollbackTicks
        BY <2>3, <3>1 DEF Countdowns
      <4> QED
        BY <1>8, <3>1, <4>1, <4>2, SessionAssumption
    <3>4. Len(pending') = Len(pending) + 1
      BY <1>8, <2>1
    <3>5. j \in 1..Len(pending) \/ j = Len(pending) + 1
      BY <1>5, <3>4
    <3> QED
      BY <3>2, <3>3, <3>5
  <2>5. Ids(pending') = Ids(pending) \o Ids(started)
    <3>1. /\ Ids(pending) \in Seq(Ops) /\ Len(Ids(pending)) = Len(pending)
          /\ \A i \in 1..Len(pending) : Ids(pending)[i] = pending[i].id
      BY <1>5, IdsOf
    <3>2. /\ Ids(pending') \in Seq(Ops) /\ Len(Ids(pending')) = Len(pending')
          /\ \A i \in 1..Len(pending') : Ids(pending')[i] = pending'[i].id
      BY <1>8, IdsOf
    <3>3. Ids(started) \in Seq(Ops) /\ Len(Ids(started)) = 1
      BY <1>2, <2>1, IdsOf
    <3> DEFINE joined == Ids(pending) \o Ids(started)
    <3>4. /\ joined \in Seq(Ops) /\ Len(joined) = Len(pending) + 1
          /\ \A i \in 1..Len(pending) : joined[i] = Ids(pending)[i]
          /\ joined[Len(pending) + 1] = event.id
      BY <2>2, <3>1, <3>3, Concatenated
    <3> HIDE DEF joined
    <3>5. Len(pending') = Len(pending) + 1
      BY <1>8, <2>1
    <3>6. ASSUME NEW i \in 1..Len(pending') PROVE Ids(pending')[i] = joined[i]
      <4>1. CASE i \in 1..Len(pending)
        BY <1>8, <3>1, <3>2, <3>4, <4>1
      <4>2. CASE i = Len(pending) + 1
        BY <1>8, <2>1, <2>2, <3>2, <3>4, <4>2
      <4> QED
        BY <1>5, <3>5, <4>1, <4>2
    <3> QED
      BY <3>2, <3>4, <3>5, <3>6, SeqEqual DEF joined
  <2>6. Len(pending') + reservations' <= Len(pending) + reservations
    BY <1>3, <1>5, <1>8, <1>10, <2>1 DEF AccountTypes
  <2> QED
    BY <1>1, <1>7, <1>8, <2>4, <2>5, <2>6 DEF started, event
<1> QED
  BY <1>9, <1>10

(* The same while the session drains: the inverse goes to the outbox at once. *)
LEMMA DrainFires ==
    ASSUME SessionInv, DrainConsume
    PROVE  /\ queue' = queue \o Ids(Countdown(Head(events))) /\ deferred' = <<>>
           /\ queue' \in Seq(Ops) /\ Len(queue') + reservations' <= Len(queue) + reservations
<1> DEFINE event == Head(events)
<1> DEFINE armed == Ids(Countdown(event))
<1>1. events # <<>> /\ Account(event)
  BY DEF DrainConsume
<1>2. /\ event.id \in Ops /\ ~Unreserved(event)
      /\ armed = IF event.armed THEN <<event.id>> ELSE <<>>
      /\ event.armed => reservations >= 1
      /\ Countdown(event) \in Seq(Countdowns)
      /\ event.armed => Countdown(event) = <<[id |-> event.id, left |-> RollbackTicks]>>
      /\ ~event.armed => Countdown(event) = <<>>
  BY <1>1, HeadEvent
<1>3. /\ AccountTypes' /\ reservations' <= reservations
      /\ event.armed => reservations' = reservations - 1
  BY <1>1, EventAccounted
<1>4. TypeOK /\ RoomForEveryInverse
  BY PartsOfAccounts DEF SessionInv
<1>5. /\ queue \in Seq(Ops) /\ Len(queue) \in Nat /\ reservations \in Nat /\ Len(pending) \in Nat
      /\ deferred = <<>> /\ Len(queue) + reservations <= OutboxCapacity /\ OutboxCapacity \in Nat
  BY <1>4, RoomFor
<1>6. Reverse(armed) = armed
  BY <1>2 DEF Reverse
<1>7. armed \in Seq(Ops) /\ Len(armed) \in Nat /\ Len(armed) <= 1 /\ (~event.armed => Len(armed) = 0)
  <2>1. event.id \in Ops
    BY <1>2
  <2>2. <<event.id>> \in Seq(Ops) /\ Len(<<event.id>>) = 1
    BY <2>1
  <2>3. <<>> \in Seq(Ops) /\ Len(<<>>) = 0
    BY OfNothing
  <2>4. armed = IF event.armed THEN <<event.id>> ELSE <<>>
    BY <1>2
  <2> HIDE DEF armed, event
  <2>5. CASE event.armed
    BY <2>2, <2>4, <2>5
  <2>6. CASE ~event.armed
    BY <2>3, <2>4, <2>6
  <2> QED
    BY <2>5, <2>6
<1>8. IF Len(queue) = OutboxCapacity
      THEN Fill(<<>> \o deferred \o armed, queue)
      ELSE Fill(deferred \o armed, queue \o <<>>)
  BY <1>2, <1>6 DEF DrainConsume
<1> HIDE DEF armed, event
<1>9. <<>> \o deferred \o armed = armed /\ deferred \o armed = armed /\ queue \o <<>> = queue
  BY <1>5, <1>7, OfNothing
<1>10. Fill(armed, queue)
  BY <1>8, <1>9
<1>11. Len(queue) + Len(armed) <= OutboxCapacity
  BY <1>2, <1>5, <1>7
<1>12. queue' = queue \o armed /\ deferred' = <<>>
  BY <1>5, <1>7, <1>10, <1>11, OutboxFilled
<1>13. queue' \in Seq(Ops) /\ Len(queue') = Len(queue) + Len(armed)
  BY <1>5, <1>7, <1>12, Concatenated
<1>14. Len(queue') + reservations' <= Len(queue) + reservations
  <2>1. reservations' \in Nat
    BY <1>3 DEF AccountTypes
  <2>2. CASE event.armed
    <3>1. reservations' = reservations - 1
      BY <1>3, <2>2
    <3>2. Len(armed) <= 1 /\ Len(armed) \in Nat
      BY <1>7
    <3> QED
      BY <1>5, <1>13, <3>1, <3>2
  <2>3. CASE ~event.armed
    BY <1>3, <1>5, <1>7, <1>13, <2>1, <2>3
  <2> QED
    BY <2>2, <2>3
<1> QED
  BY <1>12, <1>13, <1>14 DEF armed, event

LEMMA AbandonedReleased ==
    ASSUME SessionInv, ReleaseAbandoned
    PROVE  AccountTypes' /\ reservations' <= reservations
<1>1. TypeOK /\ AccountTypes /\ plan.consumed <= plan.total
  BY PartsOfAccounts, PlanWithin DEF SessionInv
<1>2. CASE normal.kind = "Apply" /\ RiskyCount(normal.ops) = 1
  BY <1>1, <1>2, ConsumeReleases DEF ReleaseAbandoned
<1>3. CASE ~(normal.kind = "Apply" /\ RiskyCount(normal.ops) = 1) /\ normal.kind = "Plan"
  BY <1>1, <1>3, FinishReleases DEF ReleaseAbandoned
<1>4. CASE ~(normal.kind = "Apply" /\ RiskyCount(normal.ops) = 1) /\ normal.kind # "Plan"
  <2>1. UNCHANGED accounts
    BY <1>4 DEF ReleaseAbandoned
  <2> QED
    BY <1>1, <2>1 DEF accounts, AccountTypes
<1> QED
  BY <1>2, <1>3, <1>4

(* A quit leaves at once, or starts to drain with every countdown fired. *)
LEMMA QuitIs ==
    ASSUME SessionInv, QuitConfirmed
    PROVE  \/ NothingToRevert /\ mode' = "ExitedClean"
                /\ UNCHANGED <<pending, normal, queue, accounts, drain>>
           \/ /\ mode' = "Draining" /\ ReleaseAbandoned /\ normal' = NoRequest
              /\ AccountTypes' /\ reservations' <= reservations
              /\ expected' = inFlight /\ completed' = completed
              /\ pending' = <<>> /\ deferred' = <<>>
              /\ OldestLeave(Len(pending))
<1>1. TypeOK /\ RoomForEveryInverse
  BY PartsOfAccounts DEF SessionInv
<1>2. CASE NothingToRevert
  BY <1>2 DEF QuitConfirmed
<1>3. CASE ~NothingToRevert
  <2>1. /\ mode' = "Draining" /\ ReleaseAbandoned /\ normal' = NoRequest
        /\ expected' = inFlight /\ completed' = completed /\ pending' = <<>>
        /\ Fill(Reverse(Ids(pending)), queue)
    BY <1>3 DEF QuitConfirmed
  <2>2. queue \in Seq(Ops)
    BY <1>1 DEF TypeOK
  <2>3. queue' = queue \o Reverse(Ids(pending)) /\ deferred' = <<>>
    BY <1>1, <2>1, <2>2, AllReversed, OutboxFilled
  <2>4. OldestLeave(Len(pending))
    BY <1>1, <2>1, <2>3, AllFired
  <2>5. AccountTypes' /\ reservations' <= reservations
    BY <2>1, AbandonedReleased
  <2> QED
    BY <2>1, <2>3, <2>4, <2>5
<1> QED
  BY <1>2, <1>3

LEMMA NowFires ==
    ASSUME TypeOK, RoomForEveryInverse, RollbackNow
    PROVE  OldestLeave(Len(pending))
<1>1. pending' = <<>> /\ Fire(Reverse(Ids(pending))) /\ queue \in Seq(Ops)
  BY DEF RollbackNow, TypeOK
<1>2. queue' = queue \o Reverse(Ids(pending))
  BY <1>1, AllReversed, BatchFired
<1> QED
  BY <1>1, <1>2, AllFired

(* The outbox's oldest rollback is sent, and nothing is deferred for it. *)
LEMMA RollbackSent ==
    ASSUME SessionInv, DispatchRollback \/ DrainDispatch
    PROVE  /\ queue \in Seq(Ops) /\ queue # <<>> /\ queue' = Tail(queue) /\ deferred' = <<>>
           /\ queue' \in Seq(Ops) /\ Len(queue) \in Nat /\ Len(queue') = Len(queue) - 1
           /\ rollbackLane \in Seq(Ops) /\ rollbackLane' = Append(rollbackLane, Head(queue))
           /\ Len(rollbackLane) < RollbackCapacity
           /\ Head(queue) \in Ops /\ inFlight' = inFlight \cup {Head(queue)}
<1>1. TypeOK /\ RoomForEveryInverse
  BY PartsOfAccounts DEF SessionInv
<1>2. /\ queue \in Seq(Ops) /\ deferred = <<>> /\ rollbackLane \in Seq(Ops)
      /\ Len(queue) <= OutboxCapacity /\ OutboxCapacity \in Nat
  BY <1>1, RoomFor DEF TypeOK
<1>3. queue # <<>> /\ Len(rollbackLane) < RollbackCapacity
  BY DEF DispatchRollback, DrainDispatch, RollbackSendable, RollbackRoom
<1>4. /\ rollbackLane' = Append(rollbackLane, Head(queue))
      /\ inFlight' = inFlight \cup {Head(queue)}
  BY DEF DispatchRollback, DrainDispatch
<1>5. /\ Len(queue) \in Nat \ {0} /\ Head(queue) \in Ops
      /\ Tail(queue) \in Seq(Ops) /\ Len(Tail(queue)) = Len(queue) - 1
  BY <1>2, <1>3, FirstAndRest
<1>6. CASE DispatchRollback
  BY <1>2, <1>3, <1>4, <1>5, <1>6 DEF DispatchRollback, drain
<1>7. CASE DrainDispatch
  <2>1. Fill(<<>>, Tail(queue))
    BY <1>2, <1>7 DEF DrainDispatch
  <2>2. Len(Tail(queue)) + Len(<<>>) <= OutboxCapacity
    BY <1>2, <1>5
  <2>3. queue' = Tail(queue) \o <<>> /\ deferred' = <<>>
    BY <1>5, <2>1, <2>2, OfNothing, OutboxFilled
  <2> QED
    BY <1>2, <1>3, <1>4, <1>5, <2>3
<1> QED
  BY <1>6, <1>7

-----------------------------------------------------------------------------
(* What is submitted *)

LEMMA NextOperations ==
    ASSUME submitted \in 0..MaxOps, NEW kind, NEW n \in Nat, submitted + n <= MaxOps
    PROVE  LET request == NewRequest(kind, n) IN
           /\ request.kind = kind /\ request.id = submitted + 1
           /\ request.ops \in Seq(Ops) /\ Len(request.ops) = n
           /\ \A i \in 1..n : request.ops[i] = submitted + i
           /\ ToSet(request.ops) = (submitted + 1)..(submitted + n)
           /\ RiskyCount(request.ops) \in 0..MaxOps
           /\ RiskyCount(request.ops) = Cardinality(ToSet(request.ops) \cap Risky)
<1> DEFINE request == NewRequest(kind, n)
<1> DEFINE new == [i \in 1..n |-> submitted + i]
<1>1. request.kind = kind /\ request.id = submitted + 1 /\ request.ops = new
  BY DEF NewRequest
<1>2. MaxOps \in Nat /\ submitted \in Nat
  BY SessionAssumption
<1>3. new \in Seq(Ops) /\ Len(new) = n /\ \A i \in 1..n : new[i] = submitted + i
  BY <1>2 DEF Ops
<1> HIDE DEF new
<1>4. ToSet(new) = (submitted + 1)..(submitted + n)
  <2>1. \A x : x \in ToSet(new) <=> \E i \in 1..n : new[i] = x
    BY <1>3, ElementsOf
  <2>2. \A x \in (submitted + 1)..(submitted + n) : x - submitted \in 1..n /\ submitted + (x - submitted) = x
    BY <1>2
  <2>3. \A i \in 1..n : submitted + i \in (submitted + 1)..(submitted + n)
    BY <1>2
  <2>4. \A x : x \in ToSet(new) => x \in (submitted + 1)..(submitted + n)
    BY <1>3, <2>1, <2>3
  <2>5. \A x : x \in (submitted + 1)..(submitted + n) => x \in ToSet(new)
    BY <1>3, <2>1, <2>2
  <2> QED
    BY <2>4, <2>5
<1>5. IsFiniteSet(Ops) /\ Cardinality(Ops) = MaxOps
  BY <1>2, FS_Interval DEF Ops
<1>6. ToSet(new) \cap Risky \subseteq Ops
  BY <1>3, ElementsOf
<1>7. Cardinality(ToSet(new) \cap Risky) \in 0..MaxOps
  BY <1>5, <1>6, FS_Subset, FS_CardinalityType
<1>8. RiskyCount(new) = Cardinality(ToSet(new) \cap Risky)
  BY DEF RiskyCount
<1> QED
  BY <1>1, <1>3, <1>4, <1>7, <1>8

(* Only while no request and no plan is outstanding, and with room for what it
   may have to revert. *)
LEMMA Submitted ==
    ASSUME SessionInv, NEW kind \in {"Apply", "Plan"}, NEW n \in Nat \ {0},
           kind = "Apply" => n = 1, Submit(kind, n)
    PROVE  LET request == NewRequest(kind, n)
               required == RiskyCount(request.ops) IN
           /\ mode = "Running" /\ submitted + n <= MaxOps
           /\ normal = NoRequest /\ normal' = request /\ request \in Requests
           /\ submitted' = submitted + n /\ submitted' \in 0..MaxOps /\ submitted \in 0..MaxOps
           /\ plan = NoPlan
           /\ required \in 0..MaxOps
           /\ reservations' = reservations + required
           /\ kind = "Apply" => singles' = singles + required /\ plan' = plan
           /\ kind = "Plan" => /\ plan' = [id |-> submitted + 1, total |-> required, consumed |-> 0]
                               /\ singles' = singles
           /\ AccountTypes'
           /\ Len(pending) + Len(queue) + reservations' <= OutboxCapacity
<1> DEFINE request == NewRequest(kind, n)
<1> DEFINE required == RiskyCount(request.ops)
<1>1. TypeOK /\ MirrorsExact /\ AccountTypes
  BY PartsOfAccounts, PlanWithin DEF SessionInv
<1>2. submitted \in 0..MaxOps /\ MaxOps \in Nat
  BY <1>1, SessionAssumption DEF TypeOK
<1>3. /\ mode = "Running" /\ submitted + n <= MaxOps /\ DispatchAllowed(required)
      /\ submitted' = submitted + n /\ Reserve(request, required) /\ Enqueue(request)
  BY DEF Submit
<1>4. /\ request.kind = kind /\ request.id = submitted + 1 /\ request.ops \in Seq(Ops)
      /\ required \in 0..MaxOps
  BY <1>2, <1>3, NextOperations
<1>5. submitted + 1 \in Ops /\ submitted' \in 0..MaxOps
  BY <1>2, <1>3 DEF Ops
<1>6. request = [kind |-> kind, id |-> submitted + 1, ops |-> request.ops]
  BY DEF NewRequest
<1>7. request \in Requests
  BY <1>4, <1>5, <1>6 DEF Requests
<1> HIDE DEF request, required
<1>8. ~busyMirror /\ plan = NoPlan /\ CapacityUsed + required <= OutboxCapacity
  BY <1>3 DEF DispatchAllowed
<1>9. normal = NoRequest /\ queueMirror = Len(queue)
  BY <1>1, <1>3, <1>8 DEF MirrorsExact
<1>10. normal' = request
  BY <1>3, <1>9 DEF Enqueue
<1>11. reservations' = reservations + required
  BY <1>3 DEF Reserve
<1>12. /\ kind = "Apply" => singles' = singles + required /\ plan' = plan
       /\ kind = "Plan" => /\ plan' = [id |-> submitted + 1, total |-> required, consumed |-> 0]
                           /\ singles' = singles
  BY <1>3, <1>4 DEF Reserve
<1>13. reservations' \in Nat
  BY <1>1, <1>4, <1>11 DEF AccountTypes
<1>14. singles' \in Nat
  BY <1>1, <1>4, <1>12 DEF AccountTypes
<1>15. plan' \in [id : 0..MaxOps, total : 0..MaxOps, consumed : 0..MaxOps]
  <2>1. CASE kind = "Apply"
    BY <1>1, <1>12, <2>1 DEF AccountTypes
  <2>2. CASE kind = "Plan"
    BY <1>2, <1>3, <1>4, <1>12, <2>2
  <2> QED
    BY <2>1, <2>2
<1>16. AccountTypes'
  BY <1>13, <1>14, <1>15 DEF AccountTypes
<1>17. pending \in Seq(Countdowns) /\ queue \in Seq(Ops)
  BY <1>1 DEF TypeOK
<1>18. Len(pending) + Len(queue) + reservations' <= OutboxCapacity
  BY <1>1, <1>4, <1>8, <1>9, <1>11, <1>17, SessionAssumption DEF CapacityUsed, AccountTypes
<1> QED
  BY <1>2, <1>3, <1>4, <1>5, <1>7, <1>8, <1>9, <1>10, <1>11, <1>12, <1>16, <1>18 DEF request, required

(* A submission is of one operation or of a plan of several. *)
LEMMA SubmissionIs ==
    ASSUME SubmitApply \/ SubmitPlan
    PROVE  \E kind \in {"Apply", "Plan"}, n \in Nat \ {0} :
              (kind = "Apply" => n = 1) /\ Submit(kind, n)
<1>1. CASE SubmitApply
  BY <1>1 DEF SubmitApply
<1>2. CASE SubmitPlan
  <2>1. PICK n \in 1..MaxPlan : Submit("Plan", n)
    BY <1>2 DEF SubmitPlan
  <2>2. n \in Nat \ {0}
    BY SessionAssumption
  <2> QED
    BY <2>1, <2>2
<1> QED
  BY <1>1, <1>2

-----------------------------------------------------------------------------
(* Room for every inverse *)

(* Every step but these leaves what takes room in the outbox alone. *)
RoomSteps ==
    Person \/ Tick \/ DispatchRollback \/ ConsumeEvent \/ DrainDispatch \/ DrainConsume

LEMMA RoomStep ==
    ASSUME SessionInv, [Next]_vars
    PROVE  /\ pending' \in Seq(Countdowns) /\ queue' \in Seq(Ops) /\ AccountTypes'
           /\ RoomForEveryInverse' /\ OldestFirst'
<1>1. /\ TypeOK /\ RoomForEveryInverse /\ OldestFirst /\ AccountTypes
  BY PartsOfAccounts, PlanWithin DEF SessionInv
<1>2. /\ Len(pending) \in Nat /\ Len(queue) \in Nat /\ reservations \in Nat /\ OutboxCapacity \in Nat
      /\ Len(queue) + Len(pending) + reservations <= OutboxCapacity
      /\ pending \in Seq(Countdowns) /\ queue \in Seq(Ops) /\ deferred = <<>>
  BY <1>1, RoomFor
<1>3. ASSUME NEW k \in 0..Len(pending), OldestLeave(k), AccountTypes', reservations' <= reservations,
             deferred' = <<>>
      PROVE  /\ pending' \in Seq(Countdowns) /\ queue' \in Seq(Ops)
             /\ RoomForEveryInverse' /\ OldestFirst'
  <2>1. /\ pending' \in Seq(Countdowns) /\ Len(pending') = Len(pending) - k
        /\ queue' \in Seq(Ops) /\ Len(queue') = Len(queue) + k
    BY <1>1, <1>3, FrontMoves
  <2>2. reservations' \in Nat /\ reservations' <= reservations
    BY <1>3 DEF AccountTypes
  <2>3. Len(pending') + Len(queue') + reservations' <= OutboxCapacity
    BY <1>2, <2>1, <2>2
  <2>4. OldestFirst'
    BY <1>3 DEF OldestLeave
  <2> QED
    BY <1>3, <2>1, <2>3, <2>4 DEF RoomForEveryInverse
<1>4. CASE SubmitApply \/ SubmitPlan
  <2>1. PICK kind \in {"Apply", "Plan"}, n \in Nat \ {0} :
              (kind = "Apply" => n = 1) /\ Submit(kind, n)
    BY <1>4, SubmissionIs
  <2>2. AccountTypes' /\ Len(pending) + Len(queue) + reservations' <= OutboxCapacity
    BY <2>1, Submitted
  <2>3. pending' = pending /\ queue' = queue /\ deferred' = deferred
    BY <2>1 DEF Submit, drain
  <2> QED
    BY <1>1, <1>2, <2>2, <2>3 DEF RoomForEveryInverse, OldestFirst
<1>5. CASE KeepChanges
  <2>1. pending' = <<>> /\ queue' = queue /\ UNCHANGED accounts /\ deferred' = deferred
    BY <1>5 DEF KeepChanges, drain
  <2>2. Len(pending') = 0 /\ pending' \in Seq(Countdowns)
    BY <2>1
  <2> QED
    BY <1>1, <1>2, <2>1, <2>2 DEF RoomForEveryInverse, OldestFirst, AccountTypes, accounts
<1>6. CASE RollbackNow
  <2>1. UNCHANGED accounts /\ deferred' = deferred
    BY <1>6 DEF RollbackNow, drain
  <2>2. AccountTypes' /\ reservations' <= reservations
    BY <1>1, <2>1 DEF AccountTypes, accounts
  <2>3. OldestLeave(Len(pending)) /\ Len(pending) \in 0..Len(pending)
    BY <1>1, <1>2, <1>6, NowFires
  <2> QED
    BY <1>2, <1>3, <2>1, <2>2, <2>3
<1>7. CASE QuitConfirmed
  <2>1. CASE UNCHANGED <<pending, normal, queue, accounts, drain>>
    BY <1>1, <1>2, <2>1 DEF RoomForEveryInverse, OldestFirst, AccountTypes, accounts, drain
  <2>2. CASE /\ AccountTypes' /\ reservations' <= reservations
             /\ deferred' = <<>> /\ OldestLeave(Len(pending))
    BY <1>2, <1>3, <2>2
  <2> QED
    BY <1>7, <2>1, <2>2, QuitIs
<1>8. CASE Tick
  <2>1. UNCHANGED accounts /\ deferred' = deferred
    BY <1>8 DEF Tick, drain
  <2>2. AccountTypes' /\ reservations' <= reservations
    BY <1>1, <2>1 DEF AccountTypes, accounts
  <2>3. PICK k \in 0..Len(pending) : OldestLeave(k)
    BY <1>1, <1>8, TickFires
  <2> QED
    BY <1>2, <1>3, <2>1, <2>2, <2>3
<1>9. CASE DispatchRollback \/ DrainDispatch
  <2>1. queue' \in Seq(Ops) /\ Len(queue') = Len(queue) - 1 /\ deferred' = <<>>
    BY <1>9, RollbackSent
  <2>2. UNCHANGED accounts /\ pending' = pending
    BY <1>9 DEF DispatchRollback, DrainDispatch
  <2> QED
    BY <1>1, <1>2, <2>1, <2>2 DEF RoomForEveryInverse, OldestFirst, AccountTypes, accounts
<1>10. CASE ConsumeEvent
  <2>1. /\ queue' = queue /\ pending' \in Seq(Countdowns) /\ OldestFirst'
        /\ Len(pending') + reservations' <= Len(pending) + reservations
    BY <1>10, CountdownStarts
  <2>2. AccountTypes'
    BY <1>10, EventAccounted DEF ConsumeEvent
  <2>3. deferred' = deferred
    BY <1>10 DEF ConsumeEvent, drain
  <2>4. reservations' \in Nat /\ Len(pending') \in Nat /\ Len(queue') \in Nat
    BY <1>2, <2>1, <2>2 DEF AccountTypes
  <2>5. Len(pending') + Len(queue') + reservations' <= OutboxCapacity
    BY <1>2, <2>1, <2>4
  <2> QED
    BY <1>2, <2>1, <2>2, <2>3, <2>5 DEF RoomForEveryInverse
<1>11. CASE DrainConsume
  <2>1. /\ queue' \in Seq(Ops) /\ deferred' = <<>>
        /\ Len(queue') + reservations' <= Len(queue) + reservations
    BY <1>11, DrainFires
  <2>2. AccountTypes'
    BY <1>11, EventAccounted DEF DrainConsume
  <2>3. pending' = pending
    BY <1>11 DEF DrainConsume
  <2>4. reservations' \in Nat /\ Len(pending') \in Nat /\ Len(queue') \in Nat
    BY <1>2, <2>1, <2>2, <2>3 DEF AccountTypes
  <2>5. Len(pending') + Len(queue') + reservations' <= OutboxCapacity
    BY <1>2, <2>1, <2>3, <2>4
  <2> QED
    BY <1>1, <1>2, <2>1, <2>2, <2>3, <2>5 DEF RoomForEveryInverse, OldestFirst
<1>12. CASE ~RoomSteps
  <2>1. UNCHANGED <<pending, queue, reservations, singles, plan, deferred>>
    BY <1>12 DEF RoomSteps, Next, vars, Person, Dispatch, Drain, Engine, Terminated, interface,
          accounts, drain, engine, history, DispatchNormal, DispatchRefused, DrainComplete, DrainAbandoned,
          EngineBegin, EngineOperation, EnginePlanDone, EngineRollback, EngineDies
  <2> QED
    BY <1>1, <1>2, <2>1 DEF RoomForEveryInverse, OldestFirst, AccountTypes
<1> QED
  BY <1>4, <1>5, <1>6, <1>7, <1>8, <1>9, <1>10, <1>11, <1>12 DEF RoomSteps, Person

-----------------------------------------------------------------------------
(* Mirrors and types *)

(* Every step but these leaves the outbox and its mirrors alone. *)
MirroredSteps ==
    SubmitApply \/ SubmitPlan \/ RollbackNow \/ Tick \/ DispatchRollback \/ DispatchNormal \/ ConsumeEvent

LEMMA MirrorStep ==
    ASSUME SessionInv, [Next]_vars
    PROVE  MirrorsExact' /\ busyMirror' \in BOOLEAN /\ queueMirror' \in 0..OutboxCapacity
<1>1. TypeOK /\ MirrorsExact
  BY PartsOfAccounts DEF SessionInv
<1>2. /\ pending' \in Seq(Countdowns) /\ queue' \in Seq(Ops) /\ reservations' \in Nat
      /\ Len(pending') + Len(queue') + reservations' <= OutboxCapacity
  BY RoomStep DEF AccountTypes, RoomForEveryInverse
<1>3. Len(queue') \in 0..OutboxCapacity
  BY <1>2, SessionAssumption
<1>4. CASE MirroredSteps
  <2>1. mode = "Running" /\ mode' = mode /\ Mirror
    BY <1>4 DEF MirroredSteps, SubmitApply, SubmitPlan, Submit, RollbackNow, Tick, DispatchRollback,
          DispatchNormal, ConsumeEvent
  <2>2. busyMirror' = (normal' # NoRequest) /\ queueMirror' = Len(queue')
    BY <1>1, <1>2, <2>1, Mirrored
  <2> QED
    BY <1>3, <2>1, <2>2 DEF MirrorsExact
<1>5. CASE QuitConfirmed \/ Drain \/ DrainAbandoned
  <2>1. UNCHANGED mirrors /\ mode' # "Running"
    BY <1>5 DEF QuitConfirmed, Drain, DrainDispatch, DrainConsume, DrainComplete, DrainAbandoned, DrainTurn
  <2> QED
    BY <1>1, <2>1 DEF MirrorsExact, TypeOK, mirrors
<1>6. CASE ~(MirroredSteps \/ QuitConfirmed \/ Drain \/ DrainAbandoned)
  <2>1. UNCHANGED <<mode, normal, queue, busyMirror, queueMirror>>
    BY <1>6 DEF MirroredSteps, Next, vars, Person, Dispatch, KeepChanges, DispatchRefused, Engine,
          Terminated, interface, mirrors, EngineBegin, EngineOperation, EnginePlanDone,
          EngineRollback, EngineDies
  <2> QED
    BY <1>1, <2>1 DEF MirrorsExact, TypeOK
<1> QED
  BY <1>4, <1>5, <1>6

(* One operation is reported; a plan goes on or stops there. *)
LEMMA Operated ==
    ASSUME TypeOK, EngineOperation
    PROVE  \E op \in Ops, armed \in BOOLEAN :
              /\ current \in Requests /\ current.kind \in {"Apply", "Plan"}
              /\ current.ops \in Seq(Ops) /\ current.ops # <<>> /\ op = Head(current.ops)
              /\ armed => op \in Risky
              /\ Finished(op, armed) \in Events /\ IsOp(Finished(op, armed))
              /\ events' = Append(events, Finished(op, armed))
              /\ registered' = IF armed THEN registered \cup {op} ELSE registered
              /\ current.kind = "Apply" => current' = NoRequest
              /\ current.kind = "Plan" =>
                    /\ current' \in Requests /\ current'.kind = "Plan" /\ current'.id = current.id
                    /\ current'.ops \in {Tail(current.ops), <<>>}
<1>1. /\ current \in Requests \/ current = NoRequest \/ \E r \in Ops : current = RollbackWork(r)
      /\ current.kind \in {"Apply", "Plan"} /\ current.ops # <<>>
  BY DEF TypeOK, EngineOperation
<1>2. current \in Requests /\ current.ops \in Seq(Ops)
  BY <1>1, RequestTypes
<1> DEFINE op == Head(current.ops)
<1>3. PICK armed \in (IF op \in Risky \cap Reversible THEN BOOLEAN ELSE {FALSE}), applied \in BOOLEAN :
         /\ events' = Append(events, Finished(op, armed))
         /\ registered' = IF armed THEN registered \cup {op} ELSE registered
         /\ current' = IF current.kind = "Apply" THEN NoRequest
                       ELSE [current EXCEPT !.ops = IF applied THEN Tail(@) ELSE <<>>]
  BY DEF EngineOperation
<1>4. op \in Ops /\ Tail(current.ops) \in Seq(Ops)
  BY <1>1, <1>2, FirstAndRest
<1>5. armed \in BOOLEAN /\ (armed => op \in Risky)
  BY <1>3
<1>6. Finished(op, armed) \in Events /\ IsOp(Finished(op, armed))
  BY <1>4, <1>5 DEF Finished, Events, IsOp
<1>7. ASSUME current.kind = "Plan"
      PROVE  /\ current' \in Requests /\ current'.kind = "Plan" /\ current'.id = current.id
             /\ current'.ops \in {Tail(current.ops), <<>>}
  <2>1. current' = [current EXCEPT !.ops = IF applied THEN Tail(@) ELSE <<>>]
    BY <1>3, <1>7
  <2>2. current = [kind |-> current.kind, id |-> current.id, ops |-> current.ops]
    BY <1>2 DEF Requests
  <2>3. current' = [kind |-> "Plan", id |-> current.id, ops |-> IF applied THEN Tail(current.ops) ELSE <<>>]
    BY <1>7, <2>1, <2>2
  <2>4. current.id \in Ops
    BY <1>2, RequestTypes
  <2>5. (IF applied THEN Tail(current.ops) ELSE <<>>) \in Seq(Ops)
    BY <1>4, OfNothing
  <2> QED
    BY <2>3, <2>4, <2>5 DEF Requests
<1>8. current.kind = "Apply" => current' = NoRequest
  BY <1>3
<1> QED
  BY <1>1, <1>2, <1>3, <1>4, <1>5, <1>6, <1>7, <1>8

(* The engine takes the oldest rollback, or with none the oldest request. *)
LEMMA Begun ==
    ASSUME TypeOK, EngineBegin
    PROVE  /\ current = NoRequest
           /\ \/ /\ rollbackLane # <<>> /\ Head(rollbackLane) \in Ops
                 /\ current' = RollbackWork(Head(rollbackLane)) /\ rollbackLane' = Tail(rollbackLane)
                 /\ rollbackLane' \in Seq(Ops) /\ Len(rollbackLane') <= RollbackCapacity
                 /\ requestLane' = requestLane
              \/ /\ requestLane # <<>> /\ Head(requestLane) \in Requests
                 /\ current' = Head(requestLane) /\ requestLane' = Tail(requestLane)
                 /\ requestLane' \in Seq(Requests) /\ Len(requestLane') <= RequestCapacity
                 /\ rollbackLane' = rollbackLane
<1>1. /\ rollbackLane \in Seq(Ops) /\ Len(rollbackLane) <= RollbackCapacity
      /\ requestLane \in Seq(Requests) /\ Len(requestLane) <= RequestCapacity
      /\ RollbackCapacity \in Nat /\ RequestCapacity \in Nat
  BY SessionAssumption DEF TypeOK
<1>2. CASE rollbackLane # <<>>
  <2>1. current' = RollbackWork(Head(rollbackLane)) /\ rollbackLane' = Tail(rollbackLane)
        /\ requestLane' = requestLane /\ current = NoRequest
    BY <1>2 DEF EngineBegin
  <2>2. Head(rollbackLane) \in Ops /\ Tail(rollbackLane) \in Seq(Ops)
        /\ Len(Tail(rollbackLane)) = Len(rollbackLane) - 1 /\ Len(rollbackLane) \in Nat
    BY <1>1, <1>2, FirstAndRest
  <2>3. Len(Tail(rollbackLane)) <= RollbackCapacity
    BY <1>1, <2>2
  <2> QED
    BY <1>2, <2>1, <2>2, <2>3
<1>3. CASE rollbackLane = <<>>
  <2>1. current' = Head(requestLane) /\ requestLane' = Tail(requestLane) /\ requestLane # <<>>
        /\ rollbackLane' = rollbackLane /\ current = NoRequest
    BY <1>3 DEF EngineBegin
  <2>2. Head(requestLane) \in Requests /\ Tail(requestLane) \in Seq(Requests)
        /\ Len(Tail(requestLane)) = Len(requestLane) - 1 /\ Len(requestLane) \in Nat
    BY <1>1, <2>1, FirstAndRest
  <2>3. Len(Tail(requestLane)) <= RequestCapacity
    BY <1>1, <2>2
  <2> QED
    BY <2>1, <2>2, <2>3
<1> QED
  BY <1>2, <1>3

LEMMA LastEvents ==
    ASSUME TypeOK
    PROVE  /\ EnginePlanDone => /\ current.kind = "Plan" /\ current.ops = <<>> /\ current \in Requests
                                /\ events' = Append(events, PlanDone(current.id))
                                /\ PlanDone(current.id) \in Events /\ current' = NoRequest
           /\ EngineRollback => \E r \in Ops : /\ current = RollbackWork(r) /\ RollbackDone(r) \in Events
                                               /\ events' = Append(events, RollbackDone(r))
                                               /\ runs' = [runs EXCEPT ![r] = @ + 1]
                                               /\ current' = NoRequest
<1>1. current \in Requests \/ current = NoRequest \/ \E r \in Ops : current = RollbackWork(r)
  BY DEF TypeOK
<1>2. ASSUME EnginePlanDone
      PROVE  /\ current.kind = "Plan" /\ current.ops = <<>> /\ current \in Requests
             /\ events' = Append(events, PlanDone(current.id))
             /\ PlanDone(current.id) \in Events /\ current' = NoRequest
  <2>1. current.kind = "Plan" /\ current.ops = <<>> /\ current' = NoRequest
        /\ events' = Append(events, PlanDone(current.id))
    BY <1>2 DEF EnginePlanDone
  <2>2. current \in Requests
    BY <1>1, <2>1, RequestTypes
  <2>3. current.id \in Ops
    BY <2>2, RequestTypes
  <2>4. PlanDone(current.id) \in Events
    BY <2>3 DEF PlanDone, Events
  <2> QED
    BY <2>1, <2>2, <2>4
<1>3. ASSUME EngineRollback
      PROVE  \E r \in Ops : /\ current = RollbackWork(r) /\ RollbackDone(r) \in Events
                            /\ events' = Append(events, RollbackDone(r))
                            /\ runs' = [runs EXCEPT ![r] = @ + 1]
                            /\ current' = NoRequest
  <2>1. /\ current.kind = "Rollback" /\ current' = NoRequest
        /\ events' = Append(events, RollbackDone(current.id))
        /\ runs' = [runs EXCEPT ![current.id] = @ + 1]
    BY <1>3 DEF EngineRollback
  <2>2. current \notin Requests
    BY <2>1 DEF Requests
  <2>3. PICK r \in Ops : current = RollbackWork(r)
    BY <1>1, <2>1, <2>2, RequestTypes
  <2>4. current.id = r /\ RollbackDone(r) \in Events
    BY <2>3, RequestTypes DEF RollbackDone, Events
  <2> QED
    BY <2>1, <2>3, <2>4
<1> QED
  BY <1>2, <1>3

-----------------------------------------------------------------------------
(* Which steps touch which variable *)

LEMMA Untouched ==
    ASSUME [Next]_vars
    PROVE  /\ ~(QuitConfirmed \/ DrainComplete \/ DrainAbandoned)
                => mode' = mode
           /\ ~(SubmitApply \/ SubmitPlan \/ DispatchNormal \/ QuitConfirmed)
                => normal' = normal
           /\ ~(KeepChanges \/ RollbackNow \/ QuitConfirmed \/ Tick \/ ConsumeEvent)
                => pending' = pending
           /\ ~(RollbackNow \/ QuitConfirmed \/ Tick \/ DispatchRollback \/ ConsumeEvent \/ 
             DrainDispatch \/ DrainConsume)
                => queue' = queue
           /\ ~(DispatchRefused)
                => normalClosed' = normalClosed /\ rollbackClosed' = rollbackClosed
           /\ ~(DispatchRollback \/ DrainDispatch \/ ConsumeEvent \/ DrainConsume)
                => inFlight' = inFlight
           /\ ~(SubmitApply \/ SubmitPlan \/ QuitConfirmed \/ ConsumeEvent \/ DrainConsume)
                => reservations' = reservations /\ singles' = singles /\ plan' = plan
           /\ ~(QuitConfirmed \/ DrainDispatch)
                => expected' = expected
           /\ ~(DrainConsume)
                => completed' = completed
           /\ ~(DispatchNormal \/ EngineBegin)
                => requestLane' = requestLane
           /\ ~(DispatchRollback \/ DrainDispatch \/ EngineBegin)
                => rollbackLane' = rollbackLane
           /\ ~(ConsumeEvent \/ DrainConsume \/ EngineOperation \/ EnginePlanDone \/ EngineRollback)
                => events' = events
           /\ ~(EngineDies)
                => engineUp' = engineUp
           /\ ~(EngineBegin \/ EngineOperation \/ EnginePlanDone \/ EngineRollback)
                => current' = current
           /\ ~(SubmitApply \/ SubmitPlan)
                => submitted' = submitted
           /\ ~(EngineOperation)
                => registered' = registered
           /\ ~(KeepChanges)
                => kept' = kept
           /\ ~(EngineRollback)
                => runs' = runs
<1> USE DEF Next, vars, Person, Dispatch, Drain, Engine, Terminated, interface, accounts, mirrors, closings,
       drain, engine, history, SubmitApply, SubmitPlan, Submit, KeepChanges, RollbackNow, QuitConfirmed,
       Tick, DispatchRollback, DispatchNormal, DispatchRefused, ConsumeEvent, DrainDispatch,
       DrainConsume, DrainComplete, DrainAbandoned, EngineBegin, EngineOperation, EnginePlanDone,
       EngineRollback, EngineDies
<1>1. ASSUME ~(QuitConfirmed \/ DrainComplete \/ DrainAbandoned)
      PROVE  mode' = mode
  BY <1>1
<1>2. ASSUME ~(SubmitApply \/ SubmitPlan \/ DispatchNormal \/ QuitConfirmed)
      PROVE  normal' = normal
  BY <1>2
<1>3. ASSUME ~(KeepChanges \/ RollbackNow \/ QuitConfirmed \/ Tick \/ ConsumeEvent)
      PROVE  pending' = pending
  BY <1>3
<1>4. ASSUME ~(RollbackNow \/ QuitConfirmed \/ Tick \/ DispatchRollback \/ ConsumeEvent \/ 
             DrainDispatch \/ DrainConsume)
      PROVE  queue' = queue
  BY <1>4
<1>5. ASSUME ~(DispatchRefused)
      PROVE  normalClosed' = normalClosed /\ rollbackClosed' = rollbackClosed
  BY <1>5
<1>6. ASSUME ~(DispatchRollback \/ DrainDispatch \/ ConsumeEvent \/ DrainConsume)
      PROVE  inFlight' = inFlight
  BY <1>6
<1>7. ASSUME ~(SubmitApply \/ SubmitPlan \/ QuitConfirmed \/ ConsumeEvent \/ DrainConsume)
      PROVE  reservations' = reservations /\ singles' = singles /\ plan' = plan
  BY <1>7
<1>8. ASSUME ~(QuitConfirmed \/ DrainDispatch)
      PROVE  expected' = expected
  BY <1>8
<1>9. ASSUME ~(DrainConsume)
      PROVE  completed' = completed
  BY <1>9
<1>10. ASSUME ~(DispatchNormal \/ EngineBegin)
      PROVE  requestLane' = requestLane
  BY <1>10
<1>11. ASSUME ~(DispatchRollback \/ DrainDispatch \/ EngineBegin)
      PROVE  rollbackLane' = rollbackLane
  BY <1>11
<1>12. ASSUME ~(ConsumeEvent \/ DrainConsume \/ EngineOperation \/ EnginePlanDone \/ EngineRollback)
      PROVE  events' = events
  BY <1>12
<1>13. ASSUME ~(EngineDies)
      PROVE  engineUp' = engineUp
  BY <1>13
<1>14. ASSUME ~(EngineBegin \/ EngineOperation \/ EnginePlanDone \/ EngineRollback)
      PROVE  current' = current
  BY <1>14
<1>15. ASSUME ~(SubmitApply \/ SubmitPlan)
      PROVE  submitted' = submitted
  BY <1>15
<1>16. ASSUME ~(EngineOperation)
      PROVE  registered' = registered
  BY <1>16
<1>17. ASSUME ~(KeepChanges)
      PROVE  kept' = kept
  BY <1>17
<1>18. ASSUME ~(EngineRollback)
      PROVE  runs' = runs
  BY <1>18
<1> QED
  BY <1>1, <1>2, <1>3, <1>4, <1>5, <1>6, <1>7, <1>8, <1>9, <1>10, <1>11, <1>12, <1>13, <1>14, <1>15, <1>16, <1>17, <1>18

-----------------------------------------------------------------------------
(* Types *)

LEMMA TypeStep ==
    ASSUME SessionInv, [Next]_vars
    PROVE  TypeOK'
<1>1. TypeOK
  BY PartsOfAccounts DEF SessionInv
<1>2. /\ pending' \in Seq(Countdowns) /\ queue' \in Seq(Ops) /\ Len(queue') <= OutboxCapacity
      /\ AccountTypes' /\ deferred' = <<>>
  <2>1. /\ pending' \in Seq(Countdowns) /\ queue' \in Seq(Ops) /\ AccountTypes'
        /\ RoomForEveryInverse'
    BY RoomStep
  <2>2. Len(pending') \in Nat /\ Len(queue') \in Nat /\ reservations' \in Nat
    BY <2>1 DEF AccountTypes
  <2> QED
    BY <2>1, <2>2, SessionAssumption DEF RoomForEveryInverse
<1>3. busyMirror' \in BOOLEAN /\ queueMirror' \in 0..OutboxCapacity
  BY MirrorStep
<1>4. mode' \in {"Running", "Draining", "ExitedClean", "ExitedUnfinished"}
  BY <1>1, Untouched DEF TypeOK, QuitConfirmed, DrainComplete, DrainAbandoned
<1>5. normal' \in Requests \cup {NoRequest}
  <2>1. CASE SubmitApply \/ SubmitPlan
    BY <2>1, SubmissionIs, Submitted
  <2>2. CASE DispatchNormal \/ QuitConfirmed
    BY <1>1, <2>2 DEF DispatchNormal, QuitConfirmed, TypeOK
  <2> QED
    BY <1>1, <2>1, <2>2, Untouched DEF TypeOK
<1>6. normalClosed' \in BOOLEAN /\ rollbackClosed' \in BOOLEAN
  BY <1>1, Untouched DEF TypeOK, DispatchRefused
<1>7. inFlight' \subseteq Ops /\ expected' \subseteq Ops /\ completed' \subseteq Ops
  <2>1. inFlight \subseteq Ops /\ expected \subseteq Ops /\ completed \subseteq Ops
    BY <1>1 DEF TypeOK
  <2>2. CASE DispatchRollback \/ DrainDispatch
    <3>1. Head(queue) \in Ops
      BY <2>2, RollbackSent
    <3> QED
      BY <2>1, <2>2, <3>1 DEF DispatchRollback, DrainDispatch, drain
  <2>3. CASE ConsumeEvent \/ DrainConsume
    <3>1. Head(events).id \in Ops
      BY <2>3, HeadEvent DEF ConsumeEvent, DrainConsume
    <3> QED
      BY <2>1, <2>3, <3>1 DEF ConsumeEvent, DrainConsume, drain
  <2>4. CASE QuitConfirmed
    BY <2>1, <2>4 DEF QuitConfirmed, drain
  <2> QED
    BY <2>1, <2>2, <2>3, <2>4, Untouched
<1>8. requestLane' \in Seq(Requests) /\ Len(requestLane') <= RequestCapacity
  <2>1. requestLane \in Seq(Requests) /\ Len(requestLane) <= RequestCapacity /\ RequestCapacity \in Nat
    BY <1>1, SessionAssumption DEF TypeOK
  <2>2. CASE DispatchNormal
    <3>1. /\ requestLane' = Append(requestLane, normal) /\ normal \in Requests
          /\ Len(requestLane) < RequestCapacity
      BY <1>1, <2>2 DEF DispatchNormal, TypeOK
    <3>2. requestLane' \in Seq(Requests) /\ Len(requestLane') = Len(requestLane) + 1 /\ Len(requestLane) \in Nat
      BY <2>1, <3>1, Appended
    <3> QED
      BY <2>1, <3>1, <3>2
  <2>3. CASE EngineBegin
    BY <1>1, <2>1, <2>3, Begun
  <2> QED
    BY <2>1, <2>2, <2>3, Untouched
<1>9. rollbackLane' \in Seq(Ops) /\ Len(rollbackLane') <= RollbackCapacity
  <2>1. rollbackLane \in Seq(Ops) /\ Len(rollbackLane) <= RollbackCapacity /\ RollbackCapacity \in Nat
    BY <1>1, SessionAssumption DEF TypeOK
  <2>2. CASE DispatchRollback \/ DrainDispatch
    <3>1. /\ rollbackLane' = Append(rollbackLane, Head(queue)) /\ Head(queue) \in Ops
          /\ Len(rollbackLane) < RollbackCapacity
      BY <2>2, RollbackSent
    <3>2. rollbackLane' \in Seq(Ops) /\ Len(rollbackLane') = Len(rollbackLane) + 1 /\ Len(rollbackLane) \in Nat
      BY <2>1, <3>1, Appended
    <3> QED
      BY <2>1, <3>1, <3>2
  <2>3. CASE EngineBegin
    BY <1>1, <2>1, <2>3, Begun
  <2> QED
    BY <2>1, <2>2, <2>3, Untouched
<1>10. events' \in Seq(Events) /\ Len(events') <= EventCapacity
  <2>1. events \in Seq(Events) /\ Len(events) <= EventCapacity /\ EventCapacity \in Nat
    BY <1>1, SessionAssumption DEF TypeOK
  <2>2. CASE ConsumeEvent \/ DrainConsume
    <3>1. events' = Tail(events) /\ events # <<>>
      BY <2>2 DEF ConsumeEvent, DrainConsume
    <3>2. Tail(events) \in Seq(Events) /\ Len(Tail(events)) = Len(events) - 1 /\ Len(events) \in Nat
      BY <2>1, <3>1, FirstAndRest
    <3> QED
      BY <2>1, <3>1, <3>2
  <2>3. CASE EngineOperation \/ EnginePlanDone \/ EngineRollback
    <3>1. PICK e \in Events : events' = Append(events, e)
      BY <1>1, <2>3, Operated, LastEvents
    <3>2. Len(events) < EventCapacity
      BY <2>3 DEF EngineOperation, EnginePlanDone, EngineRollback, EventRoom
    <3>3. events' \in Seq(Events) /\ Len(events') = Len(events) + 1 /\ Len(events) \in Nat
      BY <2>1, <3>1, Appended
    <3> QED
      BY <2>1, <3>2, <3>3
  <2> QED
    BY <2>1, <2>2, <2>3, Untouched
<1>11. engineUp' \in BOOLEAN
  BY <1>1, Untouched DEF TypeOK, EngineDies
<1>12. current' \in Requests \cup {NoRequest} \cup {RollbackWork(r) : r \in Ops}
  <2>1. CASE EngineBegin
    BY <1>1, <2>1, Begun
  <2>2. CASE EngineOperation
    BY <1>1, <2>2, Operated
  <2>3. CASE EnginePlanDone \/ EngineRollback
    BY <1>1, <2>3, LastEvents
  <2> QED
    BY <1>1, <2>1, <2>2, <2>3, Untouched DEF TypeOK
<1>13. submitted' \in 0..MaxOps
  <2>1. CASE SubmitApply \/ SubmitPlan
    BY <2>1, SubmissionIs, Submitted
  <2> QED
    BY <1>1, <2>1, Untouched DEF TypeOK
<1>14. registered' \subseteq Risky
  <2>1. CASE EngineOperation
    BY <1>1, <2>1, Operated DEF TypeOK
  <2> QED
    BY <1>1, <2>1, Untouched DEF TypeOK
<1>15. kept' \subseteq Ops
  <2>1. CASE KeepChanges
    <3>1. Ids(pending) \in Seq(Ops)
      BY <1>1, IdsOf DEF TypeOK
    <3>2. ToSet(Ids(pending)) \subseteq Ops
      BY <3>1, ElementsOf
    <3> QED
      BY <1>1, <2>1, <3>2 DEF TypeOK, KeepChanges
  <2> QED
    BY <1>1, <2>1, Untouched DEF TypeOK
<1>16. runs' \in [Ops -> Nat]
  <2>1. CASE EngineRollback
    <3>1. PICK r \in Ops : runs' = [runs EXCEPT ![r] = @ + 1]
      BY <1>1, <2>1, LastEvents
    <3> QED
      BY <1>1, <3>1 DEF TypeOK
  <2> QED
    BY <1>1, <2>1, Untouched DEF TypeOK
<1>17. deferred' \in Seq(Ops)
  BY <1>2, OfNothing
<1> QED
  BY <1>2, <1>3, <1>4, <1>5, <1>6, <1>7, <1>8, <1>9, <1>10, <1>11, <1>12, <1>13, <1>14, <1>15,
     <1>16, <1>17
  DEF TypeOK, AccountTypes

-----------------------------------------------------------------------------
(* The flow of operations *)

LEMMA NoRequestShape ==
    /\ InSequence(NoRequest) /\ NamedAfterFirst(NoRequest) /\ ToSet(NoRequest.ops) = {}
    /\ \A r : InSequence(RollbackWork(r)) /\ ToSet(RollbackWork(r).ops) = {}
  BY OfNothing DEF InSequence, NamedAfterFirst, NoRequest, RollbackWork

(* The operations that are left come after the one that was executed. *)
LEMMA OperationsLeft ==
    ASSUME NEW ops \in Seq(Ops), ops # <<>>,
           \A i, j \in 1..Len(ops) : i < j => ops[i] < ops[j],
           NEW left \in {Tail(ops), <<>>}
    PROVE  /\ left \in Seq(Ops) /\ ToSet(left) \subseteq ToSet(ops)
           /\ \A i, j \in 1..Len(left) : i < j => left[i] < left[j]
           /\ Before({Head(ops)}, ToSet(left))
           /\ Head(ops) \in ToSet(ops) /\ Head(ops) \in Ops
           /\ Len(ops) = 1 => ToSet(ops) = {Head(ops)}
<1> DEFINE rest == Tail(ops)
<1>1. /\ Len(ops) \in Nat \ {0} /\ Head(ops) = ops[1] /\ Head(ops) \in Ops /\ Head(ops) \in ToSet(ops)
      /\ rest \in Seq(Ops) /\ Len(rest) = Len(ops) - 1
      /\ \A i \in 1..Len(ops) - 1 : rest[i] = ops[i + 1]
      /\ ToSet(ops) = {Head(ops)} \cup ToSet(rest)
  BY FirstAndRest
<1>2. left = rest \/ left = <<>>
  OBVIOUS
<1> HIDE DEF rest
<1>3. ASSUME left = <<>>
      PROVE  /\ left \in Seq(Ops) /\ ToSet(left) \subseteq ToSet(ops)
             /\ \A i, j \in 1..Len(left) : i < j => left[i] < left[j]
             /\ Before({Head(ops)}, ToSet(left))
  <2>1. left \in Seq(Ops) /\ Len(left) = 0 /\ ToSet(left) = {}
    BY <1>3, OfNothing
  <2>2. \A i, j \in 1..Len(left) : i < j => left[i] < left[j]
    BY <2>1
  <2> QED
    BY <2>1, <2>2 DEF Before
<1>4. /\ rest \in Seq(Ops) /\ ToSet(rest) \subseteq ToSet(ops)
      /\ \A i, j \in 1..Len(rest) : i < j => rest[i] < rest[j]
      /\ Before({Head(ops)}, ToSet(rest))
  <2>1. \A i \in 1..Len(rest) : i + 1 \in 1..Len(ops) /\ rest[i] = ops[i + 1] /\ 1 < i + 1 /\ 1 \in 1..Len(ops)
    BY <1>1
  <2>2. ASSUME NEW i \in 1..Len(rest), NEW j \in 1..Len(rest), i < j PROVE rest[i] < rest[j]
    <3>1. i + 1 < j + 1
      BY <2>2
    <3> QED
      BY <2>1, <3>1
  <2>3. \A x : x \in ToSet(rest) <=> \E i \in 1..Len(rest) : rest[i] = x
    BY <1>1, ElementsOf
  <2>4. Before({Head(ops)}, ToSet(rest))
    BY <1>1, <2>1, <2>3 DEF Before
  <2> QED
    BY <1>1, <2>2, <2>4
<1>5. /\ left \in Seq(Ops) /\ ToSet(left) \subseteq ToSet(ops)
      /\ \A i, j \in 1..Len(left) : i < j => left[i] < left[j]
      /\ Before({Head(ops)}, ToSet(left))
  BY <1>2, <1>3, <1>4
<1>6. ASSUME Len(ops) = 1 PROVE ToSet(ops) = {Head(ops)}
  <2>1. rest = <<>>
    BY <1>1, <1>6, NoElements
  <2> QED
    BY <1>1, <2>1, OfNothing
<1> QED
  BY <1>1, <1>5, <1>6

LEMMA ShapeStep ==
    ASSUME SessionInv, [Next]_vars
    PROVE  Shapes'
<1>1. TypeOK /\ Shapes /\ EventsInOrder(events)
  BY PartsOfAccounts DEF SessionInv, Flow, Order
<1>2. /\ requestLane \in Seq(Requests) /\ events \in Seq(Events)
      /\ InSequence(normal) /\ InSequence(current) /\ NamedAfterFirst(normal)
      /\ \A i \in 1..Len(requestLane) : InSequence(requestLane[i])
      /\ RiskyArmed(events)
  BY <1>1 DEF Shapes, TypeOK
<1>3. InSequence(normal') /\ NamedAfterFirst(normal')
  <2>1. CASE SubmitApply \/ SubmitPlan
    <3>1. PICK kind \in {"Apply", "Plan"}, n \in Nat \ {0} :
                (kind = "Apply" => n = 1) /\ Submit(kind, n)
      BY <2>1, SubmissionIs
    <3> DEFINE request == NewRequest(kind, n)
    <3>2. normal' = request /\ submitted + n <= MaxOps /\ submitted \in 0..MaxOps
      BY <3>1, Submitted
    <3>3. /\ request.kind = kind /\ request.id = submitted + 1
          /\ request.ops \in Seq(Ops) /\ Len(request.ops) = n
          /\ \A i \in 1..n : request.ops[i] = submitted + i
      <4>1. submitted \in 0..MaxOps /\ n \in Nat /\ submitted + n <= MaxOps
        BY <3>2
      <4>2. /\ NewRequest(kind, n).kind = kind /\ NewRequest(kind, n).id = submitted + 1
            /\ NewRequest(kind, n).ops \in Seq(Ops) /\ Len(NewRequest(kind, n).ops) = n
        BY <4>1, NextOperations
      <4>3. \A i \in 1..n : NewRequest(kind, n).ops[i] = submitted + i
        BY <4>1 DEF NewRequest
      <4> QED
        BY <4>2, <4>3
    <3> HIDE DEF request
    <3>4. \A i, j \in 1..n : i < j => submitted + i < submitted + j
      BY <3>2
    <3>5. InSequence(request)
      BY <3>1, <3>3, <3>4 DEF InSequence
    <3>6. 1 \in 1..n
      OBVIOUS
    <3>7. NamedAfterFirst(request)
      BY <3>3, <3>6, NoElements DEF NamedAfterFirst
    <3> QED
      BY <3>2, <3>5, <3>7
  <2>2. CASE DispatchNormal \/ QuitConfirmed
    <3>1. normal' = NoRequest \/ normal' = normal
      BY <2>2 DEF DispatchNormal, QuitConfirmed
    <3> QED
      BY <1>2, <3>1, NoRequestShape
  <2> QED
    BY <1>2, <2>1, <2>2, Untouched
<1>4. InSequence(current')
  <2>1. CASE EngineBegin
    <3>1. CASE \E r \in Ops : current' = RollbackWork(r)
      BY <3>1, NoRequestShape
    <3>2. CASE requestLane # <<>> /\ current' = Head(requestLane)
      BY <1>2, <3>2, FirstAndRest
    <3> QED
      BY <1>1, <2>1, <3>1, <3>2, Begun
  <2>2. CASE EngineOperation
    <3>1. CASE current.kind = "Apply"
      BY <1>1, <2>2, <3>1, Operated, NoRequestShape
    <3>2. CASE current.kind = "Plan"
      <4>1. /\ current.ops \in Seq(Ops) /\ current.ops # <<>>
            /\ current'.kind = "Plan" /\ current'.ops \in {Tail(current.ops), <<>>}
        BY <1>1, <2>2, <3>2, Operated
      <4>2. \A i, j \in 1..Len(current'.ops) : i < j => current'.ops[i] < current'.ops[j]
        BY <1>2, <4>1, OperationsLeft DEF InSequence
      <4> QED
        BY <4>1, <4>2 DEF InSequence
    <3> QED
      BY <1>1, <2>2, <3>1, <3>2, Operated
  <2>3. CASE EnginePlanDone \/ EngineRollback
    BY <1>1, <2>3, LastEvents, NoRequestShape
  <2> QED
    BY <1>2, <2>1, <2>2, <2>3, Untouched
<1>5. \A i \in 1..Len(requestLane') : InSequence(requestLane'[i])
  <2>1. CASE DispatchNormal
    <3>1. requestLane' = Append(requestLane, normal) /\ normal \in Requests
      BY <1>1, <2>1 DEF DispatchNormal, TypeOK
    <3>2. /\ Len(requestLane') = Len(requestLane) + 1 /\ Len(requestLane) \in Nat
          /\ \A i \in 1..Len(requestLane) : requestLane'[i] = requestLane[i]
          /\ requestLane'[Len(requestLane) + 1] = normal
      BY <1>2, <3>1, Appended
    <3>3. \A i \in 1..Len(requestLane') : i \in 1..Len(requestLane) \/ i = Len(requestLane) + 1
      BY <3>2
    <3> QED
      BY <1>2, <3>2, <3>3
  <2>2. CASE EngineBegin
    <3>1. requestLane' = requestLane \/ (requestLane # <<>> /\ requestLane' = Tail(requestLane))
      BY ONLY <1>1, <2>2, Begun
    <3>2. CASE requestLane # <<>> /\ requestLane' = Tail(requestLane)
      <4>1. /\ Len(requestLane) \in Nat /\ Len(requestLane') = Len(requestLane) - 1
            /\ \A i \in 1..Len(requestLane) - 1 : requestLane'[i] = requestLane[i + 1]
        BY <1>2, <3>2, FirstAndRest
      <4>2. \A i \in 1..Len(requestLane') : i + 1 \in 1..Len(requestLane)
        BY <4>1
      <4> QED
        BY <1>2, <4>1, <4>2
    <3> QED
      BY <1>2, <3>1, <3>2
  <2> QED
    BY <1>2, <2>1, <2>2, Untouched
<1>6. RiskyArmed(events')
  <2>1. CASE ConsumeEvent \/ DrainConsume
    <3>1. events' = Tail(events) /\ events # <<>>
      BY <2>1 DEF ConsumeEvent, DrainConsume
    <3> QED
      BY <1>1, <1>2, <3>1, EventRead
  <2>2. CASE EngineOperation
    <3>1. PICK op \in Ops, armed \in BOOLEAN :
             /\ armed => op \in Risky
             /\ Finished(op, armed) \in Events /\ IsOp(Finished(op, armed))
             /\ events' = Append(events, Finished(op, armed))
      BY <1>1, <2>2, Operated
    <3>2. Finished(op, armed).armed = armed /\ Finished(op, armed).id = op
      BY DEF Finished
    <3> QED
      BY <1>2, <3>1, <3>2, EventAppended
  <2>3. CASE EnginePlanDone \/ EngineRollback
    <3>1. PICK e \in Events : events' = Append(events, e) /\ ~e.armed
      BY <1>1, <2>3, LastEvents DEF PlanDone, RollbackDone
    <3> QED
      BY <1>2, <3>1, EventAppended
  <2> QED
    BY <1>2, <2>1, <2>2, <2>3, Untouched
<1> QED
  BY <1>3, <1>4, <1>5, <1>6 DEF Shapes

LEMMA OrderStep ==
    ASSUME SessionInv, [Next]_vars
    PROVE  Order'
<1> DEFINE R == ReportedIn(events) \cup registered
<1> DEFINE C == ToSet(current.ops)
<1> DEFINE L == OpsIn(requestLane)
<1> DEFINE N == ToSet(normal.ops)
<1>1. TypeOK /\ Shapes /\ EventsInOrder(events) /\ LaneInOrder(requestLane) /\ RiskyArmed(events)
      /\ InLine(R, C, L, N, submitted)
  BY PartsOfAccounts DEF SessionInv, Flow, Order, Shapes
<1>2. requestLane \in Seq(Requests) /\ events \in Seq(Events) /\ submitted \in 0..MaxOps
  BY <1>1 DEF TypeOK
<1>3. R \subseteq Ops /\ C \subseteq Ops /\ L \subseteq Ops /\ N \subseteq Ops /\ Ops \subseteq Nat
  <2>1. registered \subseteq Ops
    BY <1>1, SessionAssumption DEF TypeOK, Ops
  <2>2. Ops \subseteq Nat
    BY DEF Ops
  <2> QED
    BY <1>1, <2>1, <2>2, OpsAreOps
<1> SUFFICES /\ EventsInOrder(events') /\ LaneInOrder(requestLane')
             /\ InLine(ReportedIn(events') \cup registered', ToSet(current'.ops), OpsIn(requestLane'),
                       ToSet(normal'.ops), submitted')
  BY DEF Order
<1> DEFINE Rn == ReportedIn(events') \cup registered'
<1> DEFINE Cn == ToSet(current'.ops)
<1> DEFINE Ln == OpsIn(requestLane')
<1> DEFINE Nn == ToSet(normal'.ops)
<1>4. /\ events' = events /\ registered' = registered => Rn = R
      /\ current' = current => Cn = C
      /\ requestLane' = requestLane => Ln = L
      /\ normal' = normal => Nn = N
  OBVIOUS
<1>5. CASE SubmitApply \/ SubmitPlan
  <2>1. PICK kind \in {"Apply", "Plan"}, n \in Nat \ {0} :
              (kind = "Apply" => n = 1) /\ Submit(kind, n)
    BY <1>5, SubmissionIs
  <2>2. /\ normal' = NewRequest(kind, n) /\ submitted + n <= MaxOps /\ submitted' = submitted + n
        /\ normal = NoRequest
    BY <2>1, Submitted
  <2>3. ToSet(NewRequest(kind, n).ops) = (submitted + 1)..(submitted + n)
    BY <1>2, <2>2, NextOperations
  <2>4. events' = events /\ registered' = registered /\ current' = current /\ requestLane' = requestLane
    BY <2>1 DEF Submit, engine
  <2>5. Rn = R /\ Cn = C /\ Ln = L /\ Nn = (submitted + 1)..(submitted + n) /\ N = {}
    BY <1>4, <2>2, <2>3, <2>4, NoRequestShape
  <2> HIDE DEF R, C, L, N, Rn, Cn, Ln, Nn
  <2>6. InLine(Rn, Cn, Ln, Nn, submitted')
    BY <1>1, <1>2, <1>3, <2>2, <2>5 DEF InLine, Before
  <2> QED
    BY <1>1, <2>4, <2>6 DEF Rn, Cn, Ln, Nn
<1>6. CASE DispatchNormal
  <2>1. /\ normal \in Requests /\ requestLane' = Append(requestLane, normal) /\ normal' = NoRequest
        /\ events' = events /\ registered' = registered /\ current' = current /\ submitted' = submitted
    BY <1>1, <1>6 DEF DispatchNormal, TypeOK, history
  <2>2. Before(L, N)
    BY <1>1 DEF InLine
  <2>3. Ln = L \cup N /\ LaneInOrder(requestLane')
    BY <1>1, <1>2, <2>1, <2>2, RequestSent
  <2>4. Rn = R /\ Cn = C /\ Nn = {}
    BY <1>4, <2>1, NoRequestShape
  <2> HIDE DEF R, C, L, N, Rn, Cn, Ln, Nn
  <2>5. InLine(Rn, Cn, Ln, Nn, submitted')
    BY <1>1, <2>1, <2>3, <2>4 DEF InLine, Before
  <2> QED
    BY <1>1, <2>1, <2>3, <2>5 DEF Rn, Cn, Ln, Nn
<1>7. CASE QuitConfirmed
  <2>1. /\ normal' = NoRequest \/ normal' = normal
        /\ events' = events /\ registered' = registered /\ current' = current /\ submitted' = submitted
        /\ requestLane' = requestLane
    BY <1>7 DEF QuitConfirmed, engine, history
  <2>2. Rn = R /\ Cn = C /\ Ln = L /\ Nn \subseteq N
    BY <1>4, <2>1, NoRequestShape
  <2> HIDE DEF R, C, L, N, Rn, Cn, Ln, Nn
  <2>3. InLine(Rn, Cn, Ln, Nn, submitted')
    BY <1>1, <2>1, <2>2 DEF InLine, Before
  <2> QED
    BY <1>1, <2>1, <2>3 DEF Rn, Cn, Ln, Nn
<1>8. CASE ConsumeEvent \/ DrainConsume
  <2>1. /\ events' = Tail(events) /\ events # <<>> /\ submitted' = submitted
        /\ normal' = normal /\ registered' = registered /\ current' = current /\ requestLane' = requestLane
    BY <1>8 DEF ConsumeEvent, DrainConsume, history
  <2>2. ReportedIn(events') \subseteq ReportedIn(events) /\ EventsInOrder(events')
    BY <1>1, <1>2, <2>1, EventRead
  <2>3. Rn \subseteq R /\ Cn = C /\ Ln = L /\ Nn = N
    BY <1>4, <2>1, <2>2
  <2> HIDE DEF R, C, L, N, Rn, Cn, Ln, Nn
  <2>4. InLine(Rn, Cn, Ln, Nn, submitted')
    BY <1>1, <2>1, <2>3 DEF InLine, Before
  <2> QED
    BY <1>1, <2>1, <2>2, <2>4 DEF Rn, Cn, Ln, Nn
<1>9. CASE EngineBegin
  <2>1. /\ events' = events /\ registered' = registered /\ normal' = normal /\ submitted' = submitted
    BY <1>9 DEF EngineBegin, interface, history
  <2>2. C = {}
    BY <1>1, <1>9, Begun, NoRequestShape
  <2>3. CASE \E r \in Ops : current' = RollbackWork(r) /\ requestLane' = requestLane
    <3>1. Rn = R /\ Cn = {} /\ Ln = L /\ Nn = N
      BY <1>4, <2>1, <2>3, NoRequestShape
    <3> HIDE DEF R, C, L, N, Rn, Cn, Ln, Nn
    <3>2. InLine(Rn, Cn, Ln, Nn, submitted')
      BY <1>1, <2>1, <2>2, <3>1
    <3> QED
      BY <1>1, <2>1, <2>3, <3>2 DEF Rn, Cn, Ln, Nn
  <2>4. CASE requestLane # <<>> /\ current' = Head(requestLane) /\ requestLane' = Tail(requestLane)
    <3>1. L = Cn \cup Ln /\ LaneInOrder(requestLane') /\ Before(Cn, Ln)
      BY <1>1, <1>2, <2>4, RequestTaken
    <3>2. Rn = R /\ Nn = N
      BY <1>4, <2>1
    <3> HIDE DEF R, C, L, N, Rn, Cn, Ln, Nn
    <3>3. InLine(Rn, Cn, Ln, Nn, submitted')
      BY <1>1, <2>1, <3>1, <3>2 DEF InLine, Before
    <3> QED
      BY <1>1, <2>1, <3>1, <3>3 DEF Rn, Cn, Ln, Nn
  <2> QED
    BY <1>1, <1>9, <2>3, <2>4, Begun
<1>10. CASE EngineOperation
  <2>1. normal' = normal /\ submitted' = submitted /\ requestLane' = requestLane
    BY <1>10 DEF EngineOperation, interface
  <2>2. PICK op \in Ops, armed \in BOOLEAN :
              /\ current \in Requests /\ current.kind \in {"Apply", "Plan"}
              /\ current.ops \in Seq(Ops) /\ current.ops # <<>> /\ op = Head(current.ops)
              /\ Finished(op, armed) \in Events /\ IsOp(Finished(op, armed))
              /\ events' = Append(events, Finished(op, armed))
              /\ registered' = IF armed THEN registered \cup {op} ELSE registered
              /\ current.kind = "Apply" => current' = NoRequest
              /\ current.kind = "Plan" => current'.ops \in {Tail(current.ops), <<>>}
    BY <1>1, <1>10, Operated
  <2>3. \A i, j \in 1..Len(current.ops) : i < j => current.ops[i] < current.ops[j]
    BY <1>1 DEF Shapes, InSequence
  <2>4. op \in C
    BY <2>2, FirstAndRest
  <2>5. Cn \subseteq C /\ Before({op}, Cn)
    <3>1. CASE current.kind = "Apply"
      BY <2>2, <3>1, NoRequestShape DEF Before
    <3>2. CASE current.kind = "Plan"
      BY <2>2, <2>3, <3>2, OperationsLeft
    <3> QED
      BY <2>2, <3>1, <3>2
  <2>6. Before(ReportedIn(events), {op})
    BY <1>1, <2>4 DEF InLine, Before
  <2>7. ReportedIn(events') = ReportedIn(events) \cup {op} /\ EventsInOrder(events')
    <3>1. Finished(op, armed).id = op
      BY DEF Finished
    <3> QED
      BY <1>1, <1>2, <2>2, <2>6, <3>1, EventAppended
  <2>8. Rn = R \cup {op} /\ Ln = L /\ Nn = N
    BY <1>4, <2>1, <2>2, <2>7
  <2> HIDE DEF R, C, L, N, Rn, Cn, Ln, Nn
  <2>9. InLine(Rn, Cn, Ln, Nn, submitted')
    BY <1>1, <2>1, <2>4, <2>5, <2>8 DEF InLine, Before
  <2> QED
    BY <1>1, <2>1, <2>7, <2>9 DEF Rn, Cn, Ln, Nn
<1>11. CASE EnginePlanDone \/ EngineRollback
  <2>1. /\ normal' = normal /\ submitted' = submitted /\ requestLane' = requestLane
        /\ registered' = registered
    BY <1>11 DEF EnginePlanDone, EngineRollback, interface, history
  <2>2. current' = NoRequest
    BY <1>1, <1>11, LastEvents
  <2>3. PICK e \in Events : events' = Append(events, e) /\ ~IsOp(e)
    BY <1>1, <1>11, LastEvents DEF PlanDone, RollbackDone, IsOp
  <2>4. ReportedIn(events') = ReportedIn(events) /\ EventsInOrder(events')
    BY <1>1, <1>2, <2>3, EventAppended
  <2>5. Rn = R /\ Cn = {} /\ Ln = L /\ Nn = N
    BY <1>4, <2>1, <2>2, <2>4, NoRequestShape
  <2> HIDE DEF R, C, L, N, Rn, Cn, Ln, Nn
  <2>6. InLine(Rn, Cn, Ln, Nn, submitted')
    BY <1>1, <2>1, <2>5 DEF InLine, Before
  <2> QED
    BY <1>1, <2>1, <2>4, <2>6 DEF Rn, Cn, Ln, Nn
<1>12. CASE ~(\/ SubmitApply \/ SubmitPlan \/ DispatchNormal \/ QuitConfirmed \/ ConsumeEvent \/ DrainConsume
              \/ EngineBegin \/ EngineOperation \/ EnginePlanDone \/ EngineRollback)
  <2>1. /\ normal' = normal /\ submitted' = submitted /\ requestLane' = requestLane
        /\ registered' = registered /\ events' = events /\ current' = current
    BY <1>12, Untouched
  <2> QED
    BY <1>1, <2>1
<1> QED
  BY <1>5, <1>6, <1>7, <1>8, <1>9, <1>10, <1>11, <1>12

-----------------------------------------------------------------------------
(* The plan is the last request *)

SamePlan(p, q) == (p = NoPlan <=> q = NoPlan) /\ p.id = q.id

LEMMA SameBelongs ==
    ASSUME NEW p, NEW q, SamePlan(p, q), NEW request
    PROVE  Belongs(request, p) <=> Belongs(request, q)
  BY DEF SamePlan, Belongs, IsOfPlan

LEMMA BelongsToNone ==
    ASSUME NEW request
    PROVE  Belongs(request, NoPlan) <=> request.kind # "Plan"
  BY DEF Belongs, IsOfPlan

LEMMA ConsumeKeepsPlan ==
    ASSUME AccountTypes, plan # NoPlan => plan.id \in Ops, Consume
    PROVE  SamePlan(plan, plan')
<1>1. CASE plan' = plan
  BY <1>1 DEF SamePlan
<1>2. CASE plan' # plan
  <2>1. plan.consumed < plan.total /\ plan' = [plan EXCEPT !.consumed = @ + 1]
    BY <1>2 DEF Consume
  <2>2. plan # NoPlan
    BY <2>1, NoPlanTypes
  <2>3. plan'.id = plan.id
    BY <2>1 DEF AccountTypes
  <2>4. plan.id # 0
    BY <2>2 DEF Ops
  <2>5. plan' # NoPlan
    BY <2>3, <2>4, NoPlanTypes
  <2> QED
    BY <2>2, <2>3, <2>5 DEF SamePlan
<1> QED
  BY <1>1, <1>2

(* What an event does to the plan: its end is its own, and then nothing is left
   of it. *)
LEMMA PlanAccounted ==
    ASSUME SessionInv, events # <<>>, Account(Head(events))
    PROVE  \/ SamePlan(plan, plan') /\ Head(events).type # "PlanFinished"
           \/ /\ Head(events).type = "PlanFinished" /\ FinishPlan(plan.id)
              /\ plan # NoPlan /\ plan' = NoPlan
              /\ requestLane = <<>> /\ normal = NoRequest /\ current.ops = <<>>
              /\ current.kind \notin {"Apply", "Plan"}
              /\ \A j \in 1..Len(events) : 1 < j => events[j].type = "RollbackFinished"
<1>1. TypeOK /\ AccountTypes /\ events \in Seq(Events) /\ PlanIsLast /\ InSequence(current)
  BY PartsOfAccounts, PlanWithin DEF SessionInv, Flow, Shapes, TypeOK
<1>2. Head(events) = events[1] /\ 1 \in 1..Len(events)
  BY <1>1, FirstAndRest
<1>3. plan # NoPlan => plan.id \in Ops
  BY <1>1 DEF PlanIsLast
<1>4. CASE Head(events).type = "OperationFinished" /\ Head(events).id \in Risky
  <2>1. Consume
    BY <1>4 DEF Account
  <2> QED
    BY <1>1, <1>3, <1>4, <2>1, ConsumeKeepsPlan
<1>5. CASE Head(events).type = "PlanFinished"
  <2>1. FinishPlan(Head(events).id)
    BY <1>5 DEF Account
  <2>2. /\ plan # NoPlan /\ events[1].id = plan.id
        /\ requestLane = <<>> /\ normal = NoRequest /\ current.kind \notin {"Apply", "Plan"}
        /\ \A j \in 1..Len(events) : 1 < j => events[j].type = "RollbackFinished"
    BY <1>1, <1>2, <1>5 DEF PlanIsLast
  <2>3. FinishPlan(plan.id)
    BY <1>2, <2>1, <2>2
  <2>4. plan' = NoPlan
    BY <2>2, <2>3 DEF FinishPlan
  <2>5. current.ops = <<>>
    BY <1>1, <2>2 DEF InSequence
  <2> QED
    BY <1>5, <2>2, <2>3, <2>4, <2>5
<1>6. CASE /\ ~(Head(events).type = "OperationFinished" /\ Head(events).id \in Risky)
           /\ Head(events).type # "PlanFinished"
  <2>1. UNCHANGED accounts
    BY <1>6 DEF Account
  <2> QED
    BY <1>6, <2>1 DEF accounts, SamePlan
<1> QED
  BY <1>4, <1>5, <1>6

(* What the quit does to the plan: with the request it takes its plan out. *)
LEMMA PlanAbandoned ==
    ASSUME SessionInv, ReleaseAbandoned
    PROVE  \/ SamePlan(plan, plan') /\ normal.kind # "Plan"
           \/ /\ normal.kind = "Plan" /\ normal.id = plan.id
              /\ FinishPlan(plan.id) /\ plan # NoPlan /\ plan' = NoPlan
              /\ \A i \in 1..Len(requestLane) : requestLane[i].kind # "Plan"
              /\ current.kind # "Plan"
              /\ \A i \in 1..Len(events) : events[i].type # "PlanFinished"
<1>1. TypeOK /\ AccountTypes /\ PlanIsLast
  BY PartsOfAccounts, PlanWithin DEF SessionInv, Flow
<1>2. plan # NoPlan => plan.id \in Ops
  BY <1>1 DEF PlanIsLast
<1>3. CASE normal.kind = "Apply" /\ RiskyCount(normal.ops) = 1
  <2>1. Consume
    BY <1>3 DEF ReleaseAbandoned
  <2> QED
    BY <1>1, <1>2, <1>3, <2>1, ConsumeKeepsPlan
<1>4. CASE normal.kind = "Plan"
  <2>1. FinishPlan(normal.id)
    BY <1>4 DEF ReleaseAbandoned
  <2>2. plan # NoPlan /\ normal.id = plan.id
    BY <1>1, <1>4 DEF PlanIsLast, Belongs
  <2>3. FinishPlan(plan.id)
    BY <2>1, <2>2
  <2>4. plan' = NoPlan
    BY <2>2, <2>3 DEF FinishPlan
  <2>5. normal # NoRequest
    BY <1>4 DEF NoRequest
  <2> QED
    BY <1>1, <1>4, <2>2, <2>3, <2>4, <2>5 DEF PlanIsLast
<1>5. CASE ~(normal.kind = "Apply" /\ RiskyCount(normal.ops) = 1) /\ normal.kind # "Plan"
  <2>1. UNCHANGED accounts
    BY <1>5 DEF ReleaseAbandoned
  <2> QED
    BY <1>5, <2>1 DEF accounts, SamePlan
<1> QED
  BY <1>3, <1>4, <1>5

(* Without a plan there is no trace of one. *)
LEMMA NoTraceOfPlan ==
    ASSUME PlanIsLast, plan = NoPlan
    PROVE  /\ normal.kind # "Plan" /\ current.kind # "Plan"
           /\ \A i \in 1..Len(requestLane) : requestLane[i].kind # "Plan"
           /\ \A i \in 1..Len(events) : events[i].type # "PlanFinished"
  BY DEF PlanIsLast, Belongs

LEMMA PlanStep ==
    ASSUME SessionInv, [Next]_vars
    PROVE  PlanIsLast'
<1>1. /\ TypeOK /\ PlanIsLast /\ AccountTypes /\ requestLane \in Seq(Requests) /\ events \in Seq(Events)
      /\ InLine(ReportedIn(events) \cup registered, ToSet(current.ops), OpsIn(requestLane),
                ToSet(normal.ops), submitted)
  BY PartsOfAccounts, PlanWithin DEF SessionInv, Flow, TypeOK, Order
<1>2. /\ plan # NoPlan => plan.id \in Ops
      /\ Belongs(normal, plan) /\ Belongs(current, plan)
      /\ \A i \in 1..Len(requestLane) :
            /\ Belongs(requestLane[i], plan)
            /\ requestLane[i].kind = "Plan" => i = Len(requestLane) /\ normal = NoRequest
      /\ current.kind = "Plan" => requestLane = <<>> /\ normal = NoRequest
      /\ \A i \in 1..Len(events) :
            events[i].type = "PlanFinished" =>
                /\ plan # NoPlan /\ events[i].id = plan.id
                /\ requestLane = <<>> /\ normal = NoRequest /\ current.kind \notin {"Apply", "Plan"}
                /\ \A j \in 1..Len(events) : i < j => events[j].type = "RollbackFinished"
  BY <1>1 DEF PlanIsLast
<1>3. /\ \A p : Belongs(NoRequest, p) /\ \A r : Belongs(RollbackWork(r), p)
      /\ NoRequest.kind = "None" /\ \A r : RollbackWork(r).kind = "Rollback"
  BY NoRequestShape, RequestTypes DEF Belongs
<1>4. CASE SubmitApply \/ SubmitPlan
  <2>1. PICK kind \in {"Apply", "Plan"}, n \in Nat \ {0} :
              (kind = "Apply" => n = 1) /\ Submit(kind, n)
    BY <1>4, SubmissionIs
  <2>2. /\ normal' = NewRequest(kind, n) /\ submitted + n <= MaxOps /\ submitted \in 0..MaxOps
        /\ plan = NoPlan
        /\ kind = "Apply" => plan' = plan
        /\ kind = "Plan" => plan'.id = submitted + 1
    BY <2>1, Submitted
  <2>3. /\ NewRequest(kind, n).kind = kind /\ NewRequest(kind, n).id = submitted + 1
        /\ ToSet(NewRequest(kind, n).ops) = (submitted + 1)..(submitted + n)
    BY <2>2, NextOperations
  <2>4. events' = events /\ current' = current /\ requestLane' = requestLane
    BY <2>1 DEF Submit, engine
  <2>5. /\ current.kind # "Plan"
        /\ \A i \in 1..Len(requestLane) : requestLane[i].kind # "Plan"
        /\ \A i \in 1..Len(events) : events[i].type # "PlanFinished"
    BY <1>1, <2>2, NoTraceOfPlan
  <2>6. CASE kind = "Apply"
    <3>1. Belongs(normal', NoPlan)
      BY <2>2, <2>3, <2>6, BelongsToNone
    <3> QED
      BY <1>2, <2>2, <2>4, <2>5, <2>6, <3>1 DEF PlanIsLast
  <2>7. CASE kind = "Plan"
    <3>1. plan'.id = submitted + 1 /\ plan' # NoPlan /\ plan'.id \in Ops
      BY <2>2, <2>7, NoPlanTypes, SessionAssumption DEF Ops
    <3>2. Belongs(normal', plan')
      BY <2>2, <2>3, <2>7, <3>1 DEF Belongs, IsOfPlan
    <3>3. /\ \A op \in ToSet(current.ops) : op <= submitted /\ op \in Nat
          /\ \A op \in OpsIn(requestLane) : op <= submitted /\ op \in Nat
      BY <1>1, OpsAreOps DEF InLine, Ops
    <3>4. Belongs(current, plan')
      BY <2>2, <2>5, <3>1, <3>3 DEF Belongs, IsOfPlan
    <3>5. ASSUME NEW i \in 1..Len(requestLane) PROVE Belongs(requestLane[i], plan')
      <4>1. ToSet(requestLane[i].ops) \subseteq OpsIn(requestLane)
        BY <1>1, SetOfLane
      <4> QED
        BY <2>2, <2>5, <3>1, <3>3, <4>1 DEF Belongs, IsOfPlan
    <3> QED
      BY <2>4, <2>5, <3>1, <3>2, <3>4, <3>5 DEF PlanIsLast
  <2> QED
    BY <2>6, <2>7
<1>5. CASE DispatchNormal
  <2>1. /\ normal \in Requests /\ normal # NoRequest
        /\ requestLane' = Append(requestLane, normal) /\ normal' = NoRequest
        /\ events' = events /\ current' = current /\ plan' = plan
    BY <1>1, <1>5 DEF DispatchNormal, TypeOK, accounts
  <2>2. /\ Len(requestLane') = Len(requestLane) + 1 /\ Len(requestLane) \in Nat
        /\ \A i \in 1..Len(requestLane) : requestLane'[i] = requestLane[i]
        /\ requestLane'[Len(requestLane) + 1] = normal
    BY <1>1, <2>1, Appended
  <2>3. \A i \in 1..Len(requestLane') : i \in 1..Len(requestLane) \/ i = Len(requestLane')
    BY <2>2
  <2>4. /\ \A i \in 1..Len(requestLane) : requestLane[i].kind # "Plan"
        /\ current.kind # "Plan"
        /\ \A i \in 1..Len(events) : events[i].type # "PlanFinished"
    BY <1>2, <2>1
  <2>5. \A i \in 1..Len(requestLane') :
            /\ Belongs(requestLane'[i], plan)
            /\ requestLane'[i].kind = "Plan" => i = Len(requestLane')
    BY <1>2, <2>2, <2>3, <2>4
  <2> QED
    BY <1>2, <1>3, <2>1, <2>4, <2>5 DEF PlanIsLast
<1>6. CASE QuitConfirmed
  <2>1. events' = events /\ current' = current /\ requestLane' = requestLane
    BY <1>6 DEF QuitConfirmed, engine
  <2>2. CASE normal' = normal /\ UNCHANGED accounts
    BY <1>2, <2>1, <2>2 DEF PlanIsLast, accounts
  <2>3. CASE ReleaseAbandoned /\ normal' = NoRequest
    <3>1. CASE SamePlan(plan, plan')
      BY <1>2, <1>3, <2>1, <2>3, <3>1, SameBelongs DEF PlanIsLast, SamePlan
    <3>2. CASE /\ plan' = NoPlan /\ current.kind # "Plan"
               /\ \A i \in 1..Len(requestLane) : requestLane[i].kind # "Plan"
               /\ \A i \in 1..Len(events) : events[i].type # "PlanFinished"
      BY <1>3, <2>1, <2>3, <3>2, BelongsToNone DEF PlanIsLast
    <3> QED
      BY <2>3, <3>1, <3>2, PlanAbandoned
  <2> QED
    BY <1>6, <2>2, <2>3, QuitIs
<1>7. CASE ConsumeEvent \/ DrainConsume
  <2>1. /\ events' = Tail(events) /\ events # <<>> /\ Account(Head(events))
        /\ normal' = normal /\ current' = current /\ requestLane' = requestLane
    BY <1>7 DEF ConsumeEvent, DrainConsume
  <2>2. /\ Len(events) \in Nat /\ Len(events') = Len(events) - 1
        /\ \A i \in 1..Len(events) - 1 : events'[i] = events[i + 1]
    BY <1>1, <2>1, FirstAndRest
  <2>3. \A i \in 1..Len(events') : i + 1 \in 1..Len(events) /\ events'[i] = events[i + 1] /\ 1 < i + 1
    BY <2>2
  <2>4. CASE SamePlan(plan, plan')
    <3>1. ASSUME NEW i \in 1..Len(events'), events'[i].type = "PlanFinished"
          PROVE  /\ plan' # NoPlan /\ events'[i].id = plan'.id
                 /\ requestLane = <<>> /\ normal = NoRequest /\ current.kind \notin {"Apply", "Plan"}
                 /\ \A j \in 1..Len(events') : i < j => events'[j].type = "RollbackFinished"
      <4>1. events[i + 1].type = "PlanFinished" /\ i + 1 \in 1..Len(events)
        BY <2>3, <3>1
      <4>2. ASSUME NEW j \in 1..Len(events'), i < j PROVE events'[j].type = "RollbackFinished"
        <5>1. i + 1 < j + 1
          BY <4>2
        <5> QED
          BY <1>2, <2>3, <4>1, <5>1
      <4> QED
        BY <1>2, <2>3, <2>4, <4>1, <4>2 DEF SamePlan
    <3>2. /\ plan' # NoPlan => plan'.id \in Ops
          /\ Belongs(normal, plan') /\ Belongs(current, plan')
          /\ \A i \in 1..Len(requestLane) : Belongs(requestLane[i], plan')
      BY <1>2, <2>4, SameBelongs DEF SamePlan
    <3> QED
      BY <1>2, <2>1, <3>1, <3>2 DEF PlanIsLast
  <2>5. CASE /\ plan' = NoPlan /\ requestLane = <<>> /\ normal = NoRequest
             /\ current.kind \notin {"Apply", "Plan"}
             /\ \A j \in 1..Len(events) : 1 < j => events[j].type = "RollbackFinished"
    <3>1. \A i \in 1..Len(events') : events'[i].type # "PlanFinished"
      BY <2>3, <2>5
    <3>2. Belongs(normal', plan') /\ Belongs(current', plan')
      BY <1>3, <2>1, <2>5, BelongsToNone
    <3>3. Len(requestLane') = 0
      BY <2>1, <2>5
    <3> QED
      BY <2>1, <2>5, <3>1, <3>2, <3>3 DEF PlanIsLast
  <2> QED
    BY <2>1, <2>4, <2>5, PlanAccounted
<1>8. CASE EngineBegin
  <2>1. events' = events /\ normal' = normal /\ plan' = plan
    BY <1>8 DEF EngineBegin, interface, accounts
  <2>2. CASE \E r \in Ops : current' = RollbackWork(r) /\ requestLane' = requestLane
    BY <1>2, <1>3, <2>1, <2>2 DEF PlanIsLast
  <2>3. CASE requestLane # <<>> /\ current' = Head(requestLane) /\ requestLane' = Tail(requestLane)
    <3>1. /\ Len(requestLane) \in Nat \ {0} /\ Len(requestLane') = Len(requestLane) - 1
          /\ \A i \in 1..Len(requestLane) - 1 : requestLane'[i] = requestLane[i + 1]
          /\ current' = requestLane[1] /\ requestLane' \in Seq(Requests)
      BY <1>1, <2>3, FirstAndRest
    <3>2. \A i \in 1..Len(requestLane') : i + 1 \in 1..Len(requestLane) /\ requestLane'[i] = requestLane[i + 1]
      BY <3>1
    <3>3. 1 \in 1..Len(requestLane)
      BY <3>1
    <3>4. \A i \in 1..Len(events) : events[i].type # "PlanFinished"
      BY <1>2, <2>3
    <3>5. ASSUME current'.kind = "Plan" PROVE requestLane' = <<>> /\ normal = NoRequest
      <4>1. Len(requestLane) = 1 /\ normal = NoRequest
        BY <1>2, <3>1, <3>3, <3>5
      <4> QED
        BY <3>1, <4>1, NoElements
    <3>6. \A i \in 1..Len(requestLane') :
            /\ Belongs(requestLane'[i], plan)
            /\ requestLane'[i].kind = "Plan" => i = Len(requestLane') /\ normal = NoRequest
      BY <1>2, <3>1, <3>2
    <3> QED
      BY <1>2, <2>1, <3>1, <3>3, <3>4, <3>5, <3>6 DEF PlanIsLast
  <2> QED
    BY <1>1, <1>8, <2>2, <2>3, Begun
<1>9. CASE EngineOperation
  <2>1. normal' = normal /\ requestLane' = requestLane /\ plan' = plan
    BY <1>9 DEF EngineOperation, interface, accounts
  <2>2. PICK op \in Ops, armed \in BOOLEAN :
              /\ current.kind \in {"Apply", "Plan"}
              /\ current.ops \in Seq(Ops) /\ current.ops # <<>>
              /\ Finished(op, armed) \in Events
              /\ events' = Append(events, Finished(op, armed))
              /\ current.kind = "Apply" => current' = NoRequest
              /\ current.kind = "Plan" =>
                    /\ current'.kind = "Plan" /\ current'.id = current.id
                    /\ current'.ops \in {Tail(current.ops), <<>>}
    BY <1>1, <1>9, Operated
  <2>3. \A i \in 1..Len(events) : events[i].type # "PlanFinished"
    BY <1>2, <2>2
  <2>4. /\ Len(events') = Len(events) + 1 /\ Len(events) \in Nat
        /\ \A i \in 1..Len(events) : events'[i] = events[i]
        /\ events'[Len(events) + 1] = Finished(op, armed)
    BY <1>1, <2>2, Appended
  <2>5. Finished(op, armed).type # "PlanFinished"
    BY DEF Finished
  <2>6. \A i \in 1..Len(events') : i \in 1..Len(events) \/ i = Len(events) + 1
    BY <2>4
  <2>7. \A i \in 1..Len(events') : events'[i].type # "PlanFinished"
    BY <2>3, <2>4, <2>5, <2>6
  <2>8. Belongs(current', plan) /\ (current'.kind = "Plan" => current.kind = "Plan")
    <3>1. CASE current.kind = "Apply"
      BY <1>3, <2>2, <3>1
    <3>2. CASE current.kind = "Plan"
      <4>1. \A i, j \in 1..Len(current.ops) : i < j => current.ops[i] < current.ops[j]
        BY DEF SessionInv, Flow, Shapes, InSequence
      <4>2. ToSet(current'.ops) \subseteq ToSet(current.ops)
        BY <2>2, <3>2, <4>1, OperationsLeft
      <4> QED
        BY <1>2, <2>2, <3>2, <4>2 DEF Belongs
    <3> QED
      BY <2>2, <3>1, <3>2
  <2> QED
    BY <1>2, <2>1, <2>7, <2>8 DEF PlanIsLast
<1>10. CASE EnginePlanDone \/ EngineRollback
  <2>1. normal' = normal /\ requestLane' = requestLane /\ plan' = plan
    BY <1>10 DEF EnginePlanDone, EngineRollback, interface, accounts
  <2>2. PICK e \in Events :
              /\ events' = Append(events, e) /\ current' = NoRequest
              /\ \/ e.type = "PlanFinished" /\ e.id = current.id /\ current.kind = "Plan"
                 \/ e.type = "RollbackFinished"
    BY <1>1, <1>10, LastEvents DEF PlanDone, RollbackDone
  <2>3. /\ Len(events') = Len(events) + 1 /\ Len(events) \in Nat
        /\ \A i \in 1..Len(events) : events'[i] = events[i]
        /\ events'[Len(events) + 1] = e
    BY <1>1, <2>2, Appended
  <2>4. \A i \in 1..Len(events') : i \in 1..Len(events) \/ i = Len(events) + 1
    BY <2>3
  <2>5. ASSUME NEW i \in 1..Len(events'), events'[i].type = "PlanFinished"
        PROVE  /\ plan # NoPlan /\ events'[i].id = plan.id
               /\ requestLane = <<>> /\ normal = NoRequest
               /\ \A j \in 1..Len(events') : i < j => events'[j].type = "RollbackFinished"
    <3>1. CASE i \in 1..Len(events)
      <4>1. events[i].type = "PlanFinished" /\ events[i] = events'[i]
        BY <2>3, <2>5, <3>1
      <4>2. e.type = "RollbackFinished"
        BY <1>2, <2>2, <3>1, <4>1
      <4> QED
        BY <1>2, <2>3, <2>4, <3>1, <4>1, <4>2
    <3>2. CASE i = Len(events) + 1
      <4>1. e.type = "PlanFinished" /\ e.id = current.id /\ current.kind = "Plan"
        BY <2>2, <2>3, <2>5, <3>2
      <4>2. plan # NoPlan /\ current.id = plan.id
        BY <1>2, <4>1 DEF Belongs
      <4>3. \A j \in 1..Len(events') : ~(i < j)
        BY <2>3, <3>2
      <4> QED
        BY <1>2, <2>3, <3>2, <4>1, <4>2, <4>3
    <3> QED
      BY <2>4, <3>1, <3>2
  <2> QED
    BY <1>2, <1>3, <2>1, <2>2, <2>5 DEF PlanIsLast
<1>11. CASE ~(\/ SubmitApply \/ SubmitPlan \/ DispatchNormal \/ QuitConfirmed \/ ConsumeEvent \/ DrainConsume
              \/ EngineBegin \/ EngineOperation \/ EnginePlanDone \/ EngineRollback)
  <2>1. /\ normal' = normal /\ requestLane' = requestLane /\ plan' = plan
        /\ events' = events /\ current' = current
    BY <1>11, Untouched
  <2> QED
    BY <1>1, <2>1 DEF PlanIsLast
<1> QED
  BY <1>4, <1>5, <1>6, <1>7, <1>8, <1>9, <1>10, <1>11

-----------------------------------------------------------------------------
(* Where registrations are *)

LEMMA Executing ==
    /\ ExecutedBy(NoRequest) = {}
    /\ \A request \in Requests : ExecutedBy(request) = {}
    /\ \A r \in Ops : ExecutedBy(RollbackWork(r)) = {r}
<1>1. \A r : NoRequest # RollbackWork(r)
  BY DEF NoRequest, RollbackWork
<1>2. \A request \in Requests, r \in Ops : request # RollbackWork(r)
  <2>1. \A request \in Requests : request.kind # "Rollback"
    BY DEF Requests
  <2> QED
    BY <2>1, RequestTypes
<1>3. \A r, s \in Ops : RollbackWork(r) = RollbackWork(s) => r = s
  BY RequestTypes
<1> QED
  BY <1>1, <1>2, <1>3 DEF ExecutedBy

LEMMA OneMoreRun ==
    ASSUME runs \in [Ops -> Nat], NEW r \in Ops, runs' = [runs EXCEPT ![r] = @ + 1]
    PROVE  /\ RanOnce(runs') = RanOnce(runs) \cup {r}
           /\ \A s \in Ops : s # r => runs'[s] = runs[s]
           /\ runs'[r] = runs[r] + 1
<1>1. /\ \A s \in Ops : s # r => runs'[s] = runs[s]
      /\ runs'[r] = runs[r] + 1 /\ runs[r] \in Nat
  OBVIOUS
<1>2. \A s \in Ops : runs'[s] > 0 <=> runs[s] > 0 \/ s = r
  BY <1>1
<1> QED
  BY <1>1, <1>2 DEF RanOnce

(* Each step moves registrations from one station to the next. *)
LEMMA LocatedStep ==
    ASSUME SessionInv, [Next]_vars
    PROVE  Once' /\ Located'
<1> DEFINE A == ArmedIn(events)
<1> DEFINE P == ToSet(Ids(pending))
<1> DEFINE Q == ToSet(queue)
<1> DEFINE S == ToSet(rollbackLane)
<1> DEFINE X == ExecutedBy(current)
<1> DEFINE V == RanOnce(runs)
<1>1. /\ TypeOK /\ RoomForEveryInverse /\ Shapes /\ Order /\ Once
      /\ \A r \in Ops : LivesOnce(r, registered, A, P, kept, Q, S, X, V) /\ runs[r] <= 1
  BY PartsOfAccounts DEF SessionInv, Flow, Located
<1>2. /\ pending \in Seq(Countdowns) /\ queue \in Seq(Ops) /\ rollbackLane \in Seq(Ops)
      /\ events \in Seq(Events) /\ runs \in [Ops -> Nat]
      /\ EventsInOrder(events) /\ RiskyArmed(events)
  BY <1>1 DEF TypeOK, Shapes, Order
<1>3. /\ IsInjective(Ids(pending)) /\ IsInjective(queue) /\ IsInjective(rollbackLane)
      /\ Ids(pending) \in Seq(Ops) /\ P \subseteq Ops /\ Q \subseteq Ops /\ S \subseteq Ops /\ A \subseteq Ops
  BY <1>1, <1>2, IdsOf, ElementsOf, SetsOfEvents DEF Once
<1> DEFINE An == ArmedIn(events')
<1> DEFINE Pn == ToSet(Ids(pending'))
<1> DEFINE Qn == ToSet(queue')
<1> DEFINE Sn == ToSet(rollbackLane')
<1> DEFINE Xn == ExecutedBy(current')
<1> DEFINE Vn == RanOnce(runs')
<1> DEFINE Goal == /\ IsInjective(Ids(pending')) /\ IsInjective(queue') /\ IsInjective(rollbackLane')
                   /\ \A r \in Ops :
                         /\ LivesOnce(r, registered', An, Pn, kept', Qn, Sn, Xn, Vn)
                         /\ runs'[r] <= 1
<1> SUFFICES Goal
  BY DEF Once, Located
<1>4. /\ pending' = pending => Pn = P /\ IsInjective(Ids(pending'))
      /\ queue' = queue => Qn = Q /\ IsInjective(queue')
      /\ rollbackLane' = rollbackLane => Sn = S /\ IsInjective(rollbackLane')
      /\ events' = events => An = A
      /\ current' = current => Xn = X
      /\ runs' = runs => Vn = V /\ \A r \in Ops : runs'[r] <= 1
  BY <1>1, <1>3
<1>5. CASE KeepChanges
  <2>1. /\ kept' = kept \cup P /\ pending' = <<>>
        /\ queue' = queue /\ rollbackLane' = rollbackLane /\ events' = events /\ current' = current
        /\ runs' = runs /\ registered' = registered
    BY <1>5 DEF KeepChanges, engine
  <2>2. Ids(pending') = <<>>
    BY <2>1 DEF Ids
  <2>3. Pn = {} /\ IsInjective(Ids(pending'))
    BY <2>2, OfNothing
  <2>4. Qn = Q /\ Sn = S /\ An = A /\ Xn = X /\ Vn = V
    BY <1>4, <2>1
  <2>5. IsInjective(queue') /\ IsInjective(rollbackLane') /\ \A r \in Ops : runs'[r] <= 1
    BY <1>4, <2>1
  <2> HIDE DEF A, P, Q, S, X, V, An, Pn, Qn, Sn, Xn, Vn
  <2>6. \A r \in Ops : LivesOnce(r, registered', An, Pn, kept', Qn, Sn, Xn, Vn)
    BY <1>1, <2>1, <2>3, <2>4 DEF LivesOnce
  <2> QED
    BY <2>3, <2>5, <2>6
<1>6. CASE \E k \in 0..Len(pending) :
              /\ OldestLeave(k) /\ rollbackLane' = rollbackLane /\ events' = events /\ current' = current
              /\ UNCHANGED history
  <2>1. PICK k \in 0..Len(pending) :
              /\ OldestLeave(k) /\ rollbackLane' = rollbackLane /\ events' = events /\ current' = current
              /\ UNCHANGED history
    BY <1>6
  <2>2. registered' = registered /\ kept' = kept /\ runs' = runs
    BY <2>1 DEF history
  <2> DEFINE fired == ToSet(SubSeq(Ids(pending), 1, k))
  <2>3. P \cap Q = {}
    BY <1>1, <1>3 DEF LivesOnce
  <2>4. /\ P = fired \cup Pn /\ Qn = Q \cup fired
        /\ IsInjective(Ids(pending')) /\ IsInjective(queue') /\ fired \cap Pn = {}
    BY <1>1, <1>3, <2>1, <2>3, FrontMoves
  <2>5. Sn = S /\ An = A /\ Xn = X /\ Vn = V
    BY <1>4, <2>1, <2>2
  <2>6. IsInjective(rollbackLane') /\ \A r \in Ops : runs'[r] <= 1
    BY <1>4, <2>1, <2>2
  <2> HIDE DEF A, P, Q, S, X, V, An, Pn, Qn, Sn, Xn, Vn, fired
  <2>7. \A r \in Ops : LivesOnce(r, registered', An, Pn, kept', Qn, Sn, Xn, Vn)
    BY <1>1, <2>2, <2>4, <2>5 DEF LivesOnce
  <2> QED
    BY <2>4, <2>6, <2>7
<1>7. CASE DispatchRollback \/ DrainDispatch
  <2>1. /\ queue # <<>> /\ queue' = Tail(queue) /\ Head(queue) \in Ops
        /\ rollbackLane' = Append(rollbackLane, Head(queue))
    BY <1>7, RollbackSent
  <2>2. /\ pending' = pending /\ events' = events /\ current' = current
        /\ registered' = registered /\ kept' = kept /\ runs' = runs
    BY <1>7 DEF DispatchRollback, DrainDispatch, history
  <2> DEFINE h == Head(queue)
  <2>3. Q = {h} \cup Qn /\ h \notin Qn /\ IsInjective(queue')
    BY <1>2, <1>3, <2>1, FirstAndRest
  <2>4. h \notin S
    BY <1>1, <2>1, <2>3 DEF LivesOnce
  <2>5. Sn = S \cup {h} /\ IsInjective(rollbackLane')
    BY <1>2, <1>3, <2>1, <2>4, Appended
  <2>6. Pn = P /\ An = A /\ Xn = X /\ Vn = V
    BY <1>4, <2>2
  <2>7. IsInjective(Ids(pending')) /\ \A r \in Ops : runs'[r] <= 1
    BY <1>4, <2>2
  <2> HIDE DEF A, P, Q, S, X, V, An, Pn, Qn, Sn, Xn, Vn, h
  <2>8. \A r \in Ops : LivesOnce(r, registered', An, Pn, kept', Qn, Sn, Xn, Vn)
    BY <1>1, <2>2, <2>3, <2>5, <2>6 DEF LivesOnce
  <2> QED
    BY <2>3, <2>5, <2>7, <2>8
<1>8. CASE ConsumeEvent \/ DrainConsume
  <2> DEFINE event == Head(events)
  <2> DEFINE armed == IF event.armed THEN {event.id} ELSE {}
  <2>1. events # <<>> /\ events' = Tail(events)
    BY <1>8 DEF ConsumeEvent, DrainConsume
  <2>2. /\ rollbackLane' = rollbackLane /\ current' = current
        /\ registered' = registered /\ kept' = kept /\ runs' = runs
    BY <1>8 DEF ConsumeEvent, DrainConsume, history
  <2>3. /\ event \in Events /\ A = An \cup armed
        /\ event.armed => IsOp(event)
        /\ IsOp(event) => Before({event.id}, ReportedIn(events'))
        /\ An \subseteq ReportedIn(events')
    BY <1>2, <2>1, EventRead
  <2>4. event.id \in Ops /\ Ids(Countdown(event)) = IF event.armed THEN <<event.id>> ELSE <<>>
    BY <2>1, HeadEvent
  <2>5. event.armed => event.id \notin An
    <3>1. event.id \in Nat
      BY <2>4 DEF Ops
    <3> HIDE DEF event
    <3> QED
      BY <2>3, <3>1 DEF Before
  <2>6. armed \cap An = {} /\ armed \subseteq Ops
    BY <2>4, <2>5
  <2>7. /\ Ids(Countdown(event)) \in Seq(Ops) /\ ToSet(Ids(Countdown(event))) = armed
        /\ IsInjective(Ids(Countdown(event)))
    <3>1. CASE event.armed
      <4>1. Ids(Countdown(event)) = <<event.id>> /\ armed = {event.id}
        BY <2>4, <3>1
      <4> HIDE DEF event, armed
      <4>2. <<event.id>> \in Seq(Ops) /\ ToSet(<<event.id>>) = {event.id} /\ IsInjective(<<event.id>>)
        BY <2>4 DEF ToSet, IsInjective
      <4> QED
        BY <4>1, <4>2
    <3>2. CASE ~event.armed
      <4>1. Ids(Countdown(event)) = <<>> /\ armed = {}
        BY <2>4, <3>2
      <4> HIDE DEF event, armed
      <4> QED
        BY <4>1, OfNothing
    <3> QED
      BY <3>1, <3>2
  <2>8. A \cap P = {} /\ A \cap Q = {} /\ P \cap Q = {}
    BY <1>1, <1>3 DEF LivesOnce
  <2>9. Sn = S /\ Xn = X /\ Vn = V
    BY <1>4, <2>2
  <2>10. IsInjective(rollbackLane') /\ \A r \in Ops : runs'[r] <= 1
    BY <1>4, <2>2
  <2>11. CASE ConsumeEvent
    <3>1. queue' = queue /\ Ids(pending') = Ids(pending) \o Ids(Countdown(event))
      BY <2>11, CountdownStarts
    <3> HIDE DEF event, armed
    <3>2. P \cap armed = {}
      BY <2>3, <2>8
    <3>3. Pn = P \cup armed /\ IsInjective(Ids(pending'))
      BY <1>3, <2>7, <3>1, <3>2, Concatenated
    <3>4. Qn = Q /\ IsInjective(queue')
      BY <1>4, <3>1
    <3> HIDE DEF A, P, Q, S, X, V, An, Pn, Qn, Sn, Xn, Vn
    <3>5. \A r \in Ops : LivesOnce(r, registered', An, Pn, kept', Qn, Sn, Xn, Vn)
      BY <1>1, <2>2, <2>3, <2>6, <2>9, <3>3, <3>4 DEF LivesOnce
    <3> QED
      BY <2>10, <3>3, <3>4, <3>5
  <2>12. CASE DrainConsume
    <3>1. pending' = pending /\ queue' = queue \o Ids(Countdown(event))
      BY <2>12, DrainFires DEF DrainConsume
    <3> HIDE DEF event, armed
    <3>2. Q \cap armed = {}
      BY <2>3, <2>8
    <3>3. Qn = Q \cup armed /\ IsInjective(queue')
      BY <1>2, <1>3, <2>7, <3>1, <3>2, Concatenated
    <3>4. Pn = P /\ IsInjective(Ids(pending'))
      BY <1>4, <3>1
    <3> HIDE DEF A, P, Q, S, X, V, An, Pn, Qn, Sn, Xn, Vn
    <3>5. \A r \in Ops : LivesOnce(r, registered', An, Pn, kept', Qn, Sn, Xn, Vn)
      BY <1>1, <2>2, <2>3, <2>6, <2>9, <3>3, <3>4 DEF LivesOnce
    <3> QED
      BY <2>10, <3>3, <3>4, <3>5
  <2> QED
    BY <1>8, <2>11, <2>12
<1>9. CASE EngineBegin
  <2>1. /\ pending' = pending /\ queue' = queue /\ events' = events
        /\ registered' = registered /\ kept' = kept /\ runs' = runs
    BY <1>9 DEF EngineBegin, interface, history
  <2>2. X = {}
    BY <1>1, <1>9, Begun, Executing
  <2>3. Pn = P /\ Qn = Q /\ An = A /\ Vn = V
    BY <1>4, <2>1
  <2>4. IsInjective(Ids(pending')) /\ IsInjective(queue') /\ \A r \in Ops : runs'[r] <= 1
    BY <1>4, <2>1
  <2>5. CASE rollbackLane # <<>> /\ current' = RollbackWork(Head(rollbackLane))
             /\ rollbackLane' = Tail(rollbackLane) /\ Head(rollbackLane) \in Ops
    <3> DEFINE h == Head(rollbackLane)
    <3>1. S = {h} \cup Sn /\ h \notin Sn /\ IsInjective(rollbackLane')
      BY <1>2, <1>3, <2>5, FirstAndRest
    <3>2. Xn = {h}
      BY <2>5, Executing
    <3> HIDE DEF A, P, Q, S, X, V, An, Pn, Qn, Sn, Xn, Vn, h
    <3>3. \A r \in Ops : LivesOnce(r, registered', An, Pn, kept', Qn, Sn, Xn, Vn)
      BY <1>1, <2>1, <2>2, <2>3, <3>1, <3>2 DEF LivesOnce
    <3> QED
      BY <2>4, <3>1, <3>3
  <2>6. CASE current' \in Requests /\ rollbackLane' = rollbackLane
    <3>1. Xn = X /\ Sn = S /\ IsInjective(rollbackLane')
      BY <1>4, <2>2, <2>6, Executing
    <3> HIDE DEF A, P, Q, S, X, V, An, Pn, Qn, Sn, Xn, Vn
    <3>2. \A r \in Ops : LivesOnce(r, registered', An, Pn, kept', Qn, Sn, Xn, Vn)
      BY <1>1, <2>1, <2>3, <3>1
    <3> QED
      BY <2>4, <3>1, <3>2
  <2> QED
    BY <1>1, <1>9, <2>5, <2>6, Begun
<1>10. CASE EngineOperation
  <2>1. /\ pending' = pending /\ queue' = queue /\ rollbackLane' = rollbackLane
        /\ kept' = kept /\ runs' = runs
    BY <1>10 DEF EngineOperation, interface
  <2>2. PICK op \in Ops, armed \in BOOLEAN :
              /\ current \in Requests /\ current.kind \in {"Apply", "Plan"}
              /\ current.ops \in Seq(Ops) /\ current.ops # <<>> /\ op = Head(current.ops)
              /\ Finished(op, armed) \in Events
              /\ events' = Append(events, Finished(op, armed))
              /\ registered' = IF armed THEN registered \cup {op} ELSE registered
              /\ current.kind = "Apply" => current' = NoRequest
              /\ current.kind = "Plan" => current' \in Requests
    BY <1>1, <1>10, Operated
  <2>3. op \in ToSet(current.ops)
    BY <2>2, FirstAndRest
  <2>4. op \notin registered
    <3>1. op \in Nat
      BY DEF Ops
    <3> QED
      BY <1>1, <2>3, <3>1 DEF Order, InLine, Before
  <2>5. Finished(op, armed).armed = armed /\ Finished(op, armed).id = op
    BY DEF Finished
  <2>6. An = A \cup (IF armed THEN {op} ELSE {})
    BY <1>2, <2>2, <2>5, EventAppended
  <2>7. Xn = X
    BY <2>2, Executing
  <2>8. Pn = P /\ Qn = Q /\ Sn = S /\ Vn = V
    BY <1>4, <2>1
  <2>9. /\ IsInjective(Ids(pending')) /\ IsInjective(queue') /\ IsInjective(rollbackLane')
        /\ \A r \in Ops : runs'[r] <= 1
    BY <1>4, <2>1
  <2> HIDE DEF A, P, Q, S, X, V, An, Pn, Qn, Sn, Xn, Vn
  <2>10. ASSUME NEW r \in Ops PROVE LivesOnce(r, registered', An, Pn, kept', Qn, Sn, Xn, Vn)
    <3>1. LivesOnce(r, registered, A, P, kept, Q, S, X, V)
      BY <1>1
    <3>2. CASE armed
      BY <2>1, <2>2, <2>4, <2>6, <2>7, <2>8, <3>1, <3>2 DEF LivesOnce
    <3>3. CASE ~armed
      BY <2>1, <2>2, <2>6, <2>7, <2>8, <3>1, <3>3 DEF LivesOnce
    <3> QED
      BY <3>2, <3>3
  <2> QED
    BY <2>9, <2>10
<1>11. CASE EnginePlanDone
  <2>1. /\ pending' = pending /\ queue' = queue /\ rollbackLane' = rollbackLane
        /\ registered' = registered /\ kept' = kept /\ runs' = runs
    BY <1>11 DEF EnginePlanDone, interface, history
  <2>2. /\ current \in Requests /\ current' = NoRequest /\ PlanDone(current.id) \in Events
        /\ events' = Append(events, PlanDone(current.id))
    BY <1>1, <1>11, LastEvents
  <2>3. ~PlanDone(current.id).armed
    BY DEF PlanDone
  <2>4. An = A
    BY <1>2, <2>2, <2>3, EventAppended
  <2>5. Xn = X
    BY <2>2, Executing
  <2>6. Pn = P /\ Qn = Q /\ Sn = S /\ Vn = V
    BY <1>4, <2>1
  <2>7. /\ IsInjective(Ids(pending')) /\ IsInjective(queue') /\ IsInjective(rollbackLane')
        /\ \A r \in Ops : runs'[r] <= 1
    BY <1>4, <2>1
  <2> HIDE DEF A, P, Q, S, X, V, An, Pn, Qn, Sn, Xn, Vn
  <2> QED
    BY <1>1, <2>1, <2>4, <2>5, <2>6, <2>7
<1>12. CASE EngineRollback
  <2>1. /\ pending' = pending /\ queue' = queue /\ rollbackLane' = rollbackLane
        /\ registered' = registered /\ kept' = kept
    BY <1>12 DEF EngineRollback, interface
  <2>2. PICK r \in Ops : /\ current = RollbackWork(r) /\ RollbackDone(r) \in Events
                         /\ events' = Append(events, RollbackDone(r))
                         /\ runs' = [runs EXCEPT ![r] = @ + 1]
                         /\ current' = NoRequest
    BY <1>1, <1>12, LastEvents
  <2>3. ~RollbackDone(r).armed
    BY DEF RollbackDone
  <2>4. An = A
    BY <1>2, <2>2, <2>3, EventAppended
  <2>5. X = {r} /\ Xn = {}
    BY <2>2, Executing
  <2>6. Vn = V \cup {r} /\ (\A s \in Ops : s # r => runs'[s] = runs[s]) /\ runs'[r] = runs[r] + 1
    BY <1>2, <2>2, OneMoreRun
  <2>7. Pn = P /\ Qn = Q /\ Sn = S
    BY <1>4, <2>1
  <2>8. IsInjective(Ids(pending')) /\ IsInjective(queue') /\ IsInjective(rollbackLane')
    BY <1>4, <2>1
  <2>9. runs[r] = 0
    <3>1. r \notin V
      BY <1>1, <2>5 DEF LivesOnce
    <3>2. runs[r] \in Nat /\ ~(runs[r] > 0)
      BY <1>2, <3>1 DEF RanOnce
    <3> QED
      BY <3>2
  <2>10. \A s \in Ops : runs'[s] <= 1
    BY <1>1, <2>6, <2>9
  <2> HIDE DEF A, P, Q, S, X, V, An, Pn, Qn, Sn, Xn, Vn
  <2>11. \A s \in Ops : LivesOnce(s, registered', An, Pn, kept', Qn, Sn, Xn, Vn)
    BY <1>1, <2>1, <2>4, <2>5, <2>6, <2>7 DEF LivesOnce
  <2> QED
    BY <2>8, <2>10, <2>11
<1>13. CASE ~(\/ KeepChanges \/ RollbackNow \/ QuitConfirmed \/ Tick \/ ConsumeEvent \/ DrainConsume
              \/ DispatchRollback \/ DrainDispatch
              \/ EngineBegin \/ EngineOperation \/ EnginePlanDone \/ EngineRollback)
  <2>1. /\ pending' = pending /\ queue' = queue /\ rollbackLane' = rollbackLane
        /\ events' = events /\ current' = current
        /\ registered' = registered /\ kept' = kept /\ runs' = runs
    BY <1>13, Untouched
  <2>2. Pn = P /\ Qn = Q /\ Sn = S /\ An = A /\ Xn = X /\ Vn = V
    BY <1>4, <2>1
  <2>3. /\ IsInjective(Ids(pending')) /\ IsInjective(queue') /\ IsInjective(rollbackLane')
        /\ \A r \in Ops : runs'[r] <= 1
    BY <1>4, <2>1
  <2> HIDE DEF A, P, Q, S, X, V, An, Pn, Qn, Sn, Xn, Vn
  <2> QED
    BY <1>1, <2>1, <2>2, <2>3
<1>14. CASE RollbackNow \/ QuitConfirmed \/ Tick
  <2>1. rollbackLane' = rollbackLane /\ events' = events /\ current' = current /\ UNCHANGED history
    BY <1>14 DEF RollbackNow, QuitConfirmed, Tick, engine
  <2>2. CASE pending' = pending /\ queue' = queue
    <3>1. registered' = registered /\ kept' = kept /\ runs' = runs
      BY <2>1 DEF history
    <3>2. Pn = P /\ Qn = Q /\ Sn = S /\ An = A /\ Xn = X /\ Vn = V
      BY <1>4, <2>1, <2>2, <3>1
    <3>3. /\ IsInjective(Ids(pending')) /\ IsInjective(queue') /\ IsInjective(rollbackLane')
          /\ \A r \in Ops : runs'[r] <= 1
      BY <1>4, <2>1, <2>2, <3>1
    <3> HIDE DEF A, P, Q, S, X, V, An, Pn, Qn, Sn, Xn, Vn
    <3> QED
      BY <1>1, <3>1, <3>2, <3>3
  <2>3. CASE \E k \in 0..Len(pending) : OldestLeave(k)
    BY <1>6, <2>1, <2>3
  <2>4. Len(pending) \in 0..Len(pending)
    BY <1>1, RoomFor
  <2> QED
    BY <1>1, <1>14, <2>2, <2>3, <2>4, NowFires, QuitIs, TickFires DEF SessionInv, AccountsExact
<1> QED
  BY <1>5, <1>7, <1>8, <1>9, <1>10, <1>11, <1>12, <1>13, <1>14

-----------------------------------------------------------------------------
(* What the drain waits for *)

LEMMA AwaitedStep ==
    ASSUME SessionInv, [Next]_vars
    PROVE  Awaited'
<1> DEFINE S == ToSet(rollbackLane)
<1> DEFINE X == ExecutedBy(current)
<1> DEFINE V == RanOnce(runs)
<1> DEFINE Sn == ToSet(rollbackLane')
<1> DEFINE Xn == ExecutedBy(current')
<1> DEFINE Vn == RanOnce(runs')
<1>1. /\ TypeOK /\ RoomForEveryInverse /\ Located
      /\ \A r \in S \cup X : r \in inFlight /\ (mode = "Draining" => r \in expected)
      /\ \A i \in 1..Len(events) : events[i].type = "RollbackFinished" => events[i].id \in V
      /\ completed \subseteq V
      /\ mode = "Draining" => pending = <<>>
  BY PartsOfAccounts DEF SessionInv, Awaited
<1>2. /\ rollbackLane \in Seq(Ops) /\ events \in Seq(Events) /\ runs \in [Ops -> Nat]
  BY <1>1 DEF TypeOK
<1>3. S \subseteq Ops /\ X \subseteq Ops /\ \A r \in S \cup X : r \notin V
  <2>1. S \subseteq Ops /\ X \subseteq Ops
    BY <1>2, ElementsOf DEF ExecutedBy
  <2> HIDE DEF S, X, V
  <2> QED
    BY <1>1, <2>1 DEF Located, LivesOnce, S, X, V
<1>4. V \subseteq Vn
  <2>1. CASE EngineRollback
    <3>1. PICK r \in Ops : runs' = [runs EXCEPT ![r] = @ + 1]
      BY <1>1, <2>1, LastEvents
    <3> QED
      BY <1>2, <3>1, OneMoreRun
  <2>2. CASE ~EngineRollback
    <3>1. runs' = runs
      BY <2>2, Untouched
    <3> QED
      BY <3>1
  <2> QED
    BY <2>1, <2>2
<1>5. ASSUME events # <<>>
      PROVE  /\ Tail(events) \in Seq(Events)
             /\ Head(events).type = "RollbackFinished" => Head(events).id \in V
             /\ \A i \in 1..Len(Tail(events)) :
                   Tail(events)[i].type = "RollbackFinished" => Tail(events)[i].id \in V
  <2> DEFINE t == Tail(events)
  <2>1. /\ Len(events) \in Nat \ {0} /\ Head(events) = events[1] /\ t \in Seq(Events)
        /\ Len(t) = Len(events) - 1 /\ \A i \in 1..Len(events) - 1 : t[i] = events[i + 1]
    BY <1>2, <1>5, FirstAndRest
  <2> HIDE DEF t, V
  <2>2. 1 \in 1..Len(events) /\ \A i \in 1..Len(t) : i + 1 \in 1..Len(events) /\ t[i] = events[i + 1]
    BY <2>1
  <2>3. \A i \in 1..Len(t) : t[i].type = "RollbackFinished" => t[i].id \in V
    BY <1>1, <2>2
  <2> QED
    BY <1>1, <2>1, <2>2, <2>3 DEF t
<1>6. \A r \in Sn \cup Xn : r \in inFlight' /\ (mode' = "Draining" => r \in expected')
  <2>1. CASE DispatchRollback \/ DrainDispatch
    <3> DEFINE h == Head(queue)
    <3>1. /\ rollbackLane' = Append(rollbackLane, h) /\ h \in Ops /\ inFlight' = inFlight \cup {h}
      BY <2>1, RollbackSent
    <3>2. /\ current' = current /\ mode' = mode
          /\ \/ mode = "Running"
             \/ expected' = expected \cup {h}
      BY <2>1 DEF DispatchRollback, DrainDispatch
    <3> HIDE DEF h
    <3>3. Sn = S \cup {h} /\ Xn = X
      BY <1>2, <3>1, <3>2, Appended
    <3> HIDE DEF S, X, V, Sn, Xn
    <3> QED
      BY <1>1, <3>1, <3>2, <3>3
  <2>2. CASE ConsumeEvent \/ DrainConsume
    <3>1. /\ inFlight' = IF Head(events).type = "RollbackFinished" THEN inFlight \ {Head(events).id} ELSE inFlight
          /\ mode' = mode /\ expected' = expected /\ rollbackLane' = rollbackLane /\ current' = current
          /\ events # <<>>
      BY <2>2 DEF ConsumeEvent, DrainConsume, drain
    <3>2. Head(events).type = "RollbackFinished" => Head(events).id \in V
      BY <1>5, <3>1
    <3>3. Sn = S /\ Xn = X
      BY <3>1
    <3> HIDE DEF S, X, V, Sn, Xn
    <3> QED
      BY <1>1, <1>3, <3>1, <3>2, <3>3
  <2>3. CASE QuitConfirmed
    <3>1. /\ rollbackLane' = rollbackLane /\ current' = current /\ inFlight' = inFlight
          /\ mode' = "ExitedClean" \/ expected' = inFlight
      BY <2>3 DEF QuitConfirmed, engine
    <3> QED
      BY <1>1, <3>1
  <2>4. CASE EngineBegin
    <3>1. mode' = mode /\ expected' = expected /\ inFlight' = inFlight
      BY <2>4 DEF EngineBegin, interface, drain
    <3>2. Sn \cup Xn \subseteq S \cup X
      <4>1. CASE rollbackLane # <<>> /\ current' = RollbackWork(Head(rollbackLane))
                 /\ rollbackLane' = Tail(rollbackLane) /\ Head(rollbackLane) \in Ops
        BY <1>2, <4>1, FirstAndRest, Executing
      <4>2. CASE current' \in Requests /\ rollbackLane' = rollbackLane
        BY <4>2, Executing
      <4> QED
        BY <1>1, <2>4, <4>1, <4>2, Begun
    <3> HIDE DEF S, X, V, Sn, Xn
    <3> QED
      BY <1>1, <3>1, <3>2
  <2>5. CASE EngineOperation \/ EnginePlanDone \/ EngineRollback
    <3>1. mode' = mode /\ expected' = expected /\ inFlight' = inFlight /\ rollbackLane' = rollbackLane
      BY <2>5 DEF EngineOperation, EnginePlanDone, EngineRollback, interface, drain
    <3>2. current' \in Requests \/ current' = NoRequest
      <4>1. CASE EngineOperation
        BY <1>1, <4>1, Operated
      <4>2. CASE EnginePlanDone \/ EngineRollback
        BY <1>1, <4>2, LastEvents
      <4> QED
        BY <2>5, <4>1, <4>2
    <3>3. Sn = S /\ Xn = {}
      BY <3>1, <3>2, Executing
    <3> HIDE DEF S, X, V, Sn, Xn
    <3> QED
      BY <1>1, <3>1, <3>3
  <2>6. CASE ~(\/ DispatchRollback \/ DrainDispatch \/ ConsumeEvent \/ DrainConsume \/ QuitConfirmed
               \/ EngineBegin \/ EngineOperation \/ EnginePlanDone \/ EngineRollback)
    <3>1. /\ rollbackLane' = rollbackLane /\ current' = current /\ inFlight' = inFlight /\ expected' = expected
      BY <2>6, Untouched
    <3>2. mode' = "Draining" => mode = "Draining"
      <4>1. CASE DrainComplete \/ DrainAbandoned
        BY <4>1 DEF DrainComplete, DrainAbandoned
      <4>2. CASE ~(DrainComplete \/ DrainAbandoned)
        BY <2>6, <4>2, Untouched
      <4> QED
        BY <4>1, <4>2
    <3> QED
      BY <1>1, <3>1, <3>2
  <2> QED
    BY <2>1, <2>2, <2>3, <2>4, <2>5, <2>6
<1>7. \A i \in 1..Len(events') : events'[i].type = "RollbackFinished" => events'[i].id \in Vn
  <2>1. CASE ConsumeEvent \/ DrainConsume
    <3>1. events # <<>> /\ events' = Tail(events)
      BY <2>1 DEF ConsumeEvent, DrainConsume
    <3> HIDE DEF V, Vn
    <3> QED
      BY <1>4, <1>5, <3>1
  <2>2. CASE EngineOperation \/ EnginePlanDone \/ EngineRollback
    <3>1. PICK e \in Events : /\ events' = Append(events, e)
                              /\ e.type = "RollbackFinished" => e.id \in Vn
      <4>1. CASE EngineOperation \/ EnginePlanDone
        <5>1. PICK e \in Events : events' = Append(events, e) /\ e.type # "RollbackFinished"
          BY <1>1, <4>1, Operated, LastEvents DEF Finished, PlanDone
        <5> QED
          BY <5>1
      <4>2. CASE EngineRollback
        <5>1. PICK r \in Ops : /\ RollbackDone(r) \in Events /\ events' = Append(events, RollbackDone(r))
                               /\ runs' = [runs EXCEPT ![r] = @ + 1]
          BY <1>1, <4>2, LastEvents
        <5>2. RollbackDone(r).id = r
          BY DEF RollbackDone
        <5>3. r \in Vn
          BY <1>2, <5>1, OneMoreRun
        <5> QED
          BY <5>1, <5>2, <5>3
      <4> QED
        BY <2>2, <4>1, <4>2
    <3>2. /\ Len(events') = Len(events) + 1 /\ Len(events) \in Nat
          /\ \A i \in 1..Len(events) : events'[i] = events[i]
          /\ events'[Len(events) + 1] = e
      BY <1>2, <3>1, Appended
    <3>3. \A i \in 1..Len(events') : i \in 1..Len(events) \/ i = Len(events) + 1
      BY <3>2
    <3> HIDE DEF V, Vn
    <3> QED
      BY <1>1, <1>4, <3>1, <3>2, <3>3
  <2>3. CASE ~(ConsumeEvent \/ DrainConsume \/ EngineOperation \/ EnginePlanDone \/ EngineRollback)
    <3>1. events' = events
      BY <2>3, Untouched
    <3> HIDE DEF V, Vn
    <3> QED
      BY <1>1, <1>4, <3>1
  <2> QED
    BY <2>1, <2>2, <2>3
<1>8. completed' \subseteq Vn
  <2>1. CASE DrainConsume
    <3>1. /\ events # <<>>
          /\ completed' = IF Head(events).type = "RollbackFinished" THEN completed \cup {Head(events).id} ELSE completed
      BY <2>1 DEF DrainConsume
    <3> HIDE DEF V, Vn
    <3> QED
      BY <1>1, <1>4, <1>5, <3>1
  <2>2. CASE ~DrainConsume
    <3>1. completed' = completed
      BY <2>2, Untouched
    <3> QED
      BY <1>1, <1>4, <3>1
  <2> QED
    BY <2>1, <2>2
<1>9. mode' = "Draining" => pending' = <<>>
  <2>1. CASE QuitConfirmed
    BY <2>1 DEF QuitConfirmed
  <2>2. CASE KeepChanges \/ RollbackNow \/ Tick \/ ConsumeEvent
    BY <2>2 DEF KeepChanges, RollbackNow, Tick, ConsumeEvent
  <2>3. CASE DrainComplete \/ DrainAbandoned
    BY <2>3 DEF DrainComplete, DrainAbandoned
  <2>4. CASE ~(\/ QuitConfirmed \/ KeepChanges \/ RollbackNow \/ Tick \/ ConsumeEvent
               \/ DrainComplete \/ DrainAbandoned)
    BY <1>1, <2>4, Untouched
  <2> QED
    BY <2>1, <2>2, <2>3, <2>4
<1> QED
  BY <1>6, <1>7, <1>8, <1>9 DEF Awaited

-----------------------------------------------------------------------------
(* The accounts stay exact *)

AccountsFor(U, p, reserved, single) ==
    /\ reserved = single + (p.total - p.consumed)
    /\ single = Cardinality(Alone(U, p))
    /\ Cardinality(Planned(U, p)) <= p.total - p.consumed

LEMMA FewOperations ==
    ASSUME NEW U, U \subseteq Ops, NEW p
    PROVE  /\ IsFiniteSet(Alone(U, p)) /\ Cardinality(Alone(U, p)) \in Nat
           /\ IsFiniteSet(Planned(U, p)) /\ Cardinality(Planned(U, p)) \in Nat
           /\ Alone(U, p) = {} => Cardinality(Alone(U, p)) = 0
           /\ Planned(U, p) = {} => Cardinality(Planned(U, p)) = 0
<1>1. IsFiniteSet(Ops)
  BY FS_Interval, SessionAssumption DEF Ops
<1>2. Alone(U, p) \subseteq Ops /\ Planned(U, p) \subseteq Ops
  BY DEF Alone, Planned
<1>3. IsFiniteSet(Alone(U, p)) /\ IsFiniteSet(Planned(U, p))
  BY <1>1, <1>2, FS_Subset
<1> QED
  BY <1>3, FS_CardinalityType, FS_EmptySet

(* Nothing changes for the accounts if what is no longer outstanding was not risky,
   or the plan's. *)
LEMMA FewerOutstanding ==
    ASSUME AccountTypes, NEW U, U \subseteq Ops, NEW V, V \subseteq U,
           AccountsFor(U, plan, reservations, singles),
           \A op \in U \ V : op \notin Risky \/ IsOfPlan(op, plan),
           NEW q, NEW m, NEW n, q = plan, m = reservations, n = singles
    PROVE  AccountsFor(V, q, m, n)
<1>1. Alone(V, plan) = Alone(U, plan) /\ Planned(V, plan) \subseteq Planned(U, plan)
  BY DEF Alone, Planned
<1>2. Cardinality(Planned(V, plan)) <= Cardinality(Planned(U, plan))
  BY <1>1, FewOperations, FS_Subset
<1>3. /\ Cardinality(Planned(V, plan)) \in Nat /\ Cardinality(Planned(U, plan)) \in Nat
      /\ plan.total \in Nat /\ plan.consumed \in Nat
  BY FewOperations DEF AccountTypes
<1> QED
  BY <1>1, <1>2, <1>3 DEF AccountsFor

(* The result of a risky single operation releases its place. *)
LEMMA SingleReported ==
    ASSUME AccountTypes, NEW V, V \subseteq Ops, NEW op \in Ops \cap Risky, op \notin V,
           ~IsOfPlan(op, plan), AccountsFor(V \cup {op}, plan, reservations, singles), Consume
    PROVE  AccountsFor(V, plan', reservations', singles')
<1> DEFINE U == V \cup {op}
<1>1. Alone(U, plan) = Alone(V, plan) \cup {op} /\ op \notin Alone(V, plan)
      /\ Planned(U, plan) = Planned(V, plan)
  BY DEF Alone, Planned, IsOfPlan
<1>2. Cardinality(Alone(U, plan)) = Cardinality(Alone(V, plan)) + 1
  BY <1>1, FewOperations, FS_AddElement
<1>3. /\ Cardinality(Alone(V, plan)) \in Nat /\ Cardinality(Planned(V, plan)) \in Nat
      /\ reservations \in Nat /\ singles \in Nat /\ plan.total \in Nat /\ plan.consumed \in Nat
  BY FewOperations DEF AccountTypes
<1>4. /\ reservations = singles + (plan.total - plan.consumed)
      /\ singles = Cardinality(Alone(V, plan)) + 1
      /\ Cardinality(Planned(V, plan)) <= plan.total - plan.consumed
  BY <1>1, <1>2 DEF AccountsFor
<1>5. singles # 0 /\ reservations # 0
  BY <1>3, <1>4
<1>6. reservations' = reservations - 1 /\ singles' = singles - 1 /\ plan' = plan
  BY <1>5 DEF Consume
<1> QED
  BY <1>3, <1>4, <1>6 DEF AccountsFor

(* The result of a plan's risky operation releases one of the plan's places: it
   comes after those of all single operations. *)
LEMMA PlannedReported ==
    ASSUME AccountTypes, plan.id \in Ops,
           NEW V, V \subseteq Ops, NEW op \in Ops \cap Risky, \A x \in V : op < x,
           IsOfPlan(op, plan), AccountsFor(V \cup {op}, plan, reservations, singles), Consume
    PROVE  AccountsFor(V, plan', reservations', singles')
<1> DEFINE U == V \cup {op}
<1>1. op \in Nat /\ plan.id \in Nat /\ plan.id <= op /\ \A x \in V : x \in Nat /\ plan.id <= x
  BY DEF Ops, IsOfPlan
<1>2. Alone(U, plan) = {} /\ Alone(V, plan) = {}
  BY <1>1 DEF Alone, IsOfPlan
<1>3. Planned(U, plan) = Planned(V, plan) \cup {op} /\ op \notin Planned(V, plan)
  BY <1>1 DEF Planned
<1>4. Cardinality(Planned(U, plan)) = Cardinality(Planned(V, plan)) + 1
  BY <1>3, FewOperations, FS_AddElement
<1>5. /\ Cardinality(Planned(V, plan)) \in Nat /\ Cardinality(Alone(U, plan)) = 0
      /\ plan.total \in Nat /\ plan.consumed \in Nat
  <2>1. Cardinality(Planned(V, plan)) \in Nat
    BY FewOperations
  <2>2. U \subseteq Ops
    OBVIOUS
  <2> HIDE DEF U
  <2>3. Cardinality(Alone(U, plan)) = 0
    BY <1>2, <2>2, FewOperations
  <2>4. plan.total \in Nat /\ plan.consumed \in Nat
    BY DEF AccountTypes
  <2> QED
    BY <2>1, <2>3, <2>4
<1>6. /\ singles = 0 /\ reservations = plan.total - plan.consumed
      /\ Cardinality(Planned(V, plan)) + 1 <= plan.total - plan.consumed
  <2>1. AccountsFor(U, plan, reservations, singles)
    OBVIOUS
  <2> HIDE DEF U
  <2> QED
    BY <1>4, <1>5, <2>1 DEF AccountsFor
<1>7. reservations # 0 /\ plan.consumed < plan.total
  BY <1>5, <1>6
<1>8. reservations' = reservations - 1 /\ singles' = 0 /\ plan' = [plan EXCEPT !.consumed = @ + 1]
  BY <1>6, <1>7 DEF Consume
<1>9. plan'.total = plan.total /\ plan'.consumed = plan.consumed + 1
  BY <1>8 DEF AccountTypes
<1>10. SamePlan(plan, plan')
  BY ConsumeKeepsPlan
<1>11. Alone(V, plan') = {} /\ Planned(V, plan') = Planned(V, plan)
  BY <1>2, <1>10 DEF Alone, Planned, IsOfPlan, SamePlan
<1>12. Cardinality(Alone(V, plan')) = 0
  BY <1>11, FewOperations
<1> QED
  BY <1>5, <1>6, <1>8, <1>9, <1>11, <1>12 DEF AccountsFor

(* The end of the plan releases what is left of its places. *)
LEMMA PlanReleased ==
    ASSUME AccountTypes, NEW U, U \subseteq Ops, NEW V, V \subseteq Ops,
           plan # NoPlan, FinishPlan(plan.id),
           AccountsFor(U, plan, reservations, singles),
           V \cap Risky = Alone(U, plan)
    PROVE  AccountsFor(V, plan', reservations', singles')
<1>1. /\ singles \in Nat /\ reservations \in Nat /\ plan.total \in Nat /\ plan.consumed \in Nat
      /\ reservations = singles + (plan.total - plan.consumed)
  BY DEF AccountTypes, AccountsFor
<1>2. reservations' = singles /\ singles' = singles /\ plan' = NoPlan
  BY <1>1 DEF FinishPlan
<1>3. Alone(V, NoPlan) = V \cap Risky /\ Planned(V, NoPlan) = {}
  BY DEF Alone, Planned, IsOfPlan
<1>4. Cardinality(Planned(V, NoPlan)) = 0
  BY <1>3, FewOperations
<1>5. Alone(V, NoPlan) = Alone(U, plan) /\ singles = Cardinality(Alone(U, plan))
  BY <1>3 DEF AccountsFor
<1> QED
  BY <1>1, <1>2, <1>4, <1>5, NoPlanTypes DEF AccountsFor

LEMMA DisjointUnion ==
    ASSUME NEW A, NEW B, IsFiniteSet(A), IsFiniteSet(B), A \cap B = {}
    PROVE  Cardinality(A \cup B) = Cardinality(A) + Cardinality(B)
<1>1. Cardinality(A \cup B) = Cardinality(A) + Cardinality(B) - Cardinality(A \cap B)
  BY FS_Union
<1>2. Cardinality(A \cap B) = 0
  BY FS_EmptySet
<1>3. Cardinality(A) \in Nat /\ Cardinality(B) \in Nat
  BY FS_CardinalityType
<1> QED
  BY <1>1, <1>2, <1>3

(* A submission holds a place for each of its risky operations. *)
LEMMA AccountsSubmitted ==
    ASSUME SessionInv, NEW kind \in {"Apply", "Plan"}, NEW n \in Nat \ {0},
           kind = "Apply" => n = 1, Submit(kind, n)
    PROVE  Accounts'
<1> DEFINE U == Unreported
<1> DEFINE new == ToSet(NewRequest(kind, n).ops)
<1> DEFINE required == RiskyCount(NewRequest(kind, n).ops)
<1>1. TypeOK /\ AccountTypes /\ AccountsFor(U, plan, reservations, singles)
      /\ InLine(ReportedIn(events) \cup registered, ToSet(current.ops), OpsIn(requestLane),
                ToSet(normal.ops), submitted)
  BY PartsOfAccounts, PlanWithin DEF SessionInv, Accounts, AccountsFor, Flow, Order
<1>2. /\ submitted + n <= MaxOps /\ submitted \in 0..MaxOps
      /\ normal = NoRequest /\ normal' = NewRequest(kind, n) /\ plan = NoPlan
      /\ required \in 0..MaxOps /\ reservations' = reservations + required
      /\ kind = "Apply" => singles' = singles + required /\ plan' = plan
      /\ kind = "Plan" => /\ plan' = [id |-> submitted + 1, total |-> required, consumed |-> 0]
                          /\ singles' = singles
  BY Submitted
<1>3. new = (submitted + 1)..(submitted + n) /\ required = Cardinality(new \cap Risky)
  BY <1>2, NextOperations
<1>4. events' = events /\ current' = current /\ requestLane' = requestLane
  BY DEF Submit, engine
<1>5. Unreported' = U \cup new
  <2>1. ToSet(normal.ops) = {}
    BY <1>2, NoRequestShape
  <2> QED
    BY <1>2, <1>4, <2>1, UnreportedIs, UnreportedNextIs
<1>6. U \subseteq Ops /\ \A op \in U : op \in Nat /\ op <= submitted
  BY <1>1, OpsAreOps, UnreportedIs DEF InLine, Ops
<1> HIDE DEF U, new, required
<1>7. new \subseteq Ops /\ U \cap new = {} /\ \A op \in new : op \in Nat /\ submitted < op
  <2>1. \A op \in new : op \in Ops /\ op \in Nat /\ submitted < op
    BY <1>2, <1>3, SessionAssumption DEF Ops
  <2>2. \A op \in U : ~(submitted < op)
    BY <1>2, <1>6
  <2> QED
    BY <2>1, <2>2
<1>8. /\ IsFiniteSet(U \cap Risky) /\ IsFiniteSet(new \cap Risky)
      /\ Cardinality(U \cap Risky) \in Nat
  <2>1. IsFiniteSet(Ops)
    BY FS_Interval, SessionAssumption DEF Ops
  <2> QED
    BY <1>6, <1>7, <2>1, FS_Subset, FS_CardinalityType
<1>9. Alone(U, plan) = U \cap Risky
  BY <1>2 DEF Alone, IsOfPlan
<1>10. singles = Cardinality(U \cap Risky) /\ reservations = singles /\ singles \in Nat
  BY <1>1, <1>2, <1>9, NoPlanTypes DEF AccountsFor, AccountTypes
<1> SUFFICES AccountsFor(U \cup new, plan', reservations', singles')
  BY <1>5 DEF Accounts, AccountsFor
<1>11. CASE kind = "Apply"
  <2>1. /\ Alone(U \cup new, NoPlan) = (U \cap Risky) \cup (new \cap Risky)
        /\ Planned(U \cup new, NoPlan) = {}
    BY DEF Alone, Planned, IsOfPlan
  <2>2. Cardinality((U \cap Risky) \cup (new \cap Risky)) = singles + required
    BY <1>3, <1>7, <1>8, <1>10, DisjointUnion
  <2>3. Cardinality(Planned(U \cup new, NoPlan)) = 0
    BY <1>6, <1>7, <2>1, FewOperations
  <2>4. /\ Cardinality(Alone(U \cup new, NoPlan)) = singles + required
        /\ plan' = NoPlan /\ singles' = singles + required /\ reservations' = singles + required
        /\ required \in Nat
    <3>1. Cardinality(Alone(U \cup new, NoPlan)) = Cardinality((U \cap Risky) \cup (new \cap Risky))
      BY ONLY <2>1
    <3>2. required \in Nat
      BY ONLY <1>2
    <3> QED
      BY <1>2, <1>10, <1>11, <2>2, <3>1, <3>2
  <2> QED
    BY <1>10, <2>3, <2>4, NoPlanTypes DEF AccountsFor
<1>12. CASE kind = "Plan"
  <2>1. plan'.id = submitted + 1 /\ plan'.total = required /\ plan'.consumed = 0 /\ plan' # NoPlan
    BY <1>2, <1>12, NoPlanTypes
  <2>2. Alone(U \cup new, plan') = U \cap Risky /\ Planned(U \cup new, plan') = new \cap Risky
    BY <1>2, <1>6, <1>7, <2>1 DEF Alone, Planned, IsOfPlan
  <2>3. /\ Cardinality(Alone(U \cup new, plan')) = singles
        /\ Cardinality(Planned(U \cup new, plan')) = required
        /\ singles' = singles /\ reservations' = singles + required /\ required \in Nat
    <3>1. /\ Cardinality(Alone(U \cup new, plan')) = Cardinality(U \cap Risky)
          /\ Cardinality(Planned(U \cup new, plan')) = Cardinality(new \cap Risky)
      BY ONLY <2>2
    <3>2. required \in Nat
      BY ONLY <1>2
    <3> QED
      BY <1>2, <1>3, <1>10, <1>12, <3>1, <3>2
  <2> QED
    BY <1>10, <2>1, <2>3 DEF AccountsFor
<1> QED
  BY <1>11, <1>12

LEMMA AccountsStep ==
    ASSUME SessionInv, [Next]_vars
    PROVE  Accounts'
<1> DEFINE U == Unreported
<1> DEFINE V == Unreported'
<1> DEFINE R == ReportedIn(events)
<1> DEFINE C == ToSet(current.ops)
<1> DEFINE L == OpsIn(requestLane)
<1> DEFINE N == ToSet(normal.ops)
<1>1. /\ TypeOK /\ AccountTypes /\ AccountsFor(U, plan, reservations, singles)
      /\ EventsInOrder(events) /\ RiskyArmed(events) /\ LaneInOrder(requestLane)
      /\ Before(R, C \cup L \cup N) /\ Before(C, L \cup N) /\ Before(L, N)
  BY PartsOfAccounts, PlanWithin DEF SessionInv, Accounts, AccountsFor, Flow, Order, Shapes, InLine, Before
<1>2. /\ plan # NoPlan => plan.id \in Ops
      /\ Belongs(normal, plan) /\ Belongs(current, plan)
      /\ \A i \in 1..Len(requestLane) : Belongs(requestLane[i], plan)
      /\ InSequence(normal) /\ InSequence(current) /\ NamedAfterFirst(normal)
  BY DEF SessionInv, Flow, PlanIsLast, Shapes
<1>3. requestLane \in Seq(Requests) /\ events \in Seq(Events) /\ normal.ops \in Seq(Ops)
      /\ current.ops \in Seq(Ops)
  BY <1>1, OpsAreOps DEF TypeOK
<1>4. /\ U = N \cup C \cup L \cup R
      /\ V = ToSet(normal'.ops) \cup ToSet(current'.ops) \cup OpsIn(requestLane') \cup ReportedIn(events')
      /\ R \subseteq Ops /\ C \subseteq Ops /\ L \subseteq Ops /\ N \subseteq Ops /\ U \subseteq Ops
      /\ \A op \in Ops : op \in Nat /\ ~(op < op)
  BY <1>1, UnreportedIs, UnreportedNextIs, OpsAreOps DEF Ops
<1> SUFFICES AccountsFor(V, plan', reservations', singles')
  BY DEF Accounts, AccountsFor
<1>5. ASSUME plan' = plan, reservations' = reservations, singles' = singles, V \subseteq U,
             \A op \in U \ V : op \notin Risky \/ IsOfPlan(op, plan)
      PROVE  AccountsFor(V, plan', reservations', singles')
  <2> HIDE DEF U, V
  <2> QED
    BY <1>1, <1>4, <1>5, FewerOutstanding
<1>6. CASE SubmitApply \/ SubmitPlan
  <2>1. PICK kind \in {"Apply", "Plan"}, n \in Nat \ {0} :
              (kind = "Apply" => n = 1) /\ Submit(kind, n)
    BY <1>6, SubmissionIs
  <2>2. Accounts'
    BY <2>1, AccountsSubmitted
  <2> QED
    BY <2>2 DEF Accounts, AccountsFor
<1>7. CASE DispatchNormal
  <2>1. /\ normal \in Requests /\ requestLane' = Append(requestLane, normal) /\ normal' = NoRequest
        /\ events' = events /\ current' = current
        /\ plan' = plan /\ reservations' = reservations /\ singles' = singles
    BY <1>1, <1>7 DEF DispatchNormal, TypeOK, accounts
  <2>2. OpsIn(requestLane') = L \cup N /\ ToSet(normal'.ops) = {}
    BY <1>3, <2>1, RequestSent, NoRequestShape
  <2>3. V = U
    BY <1>4, <2>1, <2>2
  <2> QED
    BY <1>5, <2>1, <2>3
<1>8. CASE QuitConfirmed
  <2>1. events' = events /\ current' = current /\ requestLane' = requestLane
    BY <1>8 DEF QuitConfirmed, engine
  <2>2. CASE normal' = normal /\ UNCHANGED accounts
    <3>1. V = U
      BY <1>4, <2>1, <2>2
    <3>2. plan' = plan /\ reservations' = reservations /\ singles' = singles
      BY <2>2 DEF accounts
    <3> QED
      BY <1>5, <3>1, <3>2
  <2>3. CASE ReleaseAbandoned /\ normal' = NoRequest
    <3>1. ToSet(normal'.ops) = {}
      BY <2>3, NoRequestShape
    <3>2. V = C \cup L \cup R /\ U = V \cup N
      BY <1>4, <2>1, <3>1
    <3>3. \A x \in V, op \in N : x < op
      BY <1>1, <3>2 DEF Before
    <3>4. CASE normal.kind = "Apply"
      <4> DEFINE op == Head(normal.ops)
      <4>1. Len(normal.ops) = 1
        BY <1>2, <3>4 DEF InSequence
      <4>2. normal.ops # <<>>
        BY <4>1, OfNothing
      <4>3. op \in Ops /\ N = {op}
        BY <1>2, <1>3, <4>1, <4>2, OperationsLeft DEF InSequence
      <4>4. ~IsOfPlan(op, plan)
        BY <1>2, <3>4, <4>3 DEF Belongs
      <4>5. op \notin V
        BY <1>4, <3>3, <4>3
      <4>6. CASE op \in Risky
        <5>1. N \cap Risky = {op}
          BY <4>3, <4>6
        <5>2. RiskyCount(normal.ops) = 1
          BY <5>1, FS_Singleton DEF RiskyCount
        <5>3. Consume
          BY <2>3, <3>4, <5>2 DEF ReleaseAbandoned
        <5>4. AccountsFor(V \cup {op}, plan, reservations, singles)
          BY <1>1, <3>2, <4>3
        <5>5. V \subseteq Ops
          BY <1>4, <3>2
        <5> HIDE DEF V, op
        <5> QED
          BY <1>1, <4>3, <4>4, <4>5, <4>6, <5>3, <5>4, <5>5, SingleReported
      <4>7. CASE op \notin Risky
        <5>1. N \cap Risky = {}
          BY <4>3, <4>7
        <5>2. RiskyCount(normal.ops) # 1
          BY <5>1, FS_EmptySet DEF RiskyCount
        <5>3. plan' = plan /\ reservations' = reservations /\ singles' = singles
          BY <2>3, <3>4, <5>2 DEF ReleaseAbandoned, accounts
        <5>4. V \subseteq U /\ \A x \in U \ V : x \notin Risky
          BY <3>2, <5>1
        <5> QED
          BY <1>5, <5>3, <5>4
      <4> QED
        BY <4>6, <4>7
    <3>5. CASE normal.kind = "Plan"
      <4>1. FinishPlan(plan.id) /\ plan # NoPlan /\ normal.id = plan.id /\ current.kind # "Plan"
            /\ \A i \in 1..Len(requestLane) : requestLane[i].kind # "Plan"
        BY <2>3, <3>5, PlanAbandoned
      <4>2. normal.ops # <<>> /\ normal.ops[1] = plan.id
        BY <1>2, <3>5, <4>1 DEF NamedAfterFirst
      <4>3. plan.id \in N
        BY <1>3, <4>2, FirstAndRest
      <4>4. \A op \in N : IsOfPlan(op, plan)
        BY <1>2, <3>5 DEF Belongs
      <4>5. \A x \in V : ~IsOfPlan(x, plan)
        <5>1. \A x \in V : x < plan.id /\ x \in Nat /\ plan.id \in Nat
          BY <1>4, <3>2, <3>3, <4>3
        <5> QED
          BY <5>1 DEF IsOfPlan
      <4>6. V \cap Risky = Alone(U, plan)
        BY <3>2, <4>4, <4>5 DEF Alone
      <4>7. V \subseteq Ops
        BY <1>4, <3>2
      <4> HIDE DEF U, V
      <4> QED
        BY <1>1, <1>4, <4>1, <4>6, <4>7, PlanReleased
    <3>6. CASE normal.kind \notin {"Apply", "Plan"}
      <4>1. N = {}
        BY <1>2, <3>6, OfNothing DEF InSequence
      <4>2. plan' = plan /\ reservations' = reservations /\ singles' = singles
        BY <2>3, <3>6 DEF ReleaseAbandoned, accounts
      <4>3. V = U
        BY <3>2, <4>1
      <4> QED
        BY <1>5, <4>2, <4>3
    <3> QED
      BY <3>4, <3>5, <3>6
  <2> QED
    BY <1>8, <2>2, <2>3, QuitIs
<1>9. CASE ConsumeEvent \/ DrainConsume
  <2> DEFINE event == Head(events)
  <2>1. /\ events' = Tail(events) /\ events # <<>> /\ Account(event)
        /\ normal' = normal /\ current' = current /\ requestLane' = requestLane
    BY <1>9 DEF ConsumeEvent, DrainConsume
  <2> DEFINE Rn == ReportedIn(events')
  <2>2. /\ event \in Events /\ R = Rn \cup (IF IsOp(event) THEN {event.id} ELSE {})
        /\ IsOp(event) => Before({event.id}, Rn)
    BY <1>1, <1>3, <2>1, EventRead
  <2>3. event.id \in Ops
    BY <2>1, HeadEvent
  <2>4. V = N \cup C \cup L \cup Rn
    BY <1>4, <2>1
  <2>5. CASE IsOp(event)
    <3> DEFINE op == event.id
    <3>1. R = Rn \cup {op} /\ U = V \cup {op} /\ V \subseteq Ops
      BY <1>4, <2>2, <2>4, <2>5
    <3>2. \A x \in V : op < x
      BY <1>1, <2>2, <2>4, <2>5, <3>1 DEF Before
    <3>3. op \notin V
      BY <1>4, <2>3, <3>2
    <3>4. CASE op \in Risky
      <4>1. Consume
        BY <2>1, <2>5, <3>4 DEF Account, IsOp
      <4>2. AccountsFor(V \cup {op}, plan, reservations, singles)
        BY <1>1, <3>1
      <4>3. IsOfPlan(op, plan) => plan.id \in Ops
        BY <1>2 DEF IsOfPlan
      <4> HIDE DEF V, event
      <4>4. CASE IsOfPlan(op, plan)
        BY <1>1, <2>3, <3>1, <3>2, <3>4, <4>1, <4>2, <4>3, <4>4, PlannedReported
      <4>5. CASE ~IsOfPlan(op, plan)
        BY <1>1, <2>3, <3>1, <3>3, <3>4, <4>1, <4>2, <4>5, SingleReported
      <4> QED
        BY <4>4, <4>5
    <3>5. CASE op \notin Risky
      <4>1. plan' = plan /\ reservations' = reservations /\ singles' = singles
        BY <2>1, <2>5, <3>5 DEF Account, IsOp, accounts
      <4> QED
        BY <1>5, <3>1, <3>5, <4>1
    <3> QED
      BY <3>4, <3>5
  <2>6. CASE event.type = "PlanFinished"
    <3>1. /\ FinishPlan(plan.id) /\ plan # NoPlan
          /\ requestLane = <<>> /\ normal = NoRequest /\ current.ops = <<>>
          /\ \A j \in 1..Len(events) : 1 < j => events[j].type = "RollbackFinished"
      BY <2>1, <2>6, PlanAccounted
    <3>2. N = {} /\ C = {} /\ L = {}
      BY <3>1, NoRequestShape, OfNothing, NothingIn
    <3>3. R = {}
      <4>1. event = events[1]
        BY <1>3, <2>1, FirstAndRest
      <4>2. \A j \in 1..Len(events) : j = 1 \/ 1 < j
        BY <1>3
      <4>3. \A j \in 1..Len(events) : ~IsOp(events[j])
        BY <2>6, <3>1, <4>1, <4>2 DEF IsOp
      <4> QED
        BY <1>3, <4>3, SetsOfEvents
    <3>4. U = {} /\ V = {}
      BY <1>4, <2>2, <2>4, <3>2, <3>3
    <3>5. V \cap Risky = Alone(U, plan) /\ V \subseteq Ops
      BY <3>4 DEF Alone
    <3> HIDE DEF U, V
    <3> QED
      BY <1>1, <1>4, <3>1, <3>5, PlanReleased
  <2>7. CASE ~IsOp(event) /\ event.type # "PlanFinished"
    <3>1. plan' = plan /\ reservations' = reservations /\ singles' = singles
      BY <2>1, <2>7 DEF Account, IsOp, accounts
    <3>2. V = U
      BY <1>4, <2>2, <2>4, <2>7
    <3> QED
      BY <1>5, <3>1, <3>2
  <2> QED
    BY <2>5, <2>6, <2>7
<1>10. CASE EngineBegin
  <2>1. /\ events' = events /\ normal' = normal
        /\ plan' = plan /\ reservations' = reservations /\ singles' = singles
    BY <1>10 DEF EngineBegin, interface, accounts
  <2>2. C = {}
    BY <1>1, <1>10, Begun, NoRequestShape
  <2>3. CASE \E r \in Ops : current' = RollbackWork(r) /\ requestLane' = requestLane
    <3>1. ToSet(current'.ops) = {}
      BY <2>3, NoRequestShape
    <3>2. V = U
      BY <1>4, <2>1, <2>2, <2>3, <3>1
    <3> QED
      BY <1>5, <2>1, <3>2
  <2>4. CASE requestLane # <<>> /\ current' = Head(requestLane) /\ requestLane' = Tail(requestLane)
    <3>1. L = ToSet(current'.ops) \cup OpsIn(requestLane')
      BY <1>1, <1>3, <2>4, RequestTaken
    <3>2. V = U
      BY <1>4, <2>1, <2>2, <3>1
    <3> QED
      BY <1>5, <2>1, <3>2
  <2> QED
    BY <1>1, <1>10, <2>3, <2>4, Begun
<1>11. CASE EngineOperation
  <2>1. /\ normal' = normal /\ requestLane' = requestLane
        /\ plan' = plan /\ reservations' = reservations /\ singles' = singles
    BY <1>11 DEF EngineOperation, interface, accounts
  <2>2. PICK op \in Ops, armed \in BOOLEAN :
              /\ current.kind \in {"Apply", "Plan"}
              /\ current.ops # <<>> /\ op = Head(current.ops)
              /\ Finished(op, armed) \in Events /\ IsOp(Finished(op, armed))
              /\ events' = Append(events, Finished(op, armed))
              /\ current.kind = "Apply" => current' = NoRequest
              /\ current.kind = "Plan" => current'.ops \in {Tail(current.ops), <<>>}
    BY <1>1, <1>11, Operated
  <2>3. Finished(op, armed).id = op
    BY DEF Finished
  <2>4. ReportedIn(events') = R \cup {op}
    BY <1>3, <2>2, <2>3, EventAppended
  <2>5. /\ op \in C
        /\ current.kind = "Plan" => ToSet(current'.ops) \subseteq C
        /\ Len(current.ops) = 1 => C = {op}
    BY <1>2, <1>3, <2>2, OperationsLeft DEF InSequence
  <2>6. CASE current.kind = "Apply"
    <3>1. C = {op} /\ ToSet(current'.ops) = {}
      BY <1>2, <2>2, <2>5, <2>6, NoRequestShape DEF InSequence
    <3>2. V = U
      BY <1>4, <2>1, <2>4, <3>1
    <3> QED
      BY <1>5, <2>1, <3>2
  <2>7. CASE current.kind = "Plan"
    <3>1. V \subseteq U /\ U \ V \subseteq C
      BY <1>4, <2>1, <2>4, <2>5, <2>7
    <3>2. \A x \in C : IsOfPlan(x, plan)
      BY <1>2, <2>7 DEF Belongs
    <3> QED
      BY <1>5, <2>1, <3>1, <3>2
  <2> QED
    BY <2>2, <2>6, <2>7
<1>12. CASE EnginePlanDone \/ EngineRollback
  <2>1. /\ normal' = normal /\ requestLane' = requestLane
        /\ plan' = plan /\ reservations' = reservations /\ singles' = singles
    BY <1>12 DEF EnginePlanDone, EngineRollback, interface, accounts
  <2>2. PICK e \in Events : events' = Append(events, e) /\ ~IsOp(e)
    BY <1>1, <1>12, LastEvents DEF PlanDone, RollbackDone, IsOp
  <2>3. current' = NoRequest /\ C = {}
    BY <1>1, <1>12, LastEvents, NoRequestShape, OfNothing
  <2>4. ReportedIn(events') = R /\ ToSet(current'.ops) = {}
    BY <1>3, <2>2, <2>3, EventAppended, NoRequestShape
  <2>5. V = U
    BY <1>4, <2>1, <2>3, <2>4
  <2> QED
    BY <1>5, <2>1, <2>5
<1>13. CASE ~(\/ SubmitApply \/ SubmitPlan \/ DispatchNormal \/ QuitConfirmed \/ ConsumeEvent \/ DrainConsume
              \/ EngineBegin \/ EngineOperation \/ EnginePlanDone \/ EngineRollback)
  <2>1. /\ normal' = normal /\ requestLane' = requestLane /\ events' = events /\ current' = current
        /\ plan' = plan /\ reservations' = reservations /\ singles' = singles
    BY <1>13, Untouched
  <2>2. V = U
    BY <1>4, <2>1
  <2> QED
    BY <1>5, <2>1, <2>2
<1> QED
  BY <1>6, <1>7, <1>8, <1>9, <1>10, <1>11, <1>12, <1>13

-----------------------------------------------------------------------------
(* What became of each registration *)

StatusAt(r, known, arriving, counting, keeping, waiting, sent, executing) ==
    IF r \notin known THEN "none"
    ELSE IF r \in arriving \cup counting THEN "armed"
    ELSE IF r \in keeping THEN "kept"
    ELSE IF r \in waiting \cup sent \cup executing THEN "fired" ELSE "reverted"

LEMMA ArmedEvents ==
    ASSUME events \in Seq(Events), RiskyArmed(events), NEW r \in Ops
    PROVE  (\E i \in 1..Len(events) : events[i] = Finished(r, TRUE)) <=> r \in ArmedIn(events)
<1>1. ASSUME NEW i \in 1..Len(events), events[i] = Finished(r, TRUE)
      PROVE  r \in ArmedIn(events)
  <2>1. events[i].armed /\ events[i].id = r
    BY <1>1 DEF Finished
  <2> QED
    BY <2>1, SetsOfEvents
<1>2. ASSUME NEW i \in 1..Len(events), events[i].armed, events[i].id = r
      PROVE  events[i] = Finished(r, TRUE)
  <2>1. events[i] \in Events /\ events[i].type = "OperationFinished"
    BY <1>2 DEF RiskyArmed, IsOp
  <2>2. events[i].armed \in BOOLEAN
    BY <2>1 DEF Events
  <2>3. events[i].armed = TRUE
    BY <1>2, <2>2
  <2>4. events[i] = [type |-> events[i].type, id |-> events[i].id, armed |-> events[i].armed]
    BY <2>1 DEF Events
  <2> QED
    BY <1>2, <2>1, <2>3, <2>4 DEF Finished
<1> QED
  BY <1>1, <1>2, SetsOfEvents

(* One place at a time: no status is broken. *)
LEMMA StatusIs ==
    SessionInv =>
        \A r \in Ops :
            Status(r) = StatusAt(r, registered, ArmedIn(events), ToSet(Ids(pending)), kept,
                                 ToSet(queue), ToSet(rollbackLane), ExecutedBy(current))
<1> DEFINE A == ArmedIn(events)
<1> DEFINE P == ToSet(Ids(pending))
<1> DEFINE Q == ToSet(queue)
<1> DEFINE S == ToSet(rollbackLane)
<1> DEFINE X == ExecutedBy(current)
<1> DEFINE V == RanOnce(runs)
<1> SUFFICES ASSUME SessionInv, NEW r \in Ops
             PROVE  Status(r) = StatusAt(r, registered, A, P, kept, Q, S, X)
  OBVIOUS
<1>1. /\ events \in Seq(Events) /\ RiskyArmed(events) /\ ToSet(deferred) = {} /\ runs \in [Ops -> Nat]
      /\ LivesOnce(r, registered, A, P, kept, Q, S, X, V) /\ runs[r] <= 1
  <2>1. TypeOK /\ deferred = <<>>
    BY PartsOfAccounts, RoomFor DEF SessionInv
  <2> QED
    BY <2>1, OfNothing DEF SessionInv, Flow, Shapes, Located, TypeOK
<1>2. OnCountdown(r) <=> r \in A \cup P
  BY <1>1, ArmedEvents DEF OnCountdown
<1>3. Fired(r) <=> r \in Q \cup S \cup X
  BY <1>1 DEF Fired, ExecutedBy
<1>4. runs[r] > 0 <=> r \in V
  BY DEF RanOnce
<1> HIDE DEF A, P, Q, S, X, V
<1>5. /\ "armed" \in Places(r) <=> r \in A \cup P
      /\ "kept" \in Places(r) <=> r \in kept
      /\ "fired" \in Places(r) <=> r \in Q \cup S \cup X
      /\ "reverted" \in Places(r) <=> r \in V
      /\ \A place \in Places(r) : place \in {"armed", "kept", "fired", "reverted"}
  BY <1>2, <1>3, <1>4 DEF Places
<1>6. CASE r \notin registered
  <2>1. Places(r) = {}
    BY <1>1, <1>5, <1>6 DEF LivesOnce
  <2>2. Cardinality(Places(r)) = 0
    BY <2>1, FS_EmptySet
  <2> QED
    BY <1>6, <2>2 DEF Status, StatusAt
<1>7. ASSUME r \in registered, NEW place, Places(r) = {place} PROVE Status(r) = place
  <2>1. Cardinality(Places(r)) = 1
    BY <1>7, FS_Singleton
  <2>2. (CHOOSE p \in Places(r) : TRUE) = place
    BY <1>7
  <2> QED
    BY <1>1, <1>7, <2>1, <2>2 DEF Status
<1>8. CASE r \in registered
  <2>1. CASE r \in A \cup P
    <3>1. Places(r) = {"armed"}
      BY <1>1, <1>5, <2>1 DEF LivesOnce
    <3> QED
      BY <1>7, <1>8, <2>1, <3>1 DEF StatusAt
  <2>2. CASE r \in kept
    <3>1. Places(r) = {"kept"} /\ r \notin A \cup P
      BY <1>1, <1>5, <2>2 DEF LivesOnce
    <3> QED
      BY <1>7, <1>8, <2>2, <3>1 DEF StatusAt
  <2>3. CASE r \in Q \cup S \cup X
    <3>1. Places(r) = {"fired"} /\ r \notin A \cup P /\ r \notin kept
      BY <1>1, <1>5, <2>3 DEF LivesOnce
    <3> QED
      BY <1>7, <1>8, <2>3, <3>1 DEF StatusAt
  <2>4. CASE r \in V
    <3>1. Places(r) = {"reverted"} /\ r \notin A \cup P /\ r \notin kept /\ r \notin Q \cup S \cup X
      BY <1>1, <1>5, <2>4 DEF LivesOnce
    <3> QED
      BY <1>7, <1>8, <3>1 DEF StatusAt
  <2> QED
    BY <1>1, <1>8, <2>1, <2>2, <2>3, <2>4 DEF LivesOnce
<1> QED
  BY <1>6, <1>8

LEMMA StatusNextIs ==
    SessionInv' =>
        \A r \in Ops :
            Status(r)' = StatusAt(r, registered', ArmedIn(events'), ToSet(Ids(pending')), kept',
                                  ToSet(queue'), ToSet(rollbackLane'), ExecutedBy(current'))
<1>1. (SessionInv =>
        \A r \in Ops :
            Status(r) = StatusAt(r, registered, ArmedIn(events), ToSet(Ids(pending)), kept,
                                 ToSet(queue), ToSet(rollbackLane), ExecutedBy(current)))'
  BY StatusIs, PTL
<1> QED
  BY <1>1

-----------------------------------------------------------------------------
(* A clean exit *)

Settled ==
    /\ \A r \in registered : Status(r) \in {"kept", "reverted"}
    /\ Unreported \cap Risky = {}

(* With no reservation left, no countdown, an empty outbox and every rollback
   answered, everything is settled. *)
LEMMA AllSettled ==
    ASSUME SessionInv, reservations = 0, pending = <<>>, queue = <<>>,
           ToSet(rollbackLane) = {}, ExecutedBy(current) = {}
    PROVE  Settled
<1>1. /\ TypeOK /\ Accounts /\ events \in Seq(Events) /\ RiskyArmed(events)
      /\ registered \subseteq Ops
  BY PartsOfAccounts, SessionAssumption DEF SessionInv, Flow, Shapes, TypeOK, Ops
<1>2. Unreported \cap Risky = {}
  BY <1>1, PlaceHeld
<1>3. ArmedIn(events) \subseteq Unreported \cap Risky
  <2>1. \A i \in 1..Len(events) : events[i].armed => IsOp(events[i]) /\ events[i].id \in Risky
    BY <1>1 DEF RiskyArmed
  <2>2. ArmedIn(events) \subseteq ReportedIn(events) \cap Risky
    BY <1>1, <2>1, SetsOfEvents
  <2> QED
    BY <2>2, UnreportedIs
<1>4. ArmedIn(events) = {} /\ ToSet(queue) = {} /\ ToSet(Ids(pending)) = {}
  <2>1. Ids(<<>>) = <<>>
    BY DEF Ids
  <2> QED
    BY <1>2, <1>3, <2>1, OfNothing
<1>5. \A r \in registered : Status(r) \in {"kept", "reverted"}
  BY <1>1, <1>4, StatusIs DEF StatusAt
<1> QED
  BY <1>2, <1>5 DEF Settled

(* It stays so while nothing but the mode changes. *)
LEMMA StaysSettled ==
    ASSUME Settled, events' = events, current' = current, requestLane' = requestLane,
           rollbackLane' = rollbackLane, normal' = normal, pending' = pending, queue' = queue,
           deferred' = deferred, registered' = registered, kept' = kept, runs' = runs
    PROVE  Settled'
<1>1. Unreported' = Unreported
  BY UnreportedIs, UnreportedNextIs
<1>2. \A r \in registered : Status(r)' = Status(r)
  BY DEF Status, Places, OnCountdown, Fired
<1> QED
  BY <1>1, <1>2 DEF Settled

LEMMA CleanExitStep ==
    ASSUME SessionInv, [Next]_vars
    PROVE  CleanExitSettlesAll'
<1>1. /\ \A r \in ToSet(rollbackLane) \cup ExecutedBy(current) :
            r \in inFlight /\ (mode = "Draining" => r \in expected)
      /\ completed \subseteq RanOnce(runs) /\ (mode = "Draining" => pending = <<>>)
      /\ mode = "ExitedClean" => Settled
  BY DEF SessionInv, Awaited, CleanExitSettlesAll, Settled
<1> SUFFICES ASSUME mode' = "ExitedClean" PROVE Settled'
  BY DEF CleanExitSettlesAll, Settled
<1>2. CASE QuitConfirmed
  <2>1. NothingToRevert /\ UNCHANGED <<pending, normal, queue, drain, engine, history>>
    BY <1>2 DEF QuitConfirmed
  <2>2. ToSet(rollbackLane) = {} /\ ExecutedBy(current) = {}
    BY <1>1, <2>1 DEF NothingToRevert
  <2>3. Settled
    BY <2>1, <2>2, AllSettled DEF NothingToRevert
  <2> QED
    BY <2>1, <2>3, StaysSettled DEF drain, engine, history
<1>3. CASE DrainComplete
  <2>1. /\ mode = "Draining" /\ queue = <<>> /\ expected \subseteq completed /\ reservations = 0
        /\ UNCHANGED <<pending, normal, queue, drain, engine, history>>
    BY <1>3 DEF DrainComplete, DrainNeeded
  <2>2. \A r \in ToSet(rollbackLane) \cup ExecutedBy(current) : r \in RanOnce(runs)
    BY <1>1, <2>1
  <2>3. \A r \in ToSet(rollbackLane) \cup ExecutedBy(current) : r \in Ops
    <3>1. rollbackLane \in Seq(Ops)
      BY DEF SessionInv, AccountsExact, TypeOK
    <3> QED
      BY <3>1, ElementsOf DEF ExecutedBy
  <2>4. \A r \in Ops : r \in ToSet(rollbackLane) \cup ExecutedBy(current) => r \notin RanOnce(runs)
    BY DEF SessionInv, Located, LivesOnce
  <2>5. ToSet(rollbackLane) = {} /\ ExecutedBy(current) = {}
    BY <2>2, <2>3, <2>4
  <2>6. Settled
    BY <1>1, <2>1, <2>5, AllSettled
  <2> QED
    BY <2>1, <2>6, StaysSettled DEF drain, engine, history
<1>4. CASE DrainAbandoned
  BY <1>4 DEF DrainAbandoned
<1>5. CASE ~(QuitConfirmed \/ DrainComplete \/ DrainAbandoned)
  <2>1. mode = "ExitedClean"
    BY <1>5, Untouched
  <2>2. UNCHANGED vars
    BY <2>1 DEF Next, Person, Dispatch, Drain, Engine, Terminated, SubmitApply, SubmitPlan, Submit, KeepChanges,
          RollbackNow, QuitConfirmed, Tick, DispatchRollback, DispatchNormal, DispatchRefused, ConsumeEvent,
          DrainDispatch, DrainConsume, DrainTurn, DrainComplete, DrainAbandoned, EngineBegin,
          EngineOperation, EnginePlanDone, EngineRollback, EngineDies, Open
  <2> QED
    BY <1>1, <2>1, <2>2, StaysSettled DEF vars, drain, engine, history
<1> QED
  BY <1>2, <1>3, <1>4, <1>5

-----------------------------------------------------------------------------
(* The inductive invariant *)

LEMMA SessionInit == Init => SessionInv
<1> SUFFICES ASSUME Init PROVE SessionInv
  OBVIOUS
<1> USE DEF Init
<1>1. /\ NoRequest.ops = <<>> /\ NoRequest.kind = "None" /\ Ids(<<>>) = <<>>
      /\ ToSet(<<>>) = {} /\ IsInjective(<<>>) /\ Len(<<>>) = 0
  BY RequestTypes, OfNothing DEF Ids
<1>2. Unreported = {}
  BY <1>1, UnreportedIs, NothingIn
<1>3. RanOnce(runs) = {} /\ \A r \in Ops : runs[r] <= 1
  BY DEF RanOnce, Ops
<1>4. TypeOK
  <2>1. /\ OutboxCapacity \in Nat /\ RequestCapacity \in Nat /\ RollbackCapacity \in Nat
        /\ EventCapacity \in Nat /\ MaxOps \in Nat
    BY SessionAssumption
  <2>2. \A S : <<>> \in Seq(S)
    BY OfNothing
  <2>3. runs \in [Ops -> Nat]
    BY DEF Ops
  <2>4. /\ pending \in Seq(Countdowns) /\ queue \in Seq(Ops) /\ deferred \in Seq(Ops)
        /\ requestLane \in Seq(Requests) /\ rollbackLane \in Seq(Ops) /\ events \in Seq(Events)
        /\ Len(queue) <= OutboxCapacity /\ Len(requestLane) <= RequestCapacity
        /\ Len(rollbackLane) <= RollbackCapacity /\ Len(events) <= EventCapacity
    BY <1>1, <2>1, <2>2
  <2>5. /\ reservations \in Nat /\ singles \in Nat /\ queueMirror \in 0..OutboxCapacity
        /\ submitted \in 0..MaxOps
        /\ plan \in [id : 0..MaxOps, total : 0..MaxOps, consumed : 0..MaxOps]
    BY <2>1, NoPlanTypes
  <2> QED
    BY <2>3, <2>4, <2>5 DEF TypeOK
<1>5. RoomForEveryInverse /\ OldestFirst /\ MirrorsExact
  <2>1. RoomForEveryInverse
    BY <1>1, SessionAssumption DEF RoomForEveryInverse
  <2>2. OldestFirst
    BY <1>1 DEF OldestFirst
  <2>3. MirrorsExact
    BY <1>1 DEF MirrorsExact
  <2> QED
    BY <2>1, <2>2, <2>3
<1>6. Accounts
  <2>1. Alone({}, NoPlan) = {} /\ Planned({}, NoPlan) = {}
    BY DEF Alone, Planned
  <2>2. Cardinality(Alone({}, NoPlan)) = 0 /\ Cardinality(Planned({}, NoPlan)) = 0
    BY <2>1, FewOperations
  <2> QED
    BY <1>2, <2>2, NoPlanTypes DEF Accounts
<1>7. Flow
  <2>1. Shapes
    BY <1>1, NoRequestShape, NothingIn DEF Shapes
  <2>2. Order
    BY <1>1, NothingIn DEF Order, InLine, Before
  <2>3. PlanIsLast
    BY <1>1, BelongsToNone DEF PlanIsLast
  <2> QED
    BY <2>1, <2>2, <2>3 DEF Flow
<1>8. Once
  BY <1>1 DEF Once
<1>9. Located
  BY <1>1, <1>3, NothingIn, Executing DEF Located, LivesOnce
<1>10. Awaited
  BY <1>1, Executing DEF Awaited
<1>11. CleanExitSettlesAll
  BY DEF CleanExitSettlesAll
<1> QED
  BY <1>4, <1>5, <1>6, <1>7, <1>8, <1>9, <1>10, <1>11, PartsOfAccounts DEF SessionInv

LEMMA SessionNext == SessionInv /\ [Next]_vars => SessionInv'
<1> SUFFICES ASSUME SessionInv, [Next]_vars PROVE SessionInv'
  OBVIOUS
<1>1. (TypeOK /\ RoomForEveryInverse /\ OldestFirst /\ Accounts /\ MirrorsExact)'
  BY TypeStep, RoomStep, AccountsStep, MirrorStep
<1>2. AccountsExact'
  <2>1. (TypeOK /\ RoomForEveryInverse /\ OldestFirst /\ Accounts /\ MirrorsExact => AccountsExact)'
    BY PartsOfAccounts, PTL
  <2> QED
    BY <1>1, <2>1
<1>3. Flow'
  BY ShapeStep, OrderStep, PlanStep DEF Flow
<1> QED
  BY <1>2, <1>3, LocatedStep, AwaitedStep, CleanExitStep DEF SessionInv

LEMMA SessionInvariant == Spec => []SessionInv
  BY SessionInit, SessionNext, PTL DEF Spec

(* Whatever is submitted, kept, fired, drained or lost with the engine: there is
   room in the outbox for every inverse, and the reducer's accounts are exact. *)
THEOREM AccountsStayExact == Spec => []AccountsExact
<1>1. SessionInv => AccountsExact
  BY DEF SessionInv
<1> QED
  BY <1>1, SessionInvariant, PTL

(* A session that exits cleanly has kept or reverted every armed change, and left
   no risky operation behind. *)
THEOREM CleanExitIsSettled == Spec => []CleanExitSettlesAll
<1>1. SessionInv => CleanExitSettlesAll
  BY DEF SessionInv
<1> QED
  BY <1>1, SessionInvariant, PTL

-----------------------------------------------------------------------------
(* The switch is implemented *)

StatusNow(r) ==
    StatusAt(r, registered, ArmedIn(events), ToSet(Ids(pending)), kept,
             ToSet(queue), ToSet(rollbackLane), ExecutedBy(current))
StatusNext(r) ==
    StatusAt(r, registered', ArmedIn(events'), ToSet(Ids(pending')), kept',
             ToSet(queue'), ToSet(rollbackLane'), ExecutedBy(current'))

(* Registrations that move from one place to the next while the others stay. *)
LEMMA SwitchMoves ==
    ASSUME SessionInv, SessionInv', Open' = Open, NEW from, NEW to, NEW R \in SUBSET Ops,
           \A r \in R : StatusNow(r) = from /\ StatusNext(r) = to,
           \A r \in Ops \ R : StatusNext(r) = StatusNow(r)
    PROVE  /\ R = {} => UNCHANGED Switch!vars
           /\ R # {} => Switch!Move(R, from, to)
<1>1. \A r \in Ops : Status(r) = StatusNow(r) /\ Status(r)' = StatusNext(r)
  BY StatusIs, StatusNextIs DEF StatusNow, StatusNext
<1>2. ASSUME R = {} PROVE UNCHANGED Switch!vars
  <2>1. \A r \in Ops : Status(r)' = Status(r)
    BY <1>1, <1>2
  <2>2. [r \in Ops |-> Status(r)]' = [r \in Ops |-> Status(r)]
    BY <2>1
  <2> QED
    BY <2>2 DEF Switch!vars
<1>3. ASSUME R # {} PROVE Switch!Move(R, from, to)
  <2>1. \A r \in R : [s \in Ops |-> Status(s)][r] = from
    BY <1>1
  <2>2. \A r \in Ops : Status(r)' = IF r \in R THEN to ELSE Status(r)
    BY <1>1
  <2>3. [r \in Ops |-> Status(r)]' = [r \in Ops |-> IF r \in R THEN to ELSE [s \in Ops |-> Status(s)][r]]
    BY <2>2
  <2> QED
    BY <1>3, <2>1, <2>3 DEF Switch!Move
<1> QED
  BY <1>2, <1>3

LEMMA StatusOf ==
    ASSUME NEW r, NEW known, NEW arriving, NEW counting, NEW keeping, NEW waiting, NEW sent, NEW executing,
           NEW reverted, LivesOnce(r, known, arriving, counting, keeping, waiting, sent, executing, reverted)
    PROVE  LET status == StatusAt(r, known, arriving, counting, keeping, waiting, sent, executing) IN
           /\ r \notin known => status = "none"
           /\ r \in arriving \cup counting => status = "armed"
           /\ r \in keeping => status = "kept"
           /\ r \in waiting \cup sent \cup executing => status = "fired"
           /\ r \in reverted => status = "reverted"
  BY DEF LivesOnce, StatusAt

LEMMA SwitchStep ==
    ASSUME SessionInv, SessionInv', [Next]_vars
    PROVE  [Switch!Next]_Switch!vars
<1> DEFINE A == ArmedIn(events)
<1> DEFINE P == ToSet(Ids(pending))
<1> DEFINE Q == ToSet(queue)
<1> DEFINE S == ToSet(rollbackLane)
<1> DEFINE X == ExecutedBy(current)
<1> DEFINE V == RanOnce(runs)
<1> DEFINE An == ArmedIn(events')
<1> DEFINE Pn == ToSet(Ids(pending'))
<1> DEFINE Qn == ToSet(queue')
<1> DEFINE Sn == ToSet(rollbackLane')
<1> DEFINE Xn == ExecutedBy(current')
<1> DEFINE Vn == RanOnce(runs')
<1>1. /\ TypeOK /\ RoomForEveryInverse /\ Shapes /\ Order /\ OldestFirst
      /\ \A r \in Ops : LivesOnce(r, registered, A, P, kept, Q, S, X, V)
      /\ \A r \in Ops : LivesOnce(r, registered', An, Pn, kept', Qn, Sn, Xn, Vn)
  BY PartsOfAccounts DEF SessionInv, Flow, Located
<1>2. /\ pending \in Seq(Countdowns) /\ queue \in Seq(Ops) /\ rollbackLane \in Seq(Ops)
      /\ events \in Seq(Events) /\ runs \in [Ops -> Nat]
      /\ EventsInOrder(events) /\ RiskyArmed(events)
      /\ Ids(pending) \in Seq(Ops) /\ P \subseteq Ops
  <2>1. pending \in Seq(Countdowns)
    BY <1>1 DEF TypeOK
  <2>2. Ids(pending) \in Seq(Ops)
    BY <2>1, IdsOf
  <2> QED
    BY <1>1, <2>1, <2>2, ElementsOf DEF TypeOK, Shapes, Order
(* What has no part in a move keeps its status. *)
<1>3. ASSUME NEW r \in Ops,
             r \in registered <=> r \in registered', r \in A \cup P <=> r \in An \cup Pn,
             r \in kept <=> r \in kept', r \in Q \cup S \cup X <=> r \in Qn \cup Sn \cup Xn
      PROVE  StatusNext(r) = StatusNow(r)
  <2>1. /\ StatusNow(r) = StatusAt(r, registered, A, P, kept, Q, S, X)
        /\ StatusNext(r) = StatusAt(r, registered', An, Pn, kept', Qn, Sn, Xn)
    BY DEF StatusNow, StatusNext
  <2> HIDE DEF A, P, Q, S, X, V, An, Pn, Qn, Sn, Xn, Vn
  <2> QED
    BY <1>3, <2>1 DEF StatusAt
<1>4. /\ \A r \in Ops : /\ r \notin registered => StatusNow(r) = "none"
                        /\ r \in A \cup P => StatusNow(r) = "armed"
                        /\ r \in kept => StatusNow(r) = "kept"
                        /\ r \in Q \cup S \cup X => StatusNow(r) = "fired"
                        /\ r \in V => StatusNow(r) = "reverted"
      /\ \A r \in Ops : /\ r \notin registered' => StatusNext(r) = "none"
                        /\ r \in An \cup Pn => StatusNext(r) = "armed"
                        /\ r \in kept' => StatusNext(r) = "kept"
                        /\ r \in Qn \cup Sn \cup Xn => StatusNext(r) = "fired"
                        /\ r \in Vn => StatusNext(r) = "reverted"
  <2>1. \A r \in Ops : StatusNow(r) = StatusAt(r, registered, A, P, kept, Q, S, X)
    BY DEF StatusNow
  <2>2. \A r \in Ops : StatusNext(r) = StatusAt(r, registered', An, Pn, kept', Qn, Sn, Xn)
    BY DEF StatusNext
  <2> HIDE DEF A, P, Q, S, X, V, An, Pn, Qn, Sn, Xn, Vn
  <2> QED
    BY <1>1, <2>1, <2>2, StatusOf
<1>5. ASSUME \A r \in Ops : StatusNext(r) = StatusNow(r), Open' = Open
      PROVE  UNCHANGED Switch!vars
  BY <1>5, SwitchMoves
<1>6. ASSUME NEW R \in SUBSET Ops, Open, Open' = Open,
             \A r \in R : StatusNow(r) = "armed" /\ StatusNext(r) = "fired",
             \A r \in Ops \ R : StatusNext(r) = StatusNow(r)
      PROVE  [Switch!Next]_Switch!vars
  <2>1. CASE R = {}
    BY <1>6, <2>1, SwitchMoves
  <2>2. CASE R # {}
    <3>1. Switch!Move(R, "armed", "fired")
      BY <1>6, <2>2, SwitchMoves
    <3> QED
      BY <1>6, <3>1 DEF Switch!Next, Switch!Fire
  <2> QED
    BY <2>1, <2>2
<1>7. CASE KeepChanges
  <2>1. /\ kept' = kept \cup P /\ pending' = <<>> /\ Open /\ Open' = Open
        /\ queue' = queue /\ rollbackLane' = rollbackLane /\ events' = events /\ current' = current
        /\ registered' = registered
    BY <1>7 DEF KeepChanges, engine, Open
  <2>2. Ids(pending') = <<>>
    BY <2>1 DEF Ids
  <2>3. Pn = {} /\ Qn = Q /\ Sn = S /\ An = A /\ Xn = X
    BY <2>1, <2>2, OfNothing
  <2>4. \A r \in Ops \ P : StatusNext(r) = StatusNow(r)
    BY <1>3, <2>1, <2>3
  <2>5. \A r \in P : StatusNow(r) = "armed" /\ StatusNext(r) = "kept"
    BY <1>2, <1>4, <2>1
  <2> HIDE DEF P
  <2>6. CASE P = {}
    BY <1>5, <2>1, <2>4, <2>6
  <2>7. CASE P # {}
    <3>1. Switch!Move(P, "armed", "kept")
      BY <1>2, <2>1, <2>4, <2>5, <2>7, SwitchMoves
    <3> QED
      BY <1>2, <2>1, <3>1 DEF Switch!Next, Switch!Keep
  <2> QED
    BY <2>6, <2>7
<1>8. ASSUME NEW k \in 0..Len(pending), OldestLeave(k), rollbackLane' = rollbackLane, events' = events,
             current' = current, UNCHANGED history, Open, Open' = Open
      PROVE  [Switch!Next]_Switch!vars
  <2> DEFINE fired == ToSet(SubSeq(Ids(pending), 1, k))
  <2>1. P = fired \cup Pn /\ Qn = Q \cup fired
    BY <1>1, <1>8, FrontMoves
  <2>2. Sn = S /\ An = A /\ Xn = X /\ registered' = registered /\ kept' = kept
    BY <1>8 DEF history
  <2>3. fired \subseteq Ops
    BY <1>2, <2>1
  <2>4. \A r \in fired : StatusNow(r) = "armed" /\ StatusNext(r) = "fired"
    BY <1>4, <2>1, <2>3
  <2>5. \A r \in Ops \ fired : StatusNext(r) = StatusNow(r)
    BY <1>3, <2>1, <2>2
  <2> HIDE DEF fired
  <2> QED
    BY <1>6, <1>8, <2>3, <2>4, <2>5
<1>9. CASE RollbackNow \/ Tick
  <2>1. /\ rollbackLane' = rollbackLane /\ events' = events /\ current' = current /\ UNCHANGED history
        /\ Open /\ Open' = Open
    BY <1>9 DEF RollbackNow, Tick, engine, Open
  <2>2. Len(pending) \in 0..Len(pending)
    BY <1>1, RoomFor
  <2> QED
    BY <1>1, <1>8, <1>9, <2>1, <2>2, NowFires, TickFires
<1>10. CASE QuitConfirmed
  <2>1. rollbackLane' = rollbackLane /\ events' = events /\ current' = current /\ UNCHANGED history
        /\ mode = "Running"
    BY <1>10 DEF QuitConfirmed, engine
  <2>2. CASE mode' = "ExitedClean" /\ pending' = pending /\ queue' = queue /\ deferred' = deferred
    <3>1. \A r \in Ops : Status(r)' = Status(r)
      BY <2>1, <2>2 DEF Status, Places, OnCountdown, Fired, history
    <3>2. [r \in Ops |-> Status(r)]' = [r \in Ops |-> Status(r)]
      BY <3>1
    <3>3. Open /\ ~Open'
      BY <2>1, <2>2 DEF Open
    <3> QED
      BY <3>2, <3>3 DEF Switch!Next, Switch!Close
  <2>3. CASE mode' = "Draining" /\ OldestLeave(Len(pending))
    <3>1. Open /\ Open' = Open
      BY <2>1, <2>3 DEF Open
    <3>2. Len(pending) \in 0..Len(pending)
      BY <1>1, RoomFor
    <3> QED
      BY <1>8, <2>1, <2>3, <3>1, <3>2
  <2> QED
    BY <1>10, <2>2, <2>3, QuitIs DEF drain
<1>11. CASE DispatchRollback \/ DrainDispatch
  <2>1. /\ queue # <<>> /\ queue' = Tail(queue) /\ Head(queue) \in Ops
        /\ rollbackLane' = Append(rollbackLane, Head(queue))
    BY <1>11, RollbackSent
  <2>2. /\ pending' = pending /\ events' = events /\ current' = current /\ Open' = Open
        /\ registered' = registered /\ kept' = kept
    BY <1>11 DEF DispatchRollback, DrainDispatch, history, Open
  <2> DEFINE h == Head(queue)
  <2>3. Q = {h} \cup Qn
    BY <1>2, <2>1, FirstAndRest
  <2>4. Sn = S \cup {h}
    BY <1>2, <2>1, Appended
  <2>5. Pn = P /\ An = A /\ Xn = X
    BY <2>2
  <2>6. \A r \in Ops : StatusNext(r) = StatusNow(r)
    BY <1>3, <2>2, <2>3, <2>4, <2>5
  <2> QED
    BY <1>5, <2>2, <2>6
<1>12. CASE ConsumeEvent \/ DrainConsume
  <2> DEFINE event == Head(events)
  <2> DEFINE armed == IF event.armed THEN {event.id} ELSE {}
  <2>1. events # <<>> /\ events' = Tail(events)
    BY <1>12 DEF ConsumeEvent, DrainConsume
  <2>2. /\ rollbackLane' = rollbackLane /\ current' = current /\ Open' = Open /\ Open
        /\ registered' = registered /\ kept' = kept
    BY <1>12 DEF ConsumeEvent, DrainConsume, DrainTurn, history, Open
  <2>3. A = An \cup armed
    BY <1>2, <2>1, EventRead
  <2>4. event.id \in Ops /\ Ids(Countdown(event)) = IF event.armed THEN <<event.id>> ELSE <<>>
    BY <2>1, HeadEvent
  <2>5. Ids(Countdown(event)) \in Seq(Ops) /\ ToSet(Ids(Countdown(event))) = armed /\ armed \subseteq Ops
    <3>1. CASE event.armed
      <4>1. Ids(Countdown(event)) = <<event.id>> /\ armed = {event.id}
        BY <2>4, <3>1
      <4> HIDE DEF event, armed
      <4>2. <<event.id>> \in Seq(Ops) /\ ToSet(<<event.id>>) = {event.id}
        BY <2>4 DEF ToSet
      <4> QED
        BY <2>4, <4>1, <4>2
    <3>2. CASE ~event.armed
      <4>1. Ids(Countdown(event)) = <<>> /\ armed = {}
        BY <2>4, <3>2
      <4> HIDE DEF event, armed
      <4> QED
        BY <4>1, OfNothing
    <3> QED
      BY <3>1, <3>2
  <2>6. Sn = S /\ Xn = X
    BY <2>2
  <2>7. CASE ConsumeEvent
    <3>1. queue' = queue /\ Ids(pending') = Ids(pending) \o Ids(Countdown(event))
      BY <2>7, CountdownStarts
    <3> HIDE DEF event, armed
    <3>2. Pn = P \cup armed /\ Qn = Q
      BY <1>2, <2>5, <3>1, Concatenated
    <3>3. \A r \in Ops : StatusNext(r) = StatusNow(r)
      BY <1>3, <2>2, <2>3, <2>6, <3>2
    <3> QED
      BY <1>5, <2>2, <3>3
  <2>8. CASE DrainConsume
    <3>1. pending' = pending /\ queue' = queue \o Ids(Countdown(event))
      BY <2>8, DrainFires DEF DrainConsume
    <3> HIDE DEF event, armed
    <3>2. Qn = Q \cup armed /\ Pn = P
      BY <1>2, <2>5, <3>1, Concatenated
    <3>3. \A r \in armed : StatusNow(r) = "armed" /\ StatusNext(r) = "fired"
      BY <1>4, <2>3, <2>5, <3>2
    <3>4. \A r \in Ops \ armed : StatusNext(r) = StatusNow(r)
      BY <1>3, <2>2, <2>3, <2>6, <3>2
    <3> QED
      BY <1>6, <2>2, <2>5, <3>3, <3>4
  <2> QED
    BY <1>12, <2>7, <2>8
<1>13. CASE EngineBegin
  <2>1. /\ pending' = pending /\ queue' = queue /\ events' = events /\ Open' = Open
        /\ registered' = registered /\ kept' = kept
    BY <1>13 DEF EngineBegin, interface, history, Open
  <2>2. X = {}
    BY <1>1, <1>13, Begun, Executing
  <2>3. S = Sn \cup Xn
    <3>1. CASE rollbackLane # <<>> /\ current' = RollbackWork(Head(rollbackLane))
               /\ rollbackLane' = Tail(rollbackLane) /\ Head(rollbackLane) \in Ops
      BY <1>2, <3>1, FirstAndRest, Executing
    <3>2. CASE current' \in Requests /\ rollbackLane' = rollbackLane
      BY <3>2, Executing
    <3> QED
      BY <1>1, <1>13, <3>1, <3>2, Begun
  <2>4. Pn = P /\ Qn = Q /\ An = A
    BY <2>1
  <2>5. \A r \in Ops : StatusNext(r) = StatusNow(r)
    BY <1>3, <2>1, <2>2, <2>3, <2>4
  <2> QED
    BY <1>5, <2>1, <2>5
<1>14. CASE EngineOperation
  <2>1. /\ pending' = pending /\ queue' = queue /\ rollbackLane' = rollbackLane
        /\ kept' = kept /\ Open /\ Open' = Open
    BY <1>14 DEF EngineOperation, interface, Open
  <2>2. PICK op \in Ops, armed \in BOOLEAN :
              /\ current \in Requests /\ current.kind \in {"Apply", "Plan"}
              /\ current.ops \in Seq(Ops) /\ current.ops # <<>> /\ op = Head(current.ops)
              /\ Finished(op, armed) \in Events
              /\ events' = Append(events, Finished(op, armed))
              /\ registered' = IF armed THEN registered \cup {op} ELSE registered
              /\ current.kind = "Apply" => current' = NoRequest
              /\ current.kind = "Plan" => current' \in Requests
    BY <1>1, <1>14, Operated
  <2>3. op \in ToSet(current.ops)
    BY <2>2, FirstAndRest
  <2>4. op \notin registered
    <3>1. op \in Nat
      BY DEF Ops
    <3> QED
      BY <1>1, <2>3, <3>1 DEF Order, InLine, Before
  <2>5. Finished(op, armed).armed = armed /\ Finished(op, armed).id = op
    BY DEF Finished
  <2>6. An = A \cup (IF armed THEN {op} ELSE {})
    BY <1>2, <2>2, <2>5, EventAppended
  <2>7. Xn = X /\ Pn = P /\ Qn = Q /\ Sn = S
    BY <2>1, <2>2, Executing
  <2>8. CASE ~armed
    <3>1. \A r \in Ops : StatusNext(r) = StatusNow(r)
      BY <1>3, <2>1, <2>2, <2>6, <2>7, <2>8
    <3> QED
      BY <1>5, <2>1, <3>1
  <2>9. CASE armed
    <3>1. An = A \cup {op} /\ registered' = registered \cup {op}
      BY <2>2, <2>6, <2>9
    <3>2. \A r \in {op} : StatusNow(r) = "none" /\ StatusNext(r) = "armed"
      BY <1>4, <2>4, <3>1
    <3>3. \A r \in Ops \ {op} : StatusNext(r) = StatusNow(r)
      BY <1>3, <2>1, <2>7, <3>1
    <3>4. Switch!Move({op}, "none", "armed")
      BY <2>1, <3>2, <3>3, SwitchMoves
    <3> QED
      BY <2>1, <3>4 DEF Switch!Next, Switch!Arm
  <2> QED
    BY <2>8, <2>9
<1>15. CASE EnginePlanDone
  <2>1. /\ pending' = pending /\ queue' = queue /\ rollbackLane' = rollbackLane
        /\ registered' = registered /\ kept' = kept /\ Open' = Open
    BY <1>15 DEF EnginePlanDone, interface, history, Open
  <2>2. /\ current \in Requests /\ current' = NoRequest /\ PlanDone(current.id) \in Events
        /\ events' = Append(events, PlanDone(current.id))
    BY <1>1, <1>15, LastEvents
  <2>3. ~PlanDone(current.id).armed
    BY DEF PlanDone
  <2>4. An = A
    BY <1>2, <2>2, <2>3, EventAppended
  <2>5. Xn = X /\ Pn = P /\ Qn = Q /\ Sn = S
    BY <2>1, <2>2, Executing
  <2>6. \A r \in Ops : StatusNext(r) = StatusNow(r)
    BY <1>3, <2>1, <2>4, <2>5
  <2> QED
    BY <1>5, <2>1, <2>6
<1>16. CASE EngineRollback
  <2>1. /\ pending' = pending /\ queue' = queue /\ rollbackLane' = rollbackLane
        /\ registered' = registered /\ kept' = kept /\ Open' = Open
    BY <1>16 DEF EngineRollback, interface, Open
  <2>2. PICK r \in Ops : /\ current = RollbackWork(r) /\ RollbackDone(r) \in Events
                         /\ events' = Append(events, RollbackDone(r))
                         /\ runs' = [runs EXCEPT ![r] = @ + 1]
                         /\ current' = NoRequest
    BY <1>1, <1>16, LastEvents
  <2>3. ~RollbackDone(r).armed
    BY DEF RollbackDone
  <2>4. An = A
    BY <1>2, <2>2, <2>3, EventAppended
  <2>5. X = {r} /\ Xn = {} /\ Pn = P /\ Qn = Q /\ Sn = S
    BY <2>1, <2>2, Executing
  <2>6. r \in Vn
    BY <1>2, <2>2, OneMoreRun
  <2>7. \A s \in {r} : StatusNow(s) = "fired" /\ StatusNext(s) = "reverted"
    BY <1>4, <2>5, <2>6
  <2>8. \A s \in Ops \ {r} : StatusNext(s) = StatusNow(s)
    BY <1>3, <2>1, <2>4, <2>5
  <2>9. Switch!Move({r}, "fired", "reverted")
    BY <2>1, <2>7, <2>8, SwitchMoves
  <2> QED
    BY <2>9 DEF Switch!Next, Switch!Revert
<1>17. CASE ~(\/ KeepChanges \/ RollbackNow \/ QuitConfirmed \/ Tick \/ ConsumeEvent \/ DrainConsume
              \/ DispatchRollback \/ DrainDispatch
              \/ EngineBegin \/ EngineOperation \/ EnginePlanDone \/ EngineRollback)
  <2>1. /\ pending' = pending /\ queue' = queue /\ rollbackLane' = rollbackLane
        /\ events' = events /\ current' = current
        /\ registered' = registered /\ kept' = kept
    BY <1>17, Untouched
  <2>2. Pn = P /\ Qn = Q /\ Sn = S /\ An = A /\ Xn = X
    BY <2>1
  <2>3. \A r \in Ops : StatusNext(r) = StatusNow(r)
    BY <1>3, <2>1, <2>2
  <2>4. CASE mode' = mode
    BY <1>5, <2>3, <2>4 DEF Open
  <2>5. CASE mode = "Draining" /\ mode' \in {"ExitedClean", "ExitedUnfinished"}
    <3>1. \A r \in Ops : Status(r)' = Status(r)
      BY <2>3, StatusIs, StatusNextIs DEF StatusNow, StatusNext
    <3>2. [r \in Ops |-> Status(r)]' = [r \in Ops |-> Status(r)]
      BY <3>1
    <3>3. Open /\ ~Open'
      BY <2>5 DEF Open
    <3> QED
      BY <3>2, <3>3 DEF Switch!Next, Switch!Close
  <2> QED
    BY <1>17, <2>4, <2>5, Untouched DEF DrainComplete, DrainAbandoned
<1> QED
  BY <1>7, <1>9, <1>10, <1>11, <1>12, <1>13, <1>14, <1>15, <1>16, <1>17

(* Whatever expires, is kept, is fired by hand or is drained, and whatever happens
   to the engine: every registration goes through the life RollbackSwitch promises,
   is never dropped, and its inverse runs at most once. *)
THEOREM SwitchIsImplemented == Spec => ImplementsSwitch
<1>1. Init => Switch!Init
  <2> SUFFICES ASSUME Init PROVE Switch!Init
    OBVIOUS
  <2>1. \A r \in Ops : Status(r) = "none"
    <3>1. SessionInv /\ registered = {}
      BY SessionInit DEF Init
    <3> QED
      BY <3>1, StatusIs DEF StatusAt
  <2>2. Open = TRUE
    BY DEF Init, Open
  <2> QED
    BY <2>1, <2>2 DEF Switch!Init
<1>2. SessionInv /\ SessionInv' /\ [Next]_vars => [Switch!Next]_Switch!vars
  BY SwitchStep
<1> QED
  BY <1>1, <1>2, SessionInvariant, PTL DEF Spec, ImplementsSwitch, Switch!Spec

=============================================================================
