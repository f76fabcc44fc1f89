-------------------------- MODULE ExecutionProofs ---------------------------
(***************************************************************************)
(* That the guard of an operation acts in time and not before, and that    *)
(* what is reported of the operation is what happened, for every length of *)
(* the countdown and every firewall that the operations may meet.          *)
(***************************************************************************)
EXTENDS ExecutionProperties, FiniteSetTheorems, SequenceTheorems, TLAPS

-----------------------------------------------------------------------------
(* Operations and their plans *)

IsType(object, types) == object \in Object /\ Type(object) \in types

(* What the variants of an operation have in common, by their kind. *)
Shape(o) ==
    /\ o = Make(o.kind, o.object, o.element, o.adding, o.target)
    /\ o.adding \in BOOLEAN /\ o.target \in Targets
    /\ o.kind \in {"Edit", "Temporary", "SetTarget", "ServicePort", "Join", "Migrate", "Create",
                   "Delete", "DefaultZone", "PolicySet", "Panic", "LogDenied",
                   "RuntimeToPermanent", "Reload"}
    /\ o.kind = "Edit" =>
          /\ IsType(o.object, {"zone", "ipset", "policy"}) /\ o.element[1] # "target"
          /\ o.element[1] \in {"source", "interface"} => Type(o.object) = "zone"
    /\ o.kind = "Temporary" =>
          IsType(o.object, {"zone"}) /\ o.element[1] = "service" /\ o.adding /\ o.target = Runtime
    /\ o.kind = "SetTarget" =>
          IsType(o.object, {"zone", "policy"}) /\ o.adding /\ o.target = Permanent
    /\ o.kind = "ServicePort" => IsType(o.object, {"service"}) /\ o.target = Permanent
    /\ o.kind \in {"Join", "Migrate"} =>
          IsType(o.object, {"policy"}) /\ o.adding /\ o.target = Permanent
    /\ o.kind = "Migrate" => o.element[1] = "rich_rule"
    /\ o.kind = "Join" => o.element[1] \in {"ingress", "egress"}
    /\ o.kind \in {"Create", "Delete"} =>
          IsType(o.object, {"zone", "ipset", "policy", "service"}) /\ o.target = Permanent
    /\ o.kind = "DefaultZone" => IsType(o.object, {"zone"}) /\ o.target = Both
    /\ o.kind = "PolicySet" => o.object = Gateway
    /\ o.kind = "Panic" => o.target = Runtime
    /\ o.kind = "RuntimeToPermanent" => o.target = Permanent
    /\ o.kind \in {"Panic", "LogDenied", "RuntimeToPermanent", "Reload"} => o.object = NoObject

LEMMA OperationShape == \A o \in Operation : Shape(o)
<1> USE DEF IsType, Targets
<1>1. \A o \in OfZones : Shape(o)
  <2> DEFINE edits(zone) == {Make("Edit", zone, <<field, v>>, adding, target) :
                                field \in Flag \cup Collection, v \in Value, adding \in BOOLEAN, target \in Targets}
             temporary(zone) == {Make("Temporary", zone, <<"service", v>>, TRUE, Runtime) :
                                    v \in Value}
             targets(zone) == {Make("SetTarget", zone, <<"target", t>>, TRUE, Permanent) :
                                  t \in ZoneTarget}
             lives(zone) == {Make(kind, zone, <<>>, kind = "Create", Permanent) :
                                kind \in {"Create", "Delete"}}
             default(zone) == {Make("DefaultZone", zone, <<>>, TRUE, Both)}
  <2>1. ASSUME NEW zone \in Zones, NEW o \in edits(zone) PROVE Shape(o)
    <3>1. PICK field \in Flag \cup Collection, v \in Value, adding \in BOOLEAN, target \in Targets :
             o = Make("Edit", zone, <<field, v>>, adding, target)
      BY <2>1
    <3> QED
      BY <2>1, <3>1 DEF Shape, Make, Flag, Collection, Zones
  <2>2. ASSUME NEW zone \in Zones, NEW o \in temporary(zone) PROVE Shape(o)
    <3>1. PICK v \in Value :
             o = Make("Temporary", zone, <<"service", v>>, TRUE, Runtime)
      BY <2>2
    <3> QED
      BY <2>2, <3>1 DEF Shape, Make, Zones
  <2>3. ASSUME NEW zone \in Zones, NEW o \in targets(zone) PROVE Shape(o)
    <3>1. PICK t \in ZoneTarget :
             o = Make("SetTarget", zone, <<"target", t>>, TRUE, Permanent)
      BY <2>3
    <3> QED
      BY <2>3, <3>1 DEF Shape, Make, Zones
  <2>4. ASSUME NEW zone \in Zones, NEW o \in lives(zone) PROVE Shape(o)
    <3>1. PICK kind \in {"Create", "Delete"} :
             o = Make(kind, zone, <<>>, kind = "Create", Permanent)
      BY <2>4
    <3> QED
      BY <2>4, <3>1 DEF Shape, Make, Zones
  <2>5. ASSUME NEW zone \in Zones, NEW o \in default(zone) PROVE Shape(o)
    <3>1. Shape(Make("DefaultZone", zone, <<>>, TRUE, Both))
      BY <2>5 DEF Shape, Make, Zones
    <3> QED
      BY <3>1
  <2>6. OfZones =
        UNION {edits(zone) \cup temporary(zone) \cup targets(zone) \cup lives(zone) \cup default(zone) :
          zone \in Zones}
    BY DEF OfZones
  <2> HIDE DEF edits, temporary, targets, lives, default
  <2> QED
    BY <2>1, <2>2, <2>3, <2>4, <2>5, <2>6
<1>2. \A o \in OfIpSets : Shape(o)
  <2> DEFINE edits(set) == {Make("Edit", set, <<"entry", v>>, adding, target) :
                               v \in Value, adding \in BOOLEAN, target \in Targets}
             lives(set) == {Make(kind, set, <<>>, kind = "Create", Permanent) :
                               kind \in {"Create", "Delete"}}
  <2>1. ASSUME NEW set \in {object \in Object : Type(object) = "ipset"}, NEW o \in edits(set)
        PROVE  Shape(o)
    <3>1. PICK v \in Value, adding \in BOOLEAN, target \in Targets :
             o = Make("Edit", set, <<"entry", v>>, adding, target)
      BY <2>1
    <3> QED
      BY <2>1, <3>1 DEF Shape, Make
  <2>2. ASSUME NEW set \in {object \in Object : Type(object) = "ipset"}, NEW o \in lives(set)
        PROVE  Shape(o)
    <3>1. PICK kind \in {"Create", "Delete"} :
             o = Make(kind, set, <<>>, kind = "Create", Permanent)
      BY <2>2
    <3> QED
      BY <2>2, <3>1 DEF Shape, Make
  <2>3. OfIpSets =
        UNION {edits(set) \cup lives(set) : set \in {object \in Object :
          Type(object) = "ipset"}}
    BY DEF OfIpSets
  <2> HIDE DEF edits, lives
  <2> QED
    BY <2>1, <2>2, <2>3
<1>3. \A o \in OfServices : Shape(o)
  <2> DEFINE ports(service) == {Make("ServicePort", service, <<"port", v>>, adding, Permanent) :
                                   v \in Value, adding \in BOOLEAN}
             lives(service) == {Make(kind, service, <<>>, kind = "Create", Permanent) :
                                   kind \in {"Create", "Delete"}}
  <2>1. ASSUME NEW service \in {object \in Object : Type(object) = "service"}, NEW o \in ports(service)
        PROVE  Shape(o)
    <3>1. PICK v \in Value, adding \in BOOLEAN :
             o = Make("ServicePort", service, <<"port", v>>, adding, Permanent)
      BY <2>1
    <3> QED
      BY <2>1, <3>1 DEF Shape, Make
  <2>2. ASSUME NEW service \in {object \in Object : Type(object) = "service"}, NEW o \in lives(service)
        PROVE  Shape(o)
    <3>1. PICK kind \in {"Create", "Delete"} :
             o = Make(kind, service, <<>>, kind = "Create", Permanent)
      BY <2>2
    <3> QED
      BY <2>2, <3>1 DEF Shape, Make
  <2>3. OfServices =
        UNION {ports(service) \cup lives(service) : service \in {object \in Object :
          Type(object) = "service"}}
    BY DEF OfServices
  <2> HIDE DEF ports, lives
  <2> QED
    BY <2>1, <2>2, <2>3
<1>4. \A o \in OfPolicies : Shape(o)
  <2> DEFINE free == {object \in Object : Type(object) = "policy"} \ Member
  <2> DEFINE edits(policy) == {Make("Edit", policy, <<"service", v>>, adding, target) :
                                  v \in Value, adding \in BOOLEAN, target \in Targets}
             targets(policy) == {Make("SetTarget", policy, <<"target", t>>, TRUE, Permanent) :
                                    t \in {"CONTINUE", "DROP"}}
             joins(policy) == {Make("Join", policy, e, TRUE, Permanent) :
                                  e \in {"ingress", "egress"} \X Zones}
             migrations(policy) == {Make("Migrate", policy, <<"rich_rule", v>>, TRUE, Permanent) :
                                       v \in Value}
             lives(policy) == {Make(kind, policy, <<>>, kind = "Create", Permanent) :
                                  kind \in {"Create", "Delete"}}
  <2>1. ASSUME NEW policy \in free, NEW o \in edits(policy) PROVE Shape(o)
    <3>1. PICK v \in Value, adding \in BOOLEAN, target \in Targets :
             o = Make("Edit", policy, <<"service", v>>, adding, target)
      BY <2>1
    <3> QED
      BY <2>1, <3>1 DEF Shape, Make
  <2>2. ASSUME NEW policy \in free, NEW o \in targets(policy) PROVE Shape(o)
    <3>1. PICK t \in {"CONTINUE", "DROP"} :
             o = Make("SetTarget", policy, <<"target", t>>, TRUE, Permanent)
      BY <2>2
    <3> QED
      BY <2>2, <3>1 DEF Shape, Make
  <2>3. ASSUME NEW policy \in free, NEW o \in joins(policy) PROVE Shape(o)
    <3>1. PICK e \in {"ingress", "egress"} \X Zones :
             o = Make("Join", policy, e, TRUE, Permanent)
      BY <2>3
    <3> QED
      BY <2>3, <3>1 DEF Shape, Make
  <2>4. ASSUME NEW policy \in free, NEW o \in migrations(policy) PROVE Shape(o)
    <3>1. PICK v \in Value :
             o = Make("Migrate", policy, <<"rich_rule", v>>, TRUE, Permanent)
      BY <2>4
    <3> QED
      BY <2>4, <3>1 DEF Shape, Make
  <2>5. ASSUME NEW policy \in free, NEW o \in lives(policy) PROVE Shape(o)
    <3>1. PICK kind \in {"Create", "Delete"} :
             o = Make(kind, policy, <<>>, kind = "Create", Permanent)
      BY <2>5
    <3> QED
      BY <2>5, <3>1 DEF Shape, Make
  <2> DEFINE sets == {Make("PolicySet", Gateway, <<>>, adding, target) :
                        adding \in BOOLEAN, target \in Targets}
  <2>6. \A o \in sets : Shape(o)
    <3>1. ASSUME NEW adding \in BOOLEAN, NEW target \in Targets
          PROVE  Shape(Make("PolicySet", Gateway, <<>>, adding, target))
      BY DEF Shape, Make
    <3> QED
      BY <3>1
  <2>7. OfPolicies =
        (UNION {edits(policy) \cup targets(policy) \cup joins(policy) \cup migrations(policy) \cup lives(policy) :
          policy \in free}) \cup sets
    BY DEF OfPolicies
  <2> HIDE DEF free, edits, targets, joins, migrations, lives, sets
  <2> SUFFICES ASSUME NEW o \in OfPolicies PROVE Shape(o)
    OBVIOUS
  <2>8. CASE o \in sets
    BY <2>6, <2>8
  <2>9. CASE o \notin sets
    <3>1. PICK policy \in free :
             o \in edits(policy) \cup targets(policy) \cup joins(policy) \cup migrations(policy) \cup lives(policy)
      BY <2>7, <2>9
    <3> QED
      BY <3>1, <2>1, <2>2, <2>3, <2>4, <2>5
  <2> QED
    BY <2>8, <2>9
<1>5. \A o \in Global : Shape(o)
  <2>1. ASSUME NEW adding \in BOOLEAN PROVE Shape(Make("Panic", NoObject, <<>>, adding, Runtime))
    BY DEF Shape, Make
  <2>2. ASSUME NEW v PROVE Shape(Make("LogDenied", NoObject, v, TRUE, Both))
    BY DEF Shape, Make
  <2>3. /\ Shape(Make("RuntimeToPermanent", NoObject, <<>>, TRUE, Permanent))
        /\ Shape(Make("Reload", NoObject, <<>>, TRUE, Both))
    BY DEF Shape, Make
  <2> QED
    BY <2>1, <2>2, <2>3 DEF Global
<1> QED
  BY <1>1, <1>2, <1>3, <1>4, <1>5 DEF Operation

-----------------------------------------------------------------------------
(* Plans, inverses and narrowing *)

LEMMA ShortSequences ==
    ASSUME NEW S, NEW r \in S, NEW p \in S
    PROVE  /\ <<r>> \in Seq(S) /\ Len(<<r>>) = 1 /\ <<r>>[1] = r
           /\ <<r, p>> \in Seq(S) /\ Len(<<r, p>>) = 2 /\ <<r, p>>[1] = r /\ <<r, p>>[2] = p
           /\ <<r>> \o <<p>> = <<r, p>>
<1>1. /\ <<r>> \in Seq(S) /\ Len(<<r>>) = 1 /\ <<r>>[1] = r
      /\ <<p>> \in Seq(S) /\ Len(<<p>>) = 1 /\ <<p>>[1] = p
  OBVIOUS
<1>2. /\ <<r, p>> \in Seq(S) /\ Len(<<r, p>>) = 2 /\ <<r, p>>[1] = r /\ <<r, p>>[2] = p
  OBVIOUS
<1> DEFINE one == <<r>>
           other == <<p>>
           both == <<r, p>>
<1> HIDE DEF one, other, both
<1>3. /\ one \in Seq(S) /\ Len(one) = 1 /\ one[1] = r /\ other \in Seq(S) /\ Len(other) = 1
      /\ other[1] = p /\ both \in Seq(S) /\ Len(both) = 2 /\ both[1] = r /\ both[2] = p
  BY <1>1, <1>2 DEF one, other, both
<1>4. /\ one \o other \in Seq(S) /\ Len(one \o other) = 2
      /\ \A i \in 1..2 : (one \o other)[i] = both[i]
  BY <1>3, ConcatProperties
<1>5. one \o other = both
  BY <1>3, <1>4, SeqEqual
<1> QED
  BY <1>1, <1>2, <1>5 DEF one, other, both

(* An operation on scopes has a command for each of them, the runtime first. *)
LEMMA ScopedSteps ==
    ASSUME NEW o, Shape(o)
    PROVE  /\ o.target = Both => Scoped(o) = <<Step("runtime", o), Step("permanent", o)>>
           /\ o.target = Runtime => Scoped(o) = <<Step("runtime", o)>>
           /\ o.target = Permanent => Scoped(o) = <<Step("permanent", o)>>
           /\ o.target \in {Both, Runtime, Permanent}
<1> DEFINE r == Step("runtime", o)
           p == Step("permanent", o)
           first == IF "runtime" \in o.target THEN <<r>> ELSE <<>>
           second == IF "permanent" \in o.target THEN <<p>> ELSE <<>>
<1>1. Scoped(o) = first \o second
  BY DEF Scoped
<1>2. o.target \in {Both, Runtime, Permanent}
  BY DEF Shape, Targets
<1>3. /\ o.target = Both => first = <<r>> /\ second = <<p>>
      /\ o.target = Runtime => first = <<r>> /\ second = <<>>
      /\ o.target = Permanent => first = <<>> /\ second = <<p>>
  BY DEF Both, Runtime, Permanent
<1> HIDE DEF r, p, first, second
<1>4. <<r>> \o <<p>> = <<r, p>>
  <2>1. r \in {r, p} /\ p \in {r, p}
    OBVIOUS
  <2> QED
    BY <2>1, ShortSequences
<1>5. <<r>> \o <<>> = <<r>>
  <2>1. <<r>> \in Seq({r})
    OBVIOUS
  <2> QED
    BY <2>1, ConcatEmptySeq
<1>6. <<>> \o <<p>> = <<p>>
  <2>1. <<p>> \in Seq({p})
    OBVIOUS
  <2> QED
    BY <2>1, ConcatEmptySeq
<1> QED
  BY <1>1, <1>2, <1>3, <1>4, <1>5, <1>6 DEF r, p

Guardable == {"Edit", "PolicySet", "Panic"}

(* What is guarded has at most a command for each scope. *)
LEMMA GuardedPlan ==
    ASSUME NEW o, Shape(o), o.kind \in Guardable, NEW m
    PROVE  /\ PlanIn(m, o) \in Seq({Step(scope, o) : scope \in Both})
           /\ Len(PlanIn(m, o)) <= 2
<1> DEFINE r == Step("runtime", o)
           p == Step("permanent", o)
           S == {Step(scope, o) : scope \in Both}
<1>1. Plan(o) = Scoped(o)
  BY DEF Plan, Guardable
<1>2. r \in S /\ p \in S
  BY DEF Both, Runtime, Permanent
<1>3. Plan(o) \in {<<r>>, <<p>>, <<r, p>>}
  BY <1>1, ScopedSteps
<1>4. OfflinePlan(o) = <<>> \/ OfflinePlan(o) = <<Last(Plan(o))>>
  BY DEF OfflinePlan
<1> HIDE DEF r, p, S
<1>5. Plan(o) \in Seq(S) /\ (Len(Plan(o)) = 1 \/ Len(Plan(o)) = 2)
  <2>1. CASE Plan(o) = <<r>>
    BY <1>2, <2>1, ShortSequences
  <2>2. CASE Plan(o) = <<p>>
    BY <1>2, <2>2, ShortSequences
  <2>3. CASE Plan(o) = <<r, p>>
    BY <1>2, <2>3, ShortSequences
  <2> QED
    BY <1>3, <2>1, <2>2, <2>3
<1>6. Last(Plan(o)) \in S
  BY <1>5 DEF Last
<1>7. PlanIn(m, o) \in Seq(S) /\ Len(PlanIn(m, o)) <= 2
  <2> DEFINE last == Last(Plan(o))
  <2>1. <<last>> \in Seq(S) /\ Len(<<last>>) = 1
    BY <1>6, ShortSequences
  <2>2. <<>> \in Seq(S) /\ Len(<<>>) = 0
    OBVIOUS
  <2>3. PlanIn(m, o) = <<>> \/ PlanIn(m, o) = <<last>> \/ PlanIn(m, o) = Plan(o)
    BY <1>4 DEF PlanIn
  <2> DEFINE alone == <<last>>
             none == <<>>
             plan == PlanIn(m, o)
  <2> HIDE DEF last, alone, none, plan
  <2>4. /\ alone \in Seq(S) /\ Len(alone) = 1 /\ none \in Seq(S) /\ Len(none) = 0
        /\ plan = none \/ plan = alone \/ plan = Plan(o)
    BY <2>1, <2>2, <2>3 DEF alone, none, plan
  <2>5. plan \in Seq(S) /\ Len(plan) <= 2
    <3>1. CASE plan = none
      BY <2>4, <3>1
    <3>2. CASE plan = alone
      BY <2>4, <3>2
    <3>3. CASE plan = Plan(o)
      BY <1>5, <3>3
    <3> QED
      BY <2>4, <3>1, <3>2, <3>3
  <2> QED
    BY <2>5 DEF plan
<1> QED
  BY <1>7 DEF S

LEMMA GuardedKinds ==
    ASSUME NEW o, Risky(o), TargetInverse(o) # {} PROVE o.kind \in Guardable
  BY DEF Risky, TargetInverse, InverseOp, Guardable

(* The inverse of a guarded operation is the opposite one, in the same scopes. *)
LEMMA GuardedInverse ==
    ASSUME NEW o, Shape(o), o.kind \in Guardable, NEW inverse \in TargetInverse(o)
    PROVE  /\ inverse = [o EXCEPT !.adding = ~@] /\ inverse # o
           /\ Shape(inverse) /\ inverse.kind = o.kind /\ inverse.target = o.target
           /\ inverse.object = o.object /\ inverse.element = o.element
           /\ inverse.adding = ~o.adding
<1>1. o = [kind |-> o.kind, object |-> o.object, element |-> o.element, adding |-> o.adding,
           target |-> o.target]
  BY DEF Shape, Make
<1>2. inverse = [o EXCEPT !.adding = ~@]
  <2>1. CASE o.kind \in {"Edit", "PolicySet"}
    <3>1. inverse = [o EXCEPT !.adding = ~@, !.target = o.target]
      BY <2>1 DEF TargetInverse, InverseOp
    <3> QED
      BY <1>1, <3>1
  <2>2. CASE o.kind = "Panic"
    BY <2>2 DEF TargetInverse, InverseOp
  <2> QED
    BY <2>1, <2>2 DEF Guardable
<1>3. /\ inverse.kind = o.kind /\ inverse.object = o.object /\ inverse.element = o.element
      /\ inverse.target = o.target /\ inverse.adding = ~o.adding
      /\ inverse = [kind |-> inverse.kind, object |-> inverse.object, element |-> inverse.element,
                    adding |-> inverse.adding, target |-> inverse.target]
  BY <1>1, <1>2
<1>4. o.adding \in BOOLEAN
  BY DEF Shape
<1>5. inverse # o
  BY <1>3, <1>4
<1>6. Shape(inverse)
  BY <1>3, <1>4 DEF Shape, Make, Guardable
<1> QED
  BY <1>2, <1>3, <1>5, <1>6

(* Narrowing takes a scope away, and nothing else. *)
LEMMA NarrowedShape ==
    ASSUME NEW o, Shape(o), NEW s
    PROVE  /\ Shape(NarrowedFor(o, s))
           /\ NarrowedFor(o, s).kind = o.kind /\ NarrowedFor(o, s).object = o.object
<1> DEFINE needing ==
            {scope \in Both :
               IF o.kind = "PolicySet" THEN SetMatches(o.adding, s, scope) = {FALSE}
               ELSE Exists(o, s, scope) /\ Present(o, s, scope) # o.adding}
<1>1. NarrowedFor(o, s) = o \/
      /\ NarrowedFor(o, s) = [o EXCEPT !.target = needing]
      /\ o.kind \in {"Edit", "PolicySet"} /\ Cardinality(needing) = 1
  BY DEF NarrowedFor
<1>2. needing \subseteq {"runtime", "permanent"}
  BY DEF Both, Runtime, Permanent
<1> HIDE DEF needing
<1>3. CASE NarrowedFor(o, s) = o
  BY <1>3
<1>4. CASE NarrowedFor(o, s) = [o EXCEPT !.target = needing]
           /\ o.kind \in {"Edit", "PolicySet"} /\ Cardinality(needing) = 1
  <2>1. needing \in Targets
    <3>1. IsFiniteSet({"runtime", "permanent"})
      <4>1. IsFiniteSet({"runtime"})
        BY FS_Singleton
      <4>2. {"runtime", "permanent"} = {"runtime"} \cup {"permanent"}
        OBVIOUS
      <4> QED
        BY <4>1, <4>2, FS_AddElement
    <3>2. IsFiniteSet(needing)
      BY <1>2, <3>1, FS_Subset
    <3>3. PICK x : needing = {x}
      BY <1>4, <3>2, FS_Singleton
    <3> QED
      BY <1>2, <3>3 DEF Targets, Runtime, Permanent
  <2> DEFINE n == NarrowedFor(o, s)
  <2>2. o = [kind |-> o.kind, object |-> o.object, element |-> o.element, adding |-> o.adding,
             target |-> o.target]
    BY DEF Shape, Make
  <2>3. /\ n.kind = o.kind /\ n.object = o.object /\ n.element = o.element /\ n.adding = o.adding
        /\ n.target = needing
        /\ n = [kind |-> n.kind, object |-> n.object, element |-> n.element,
                adding |-> n.adding, target |-> n.target]
    BY <1>4, <2>2
  <2> HIDE DEF n
  <2>4. Shape(n)
    BY <1>4, <2>1, <2>3 DEF Shape, Make
  <2> QED
    BY <2>3, <2>4 DEF n
<1> QED
  BY <1>1, <1>3, <1>4

-----------------------------------------------------------------------------
(* The guard acts in time *)

Clocks ==
    /\ stage \in {"Asked", "Rejected", "Accepted", "Arming", "Applying", "Countdown", "Waiting",
                 "Reverting", "Disarming", "Done", "Crashed"}
    /\ fuse \in Nat /\ countdown \in Nat /\ patience \in {0, 1}
    /\ Shape(op)
    /\ unit \in {"None", "Armed", "Stopped", "Fired"}

(* Where the engine is tells whether there is a guard and who knows of it. *)
Guarded ==
    /\ stage \in {"Asked", "Rejected", "Accepted"} => unit = "None"
    /\ unit # "None" => NeedsGuard
    /\ stage \in {"Arming", "Countdown", "Waiting", "Reverting"} => NeedsGuard
    /\ unit = "Armed" /\ stage \notin {"Arming", "Crashed"} => known \/ warned
    /\ unit = "Armed" /\ stage = "Done" => warned
    /\ unit = "Armed" /\ stage = "Applying" =>
          todo \in Seq({Step(scope, op) : scope \in Both})

(* The fuse outlasts what is still to come: one timeout for each command, and
   the countdown. *)
Outlasts ==
    unit = "Armed" =>
        /\ stage = "Arming" => fuse >= Delay - 1 + patience
        /\ stage = "Applying" => fuse >= RollbackTicks + patience
        /\ stage = "Applying" => fuse >= RollbackTicks + patience + Len(todo) - 1
        /\ stage = "Countdown" => fuse >= countdown

TimelyInv == Clocks /\ Guarded /\ Outlasts

LEMMA TimelyInit == Init => TimelyInv
<1> SUFFICES ASSUME Init PROVE TimelyInv
  OBVIOUS
<1>1. Shape(op)
  BY OperationShape DEF Init
<1> QED
  BY <1>1 DEF Init, TimelyInv, Clocks, Guarded, Outlasts

(* Steps of the engine that leave the guard alone and end where there is no bound. *)
LEMMA DispatchTimely ==
    ASSUME TimelyInv, Dispatch \/ Reject PROVE TimelyInv'
<1> USE DEF TimelyInv, guard, clock, person
<1>1. CASE Dispatch
  <2>1. Shape(op')
    BY <1>1, NarrowedShape DEF Dispatch, Clocks
  <2>2. stage' = "Accepted" /\ unit' = "None"
    BY <1>1 DEF Dispatch, Guarded
  <2> QED
    BY <1>1, <2>1, <2>2 DEF Dispatch, Clocks, Guarded, Outlasts
<1>2. CASE Reject
  BY <1>2 DEF Reject, Clocks, Guarded, Outlasts
<1> QED
  BY <1>1, <1>2

LEMMA ArmingTimely ==
    ASSUME TimelyInv, GraceTicks >= 3,
           Unguarded \/ WatchdogUnavailable \/ RunSystemd \/ UnitStarts \/ ArmAnswers
    PROVE  TimelyInv'
<1> USE DEF TimelyInv, guard, clock, person, control
<1>0. RollbackTicks \in Nat /\ GraceTicks \in Nat
  BY ExecutionAssumption DEF ExecutionAssumption
<1>1. CASE Unguarded \/ WatchdogUnavailable
  <2>1. stage' = "Applying" /\ unit' = "None" /\ patience' = 1 /\ op' = op
    BY <1>1 DEF Unguarded, WatchdogUnavailable, Commands, Begin, Guarded
  <2> QED
    BY <1>1, <2>1 DEF Unguarded, WatchdogUnavailable, Clocks, Guarded, Outlasts
<1>2. CASE RunSystemd
  <2>1. NeedsGuard'
    BY <1>2 DEF RunSystemd, NeedsGuard
  <2> QED
    BY <1>2, <2>1 DEF RunSystemd, Begin, Clocks, Guarded, Outlasts
<1>3. CASE UnitStarts
  <2>1. NeedsGuard' /\ RollbackTicks > 0
    BY <1>3 DEF UnitStarts, Guarded, NeedsGuard
  <2> QED
    BY <1>0, <1>3, <2>1 DEF UnitStarts, Delay, Clocks, Guarded, Outlasts
<1>4. CASE ArmAnswers
  <2>1. /\ op.kind \in Guardable
        /\ todo' = PlanIn(mode, op) /\ stage' = "Applying" /\ patience' = 1
        /\ op' = op /\ unit' = unit /\ fuse' = fuse /\ countdown' = countdown
        /\ known' \/ warned'
    BY <1>4, GuardedKinds DEF ArmAnswers, Guarded, NeedsGuard, Commands, Begin
  <2>2. todo' \in Seq({Step(scope, op') : scope \in Both}) /\ Len(todo') <= 2
    BY <2>1, GuardedPlan DEF Clocks
  <2>3. Len(todo') \in Nat
    BY <2>2
  <2>4. unit = "Armed" => fuse >= RollbackTicks + GraceTicks - 1
    BY <1>0, <1>4 DEF ArmAnswers, Outlasts, Delay, Clocks
  <2>5. Outlasts'
    BY <1>0, <2>1, <2>2, <2>3, <2>4 DEF Outlasts, Clocks
  <2>6. NeedsGuard' = NeedsGuard
    BY <2>1 DEF NeedsGuard
  <2> QED
    BY <1>4, <2>1, <2>2, <2>5, <2>6 DEF Clocks, Guarded
<1> QED
  BY <1>1, <1>2, <1>3, <1>4

(* The commands come to an end. *)
LEMMA ConcludedTimely ==
    ASSUME TimelyInv, NEW result, stage \in {"Applying", "Reverting"}, Concluded(result),
           UNCHANGED <<op, unit, fuse, known>>
    PROVE  TimelyInv'
<1> USE DEF TimelyInv
<1>0. RollbackTicks \in Nat
  BY ExecutionAssumption DEF ExecutionAssumption
<1>1. NeedsGuard' = NeedsGuard
  BY DEF NeedsGuard
<1>2. CASE stage = "Reverting"
  <2>1. /\ stage' \in {"Disarming", "Done"} /\ countdown' = countdown
        /\ patience' \in {1, patience}
        /\ warned => warned'
        /\ stage' = "Done" => (known => warned')
    BY <1>2 DEF Concluded, Begin
  <2>2. Clocks'
    BY <2>1 DEF Clocks
  <2>3. Guarded'
    BY <1>1, <1>2, <2>1 DEF Guarded
  <2> QED
    BY <2>1, <2>2, <2>3 DEF Outlasts
<1>3. CASE stage = "Applying"
  <2>1. CASE NeedsGuard /\ result # "Failed"
    <3>1. /\ stage' = "Countdown" /\ countdown' = RollbackTicks /\ patience' = patience
          /\ warned' = warned
      BY <1>3, <2>1 DEF Concluded
    <3>2. unit = "Armed" => fuse >= RollbackTicks
      BY <1>0, <1>3 DEF Outlasts, Clocks
    <3> QED
      BY <1>0, <1>1, <1>3, <2>1, <3>1, <3>2 DEF Clocks, Guarded, Outlasts
  <2>2. CASE ~(NeedsGuard /\ result # "Failed")
    <3>1. /\ stage' \in {"Disarming", "Done"} /\ countdown' = countdown
          /\ patience' \in {1, patience} /\ warned' = warned
          /\ stage' = "Done" => ~known
      BY <1>3, <2>2 DEF Concluded, Begin
    <3> QED
      BY <1>1, <1>3, <3>1 DEF Clocks, Guarded, Outlasts
  <2> QED
    BY <2>1, <2>2
<1> QED
  BY <1>2, <1>3

LEMMA CommandsTimely ==
    ASSUME TimelyInv, CommandSucceeds \/ CommandFails \/ CommandTimesOut \/ NothingToRun
    PROVE  TimelyInv'
<1> USE DEF guard, fixed
<1>1. CASE CommandSucceeds
  <2>1. CASE Len(todo) > 1
    <3>1. /\ stage' = stage /\ countdown' = countdown /\ warned' = warned /\ patience' = 1
          /\ op' = op /\ unit' = unit /\ fuse' = fuse /\ known' = known
          /\ todo' = Tail(todo) /\ todo # <<>>
      BY <1>1, <2>1 DEF CommandSucceeds, Running
    <3>2. NeedsGuard' = NeedsGuard
      BY <3>1 DEF NeedsGuard
    <3>3. unit = "Armed" /\ stage = "Applying" =>
            /\ todo' \in Seq({Step(scope, op') : scope \in Both})
            /\ Len(todo') = Len(todo) - 1 /\ Len(todo) \in Nat
      BY <3>1 DEF TimelyInv, Guarded
    <3>4. Clocks' /\ Guarded'
      BY <3>1, <3>2, <3>3 DEF TimelyInv, Clocks, Guarded
    <3>5. RollbackTicks \in Nat
      BY ExecutionAssumption DEF ExecutionAssumption
    <3>6. Outlasts'
      <4>1. stage \in {"Applying", "Reverting"}
        BY <1>1 DEF CommandSucceeds, Running
      <4>2. CASE unit = "Armed" /\ stage = "Applying"
        <5>1. fuse >= RollbackTicks + patience + Len(todo) - 1 /\ patience \in {0, 1} /\ fuse \in Nat
          BY <4>2 DEF TimelyInv, Clocks, Outlasts
        <5>2. fuse' >= RollbackTicks + 1 /\ fuse' >= RollbackTicks + 1 + Len(todo') - 1
          BY <2>1, <3>1, <3>3, <3>5, <4>2, <5>1
        <5> QED
          BY <3>1, <4>2, <5>2 DEF Outlasts
      <4> QED
        BY <3>1, <4>1, <4>2 DEF Outlasts
    <3> QED
      BY <3>4, <3>6 DEF TimelyInv
  <2>2. CASE ~(Len(todo) > 1)
    BY <1>1, <2>2, ConcludedTimely DEF CommandSucceeds, Running
  <2> QED
    BY <2>1, <2>2
<1>2. CASE CommandFails
  BY <1>2, ConcludedTimely DEF CommandFails, Running
<1>3. CASE CommandTimesOut
  BY <1>3, ConcludedTimely DEF CommandTimesOut, Running
<1>4. CASE NothingToRun
  BY <1>4, ConcludedTimely DEF NothingToRun
<1> QED
  BY <1>1, <1>2, <1>3, <1>4

LEMMA DecisionTimely ==
    ASSUME TimelyInv, Keep \/ FireRollback \/ ApplyRollback \/ Disarm PROVE TimelyInv'
<1> USE DEF TimelyInv, guard, clock, person, fixed
<1>0. op' = op /\ NeedsGuard' = NeedsGuard
  BY DEF Keep, FireRollback, ApplyRollback, Disarm, NeedsGuard
<1>1. CASE Keep
  BY <1>0, <1>1 DEF Keep, Begin, Clocks, Guarded, Outlasts
<1>2. CASE FireRollback
  BY <1>0, <1>2 DEF FireRollback, Clocks, Guarded, Outlasts
<1>3. CASE ApplyRollback
  <2>1. NeedsGuard /\ op.kind \in Guardable
    BY <1>3, GuardedKinds DEF ApplyRollback, Guarded, NeedsGuard
  <2>2. stage' = "Reverting" /\ patience' = 1
    BY <1>3, <2>1, GuardedInverse DEF ApplyRollback, Commands, Begin, Clocks
  <2> QED
    BY <1>0, <1>3, <2>1, <2>2 DEF ApplyRollback, Clocks, Guarded, Outlasts
<1>4. CASE Disarm
  BY <1>0, <1>4 DEF Disarm, Clocks, Guarded, Outlasts
<1> QED
  BY <1>1, <1>2, <1>3, <1>4

LEMMA TimeTimely ==
    ASSUME TimelyInv, Crash \/ Tick \/ TickUnwatched \/ WatchdogFires PROVE TimelyInv'
<1> USE DEF TimelyInv, guard, clock, person, fixed, control
<1>0. /\ op' = op /\ NeedsGuard' = NeedsGuard /\ todo' = todo
      /\ known' = known /\ warned' = warned
  BY DEF Crash, Tick, TickUnwatched, WatchdogFires, NeedsGuard
<1>1. CASE Crash
  BY <1>0, <1>1 DEF Crash, Clocks, Guarded, Outlasts
<1>2. CASE Tick
  <2>1. /\ stage' = stage /\ unit' = unit /\ unit = "Armed" /\ fuse > 0 /\ fuse' = fuse - 1
        /\ stage \in {"Arming", "Applying"} => patience = 1 /\ patience' = 0
        /\ patience' \in {0, 1}
        /\ stage = "Countdown" => countdown > 0 /\ countdown' = countdown - 1
        /\ stage # "Countdown" => countdown' = countdown
    BY <1>2 DEF Tick, Down, Clocks
  <2>2. Clocks' /\ Guarded'
    BY <1>0, <2>1 DEF Clocks, Guarded
  <2>3. RollbackTicks \in Nat /\ GraceTicks \in Nat
    BY ExecutionAssumption DEF ExecutionAssumption
  <2>4. stage = "Applying" => Len(todo) \in Nat
    BY <2>1 DEF Guarded
  <2>5. Outlasts'
    <3>1. CASE stage = "Arming"
      BY <1>0, <2>1, <2>3, <3>1 DEF Clocks, Outlasts, Delay
    <3>2. CASE stage = "Applying"
      <4>1. /\ fuse >= RollbackTicks + patience + Len(todo) - 1 /\ fuse >= RollbackTicks + patience
            /\ patience = 1 /\ patience' = 0 /\ fuse \in Nat
        BY <2>1, <3>2 DEF Clocks, Outlasts
      <4>2. fuse' >= RollbackTicks + patience' + Len(todo') - 1 /\ fuse' >= RollbackTicks + patience'
        BY <1>0, <2>1, <2>3, <2>4, <3>2, <4>1
      <4> QED
        BY <2>1, <3>2, <4>2 DEF Outlasts
    <3>3. CASE stage = "Countdown"
      BY <1>0, <2>1, <3>3 DEF Clocks, Outlasts
    <3> QED
      BY <2>1, <3>1, <3>2, <3>3 DEF Outlasts
  <2> QED
    BY <2>2, <2>5
<1>3. CASE TickUnwatched
  BY <1>0, <1>3 DEF TickUnwatched, Clocks, Guarded, Outlasts
<1>4. CASE WatchdogFires
  BY <1>0, <1>4 DEF WatchdogFires, Clocks, Guarded, Outlasts
<1> QED
  BY <1>1, <1>2, <1>3, <1>4

LEMMA TimelyNext == ASSUME GraceTicks >= 3, TimelyInv, [Next]_vars PROVE TimelyInv'
<1>1. CASE UNCHANGED vars
  BY <1>1 DEF vars, control, guard, clock, person, TimelyInv, Clocks, Guarded, Outlasts, NeedsGuard
<1> QED
  BY <1>1, DispatchTimely, ArmingTimely, CommandsTimely, DecisionTimely, TimeTimely DEF Next

(* When the fuse has burnt down, the change is not being made and nobody may decide. *)
LEMMA FiresLate ==
    ASSUME TimelyInv, GraceTicks >= 3, unit = "Armed", fuse = 0
    PROVE  /\ stage \notin {"Asked", "Rejected", "Accepted", "Arming", "Applying"}
           /\ stage = "Countdown" => countdown = 0
           /\ stage = "Done" => warned
<1>1. RollbackTicks \in Nat /\ RollbackTicks > 0 /\ GraceTicks \in Nat
  BY ExecutionAssumption DEF ExecutionAssumption, TimelyInv, Guarded, NeedsGuard
<1>2. countdown \in Nat /\ patience \in {0, 1}
  BY DEF TimelyInv, Clocks
<1>3. stage # "Arming" /\ stage # "Applying"
  BY <1>1, <1>2 DEF TimelyInv, Outlasts, Delay
<1>4. stage = "Countdown" => countdown = 0
  BY <1>2 DEF TimelyInv, Outlasts
<1>5. stage \notin {"Asked", "Rejected", "Accepted"} /\ (stage = "Done" => warned)
  BY DEF TimelyInv, Guarded
<1> QED
  BY <1>3, <1>4, <1>5

LEMMA FiresInTime ==
    ASSUME TimelyInv, [Next]_vars, unit' = "Fired", unit # "Fired", GraceTicks >= 3
    PROVE  \/ warned \/ stage \in {"Crashed", "Waiting", "Reverting", "Disarming"}
           \/ stage = "Countdown" /\ countdown = 0
<1>1. WatchdogFires
  <2>1. unit' # unit
    OBVIOUS
  <2>2. CASE UNCHANGED vars
    BY <2>1, <2>2 DEF vars, guard
  <2>3. ~Dispatch /\ ~Reject
    BY <2>1 DEF Dispatch, Reject, guard
  <2>4. ~Unguarded /\ ~WatchdogUnavailable /\ ~RunSystemd /\ ~UnitStarts /\ ~ArmAnswers
    BY <2>1 DEF Unguarded, WatchdogUnavailable, RunSystemd, UnitStarts, ArmAnswers, guard
  <2>5. ~CommandSucceeds /\ ~CommandFails /\ ~CommandTimesOut /\ ~NothingToRun
    BY <2>1 DEF CommandSucceeds, CommandFails, CommandTimesOut, NothingToRun, guard
  <2>6. ~Keep /\ ~FireRollback /\ ~ApplyRollback /\ ~Disarm
    BY <2>1 DEF Keep, FireRollback, ApplyRollback, Disarm, guard
  <2>7. ~Crash /\ ~Tick /\ ~TickUnwatched
    BY <2>1 DEF Crash, Tick, TickUnwatched, guard
  <2> QED
    BY <2>2, <2>3, <2>4, <2>5, <2>6, <2>7 DEF Next
<1>2. unit = "Armed" /\ fuse = 0
  BY <1>1 DEF WatchdogFires
<1> QED
  BY <1>2, FiresLate DEF TimelyInv, Clocks

LEMMA TimelyInvariant == ASSUME GraceTicks >= 3 PROVE Spec => []TimelyInv
<1>1. TimelyInv /\ [Next]_vars => TimelyInv'
  BY TimelyNext
<1> QED
  BY <1>1, TimelyInit, PTL DEF Spec

(* The guard neither acts while the change is being made or while somebody still
   may decide, nor behind the back of who kept it: for every length of the
   countdown, provided that the watchdog waits at least three command timeouts
   longer (WATCHDOG_GRACE is 15 s, and DEFAULT_TIMEOUT of a command 5 s), and every
   firewall that the operations may meet. *)
THEOREM GuardActsInTime == ASSUME GraceTicks >= 3 PROVE Spec => NoUnexpectedRevert
<1>1. TimelyInv /\ [Next]_vars =>
        [unit' = "Fired" /\ unit # "Fired" =>
           \/ warned \/ stage \in {"Crashed", "Waiting", "Reverting", "Disarming"}
           \/ stage = "Countdown" /\ countdown = 0]_vars
  BY FiresInTime
<1> QED
  BY <1>1, TimelyInvariant, PTL DEF Spec, NoUnexpectedRevert

-----------------------------------------------------------------------------
(* What was observed *)

(* Offline the permanent configuration stands for the one that would run. *)
Readable == IsFirewall(firewall) /\ (mode = "Offline" => firewall.runtime = firewall.permanent)

LEMMA SnapshotFields ==
    ASSUME NEW fw, NEW unknown,
           DOMAIN fw = {"runtime", "permanent", "default", "panic", "logDenied", "direct", "policySets"}
    PROVE  /\ Snapshot(fw, unknown).incomplete = unknown
           /\ \A scope \in Both : Snapshot(fw, unknown)[scope] = fw[scope]
           /\ \A field \in DOMAIN fw : Snapshot(fw, unknown)[field] = fw[field]
  BY DEF Snapshot, Both, Runtime, Permanent

LEMMA ObservedFields ==
    ASSUME Readable
    PROVE  /\ Observed.incomplete = Incomplete
           /\ \A scope \in Both : Observed[scope] = Seen(firewall[scope], scope)
           /\ Observed.direct = IF <<"DirectRules", "runtime">> \in Incomplete THEN {} ELSE firewall.direct
           /\ Observed.default = firewall.default /\ Observed.panic = firewall.panic
           /\ Observed.logDenied = firewall.logDenied /\ Observed.policySets = firewall.policySets
<1>1. DOMAIN firewall =
        {"runtime", "permanent", "default", "panic", "logDenied", "direct", "policySets"}
  BY DEF Readable, IsFirewall
<1> DEFINE running == Seen(IF mode = "Offline" THEN firewall.permanent ELSE firewall.runtime, "runtime")
           saved == Seen(firewall.permanent, "permanent")
           rules == IF <<"DirectRules", "runtime">> \in Incomplete THEN {} ELSE firewall.direct
           read == [firewall EXCEPT !.runtime = running, !.permanent = saved, !.direct = rules]
<1>2. Observed = Snapshot(read, Incomplete)
  BY <1>1 DEF Observed
<1>3. running = Seen(firewall.runtime, "runtime")
  BY DEF Readable
<1> HIDE DEF running, saved, rules
<1>4. /\ DOMAIN read = DOMAIN firewall
      /\ read.runtime = running /\ read.permanent = saved /\ read.direct = rules
      /\ read.default = firewall.default /\ read.panic = firewall.panic
      /\ read.logDenied = firewall.logDenied /\ read.policySets = firewall.policySets
  BY <1>1
<1> HIDE DEF read
<1>5. /\ Observed.incomplete = Incomplete
      /\ \A field \in DOMAIN read : Observed[field] = read[field]
  BY <1>1, <1>2, <1>4, SnapshotFields
<1>6. /\ Observed.incomplete = Incomplete /\ Observed.runtime = running /\ Observed.permanent = saved
      /\ Observed.direct = rules
      /\ Observed.default = firewall.default /\ Observed.panic = firewall.panic
      /\ Observed.logDenied = firewall.logDenied /\ Observed.policySets = firewall.policySets
  BY <1>1, <1>4, <1>5
<1> QED
  BY <1>3, <1>6 DEF saved, rules, Both, Runtime, Permanent

LEMMA WholeFields ==
    ASSUME Readable
    PROVE  /\ Whole.incomplete = {}
           /\ \A scope \in Both : Whole[scope] = firewall[scope]
           /\ Whole.direct = firewall.direct
           /\ Whole.default = firewall.default /\ Whole.panic = firewall.panic
           /\ Whole.logDenied = firewall.logDenied /\ Whole.policySets = firewall.policySets
<1>1. DOMAIN firewall =
        {"runtime", "permanent", "default", "panic", "logDenied", "direct", "policySets"}
  BY DEF Readable, IsFirewall
<1>2. /\ Whole.incomplete = {} /\ \A scope \in Both : Whole[scope] = firewall[scope]
      /\ \A field \in DOMAIN firewall : Whole[field] = firewall[field]
  BY <1>1, SnapshotFields DEF Whole
<1> QED
  BY <1>1, <1>2

(* An object of a section that was read is seen as it is. *)
LEMMA SeenAsItIs ==
    ASSUME Readable, NEW object, NEW scope \in Both, <<SectionOf(object), scope>> \notin Incomplete
    PROVE  /\ object \in DOMAIN Observed[scope] <=> object \in DOMAIN firewall[scope]
           /\ object \in DOMAIN firewall[scope] =>
                 Observed[scope][object] = firewall[scope][object]
  BY ObservedFields DEF Seen

(* The section of an object of the operation. *)
LEMMA SectionShape ==
    ASSUME NEW o, IsType(o.object, {"zone", "ipset", "policy", "service"})
    PROVE  Section(o) = {SectionOf(o.object)}
  BY DEF IsType, Section, SectionOf

LEMMA CompleteAt ==
    ASSUME Readable, NEW sections, NEW target, Complete(sections, target, Observed),
           NEW section \in sections, NEW scope \in target
    PROVE  <<section, scope>> \notin Incomplete
<1>1. <<section, scope>> \in sections \X target
  OBVIOUS
<1> QED
  BY <1>1, ObservedFields DEF Complete

LEMMA WholeComplete == ASSUME Readable, NEW sections, NEW target PROVE Complete(sections, target, Whole)
  BY WholeFields DEF Complete

(* What is known of the members of the policy set. *)
LEMMA SetSeen ==
    ASSUME Readable, NEW enabled, NEW scope \in Both, <<"Policies", scope>> \notin Incomplete
    PROVE  SetMatches(enabled, Observed, scope) = SetMatches(enabled, firewall, scope)
<1>1. ASSUME NEW member \in Member
      PROVE  /\ member \in DOMAIN Observed[scope] <=> member \in DOMAIN firewall[scope]
             /\ member \in DOMAIN firewall[scope] =>
                   Observed[scope][member] = firewall[scope][member]
  <2>1. SectionOf(member) = "Policies"
    BY ObjectAssumption DEF ObjectAssumption, SectionOf
  <2> QED
    BY <2>1, SeenAsItIs
<1> DEFINE observed == Member \cap DOMAIN Observed[scope]
           actual == Member \cap DOMAIN firewall[scope]
<1>2. observed = actual
  BY <1>1
<1>3. {member \in observed : Disabled \in Observed[scope][member]} =
         {member \in actual : Disabled \in firewall[scope][member]}
  BY <1>1, <1>2
<1> QED
  BY <1>2, <1>3 DEF SetMatches

LEMMA WholeSet ==
    ASSUME Readable, NEW enabled, NEW scope \in Both
    PROVE  SetMatches(enabled, Whole, scope) = SetMatches(enabled, firewall, scope)
<1>1. Whole[scope] = firewall[scope]
  BY WholeFields
<1> QED
  BY <1>1 DEF SetMatches

(* The objects that refer to one, in a section that was read. *)
LEMMA ReferringSeen ==
    ASSUME Readable, NEW object, NEW type \in {"zone", "policy"},
           <<IF type = "zone" THEN "Zones" ELSE "Policies", "permanent">> \notin Incomplete
    PROVE  Referring(object, type, Observed) = Referring(object, type, Whole)
<1>1. "permanent" \in Both
  BY DEF Both, Permanent
<1>2. Whole.permanent = firewall.permanent
  BY <1>1, WholeFields
<1>3. ASSUME NEW o, Type(o) = type
      PROVE  /\ o \in DOMAIN Observed.permanent <=> o \in DOMAIN firewall.permanent
             /\ o \in DOMAIN firewall.permanent => Observed.permanent[o] = firewall.permanent[o]
  <2>1. SectionOf(o) = IF type = "zone" THEN "Zones" ELSE "Policies"
    BY <1>3 DEF SectionOf
  <2> QED
    BY <1>1, <2>1, SeenAsItIs
<1> QED
  BY <1>2, <1>3 DEF Referring

LEMMA KnownIsEnough ==
    ASSUME Readable, NEW o, Shape(o), hidden \in Sections \cup {{}}, Valid(o, Observed),
           o.kind # "RuntimeToPermanent", ~(o.kind = "Create" /\ o.object \in Zones)
    PROVE  Valid(o, Whole)
<1>1. Known(o, Whole)
  BY WholeComplete DEF Known
<1>2. Complete(Section(o), o.target, Observed)
  BY DEF Valid, Known
<1>3. o.target \in Targets /\ o.target \subseteq Both
  BY DEF Shape, Targets, Both, Runtime, Permanent
<1>4. "runtime" \in Both /\ "permanent" \in Both
  BY DEF Both, Runtime, Permanent
<1>5. ASSUME IsType(o.object, {"zone", "ipset", "policy", "service"}), NEW scope \in o.target
      PROVE  /\ Exists(o, Observed, scope) <=> Exists(o, Whole, scope)
             /\ Present(o, Observed, scope) <=> Present(o, Whole, scope)
  <2>1. <<SectionOf(o.object), scope>> \notin Incomplete
    BY <1>2, <1>5, SectionShape, CompleteAt
  <2>2. scope \in Both /\ Whole[scope] = firewall[scope]
    BY <1>3, WholeFields
  <2>3. /\ o.object \in DOMAIN Observed[scope] <=> o.object \in DOMAIN firewall[scope]
        /\ o.object \in DOMAIN firewall[scope] =>
              Observed[scope][o.object] = firewall[scope][o.object]
    BY <2>1, <2>2, SeenAsItIs
  <2> QED
    BY <2>2, <2>3 DEF Exists, Present
<1>6. CASE o.kind \in {"Edit", "Temporary", "SetTarget", "Join"}
  <2>1. IsType(o.object, {"zone", "ipset", "policy", "service"})
    BY <1>6 DEF Shape, IsType
  <2>2. Needed(o, Observed)
    BY <1>6 DEF Valid
  <2>3. Needed(o, Whole)
    <3>1. \A scope \in o.target : Exists(o, Whole, scope)
      BY <1>5, <2>1, <2>2 DEF Needed
    <3>2. PICK scope \in o.target : Present(o, Observed, scope) # o.adding
      BY <2>2 DEF Needed
    <3>3. Present(o, Whole, scope) \in BOOLEAN /\ Present(o, Observed, scope) \in BOOLEAN
      BY DEF Present, Exists
    <3>4. Present(o, Whole, scope) # o.adding
      BY <1>5, <2>1, <3>2, <3>3
    <3> QED
      BY <3>1, <3>4 DEF Needed
  <2> QED
    BY <1>1, <1>6, <2>3 DEF Valid
<1>7. CASE o.kind = "PolicySet"
  <2>1. Section(o) = {"Policies"}
    BY <1>7 DEF Shape, Section, Gateway, Type
  <2>2. ASSUME NEW scope \in o.target
        PROVE  SetMatches(o.adding, Observed, scope) = SetMatches(o.adding, Whole, scope)
    <3>1. <<"Policies", scope>> \notin Incomplete
      BY <1>2, <2>1, CompleteAt
    <3> QED
      BY <1>3, <3>1, SetSeen, WholeSet
  <2>3. NeededBySet(o, Observed)
    BY <1>7 DEF Valid
  <2>4. NeededBySet(o, Whole)
    BY <2>2, <2>3, ObservedFields, WholeFields DEF NeededBySet
  <2> QED
    BY <1>1, <1>7, <2>4 DEF Valid
<1>8. CASE o.kind = "Create"
  <2>1. /\ IsType(o.object, {"ipset", "policy", "service"}) /\ o.target = Permanent
        /\ MayCreate(o, Observed)
    BY <1>8 DEF Shape, IsType, Zones, Valid
  <2>2. Section(o) = {SectionOf(o.object)}
    BY <2>1, SectionShape DEF IsType
  <2>3. <<SectionOf(o.object), "permanent">> \notin Incomplete
    BY <1>2, <2>1, <2>2, CompleteAt DEF Permanent
  <2>4. Type(o.object) = "service" => <<SectionOf(o.object), "runtime">> \notin Incomplete
    <3>1. ASSUME Type(o.object) = "service"
          PROVE  <<"Services", "runtime">> \notin Incomplete
      <4>1. SectionOf(o.object) = "Services"
        BY <3>1 DEF SectionOf
      <4>2. <<"Services", "permanent">> \notin hidden
        BY <2>3, <4>1 DEF Incomplete
      <4>3. hidden # {"Services"} \X Both
        BY <1>4, <4>2
      <4>4. <<"Services", "runtime">> \notin hidden
        BY <4>3 DEF Sections, Runtime, Both, Permanent
      <4> QED
        BY <4>4 DEF Incomplete
    <3> QED
      BY <3>1 DEF SectionOf
  <2> DEFINE where == IF Type(o.object) = "service" THEN "runtime" ELSE "permanent"
  <2>5. <<SectionOf(o.object), where>> \notin Incomplete /\ where \in Both
    BY <1>4, <2>3, <2>4
  <2>6. Exists(o, Observed, where) <=> Exists(o, Whole, where)
    BY <2>5, SeenAsItIs, WholeFields DEF Exists
  <2>7. MayCreate(o, Whole)
    BY <2>1, <2>6 DEF MayCreate, Runtime, Permanent, IsType
  <2> QED
    BY <1>1, <1>8, <2>7 DEF Valid
<1>9. CASE o.kind = "Delete"
  <2>1. /\ IsType(o.object, {"zone", "ipset", "policy", "service"}) /\ o.target = Permanent
        /\ MayDelete(o, Observed)
    BY <1>9 DEF Shape, IsType, Valid
  <2>2. Exists(o, Observed, "permanent") <=> Exists(o, Whole, "permanent")
    BY <1>5, <2>1 DEF Permanent
  <2>3. ASSUME NEW type \in {"zone", "policy"},
               Complete({IF type = "zone" THEN "Zones" ELSE "Policies"}, Permanent, Observed)
        PROVE  Referring(o.object, type, Observed) = Referring(o.object, type, Whole)
    BY <2>3, CompleteAt, ReferringSeen DEF Permanent
  <2>4. MayDelete(o, Whole)
    <3>1. CASE Type(o.object) = "zone"
      BY <2>1, <2>2, <2>3, <3>1, WholeComplete, WholeFields, ObservedFields DEF MayDelete
    <3>2. CASE Type(o.object) = "service"
      <4>1. Complete({"Zones", "Policies"}, Permanent, Observed)
        BY <2>1, <3>2 DEF MayDelete
      <4>2. Complete({"Zones"}, Permanent, Observed) /\ Complete({"Policies"}, Permanent, Observed)
        BY <4>1 DEF Complete
      <4> QED
        BY <2>1, <2>3, <3>2, <4>2, WholeComplete DEF MayDelete
    <3>3. CASE Type(o.object) \notin {"zone", "service"}
      BY <2>1, <2>2, <3>3 DEF MayDelete
    <3> QED
      BY <3>1, <3>2, <3>3
  <2> QED
    BY <1>1, <1>9, <2>4 DEF Valid
<1>10. CASE o.kind = "Migrate"
  <2>1. /\ IsType(o.object, {"zone", "ipset", "policy", "service"}) /\ o.target = Permanent
        /\ MayMigrate(o, Observed)
    BY <1>10 DEF Shape, IsType, Valid
  <2>2. Exists(o, Observed, "permanent") <=> Exists(o, Whole, "permanent")
    BY <1>5, <2>1 DEF Permanent
  <2>3. o.element \in Whole.direct
    BY <2>1, ObservedFields, WholeFields DEF MayMigrate
  <2>4. MayMigrate(o, Whole)
    BY <2>1, <2>2, <2>3, WholeComplete DEF MayMigrate
  <2> QED
    BY <1>1, <1>10, <2>4 DEF Valid
<1>11. CASE o.kind = "DefaultZone"
  <2>1. \A scope \in Both : DOMAIN Observed[scope] \subseteq DOMAIN Whole[scope]
    BY ObservedFields, WholeFields DEF Seen
  <2> QED
    BY <1>1, <1>4, <1>11, <2>1, ObservedFields, WholeFields DEF Valid
<1>12. CASE o.kind \in {"Panic", "LogDenied"}
  BY <1>1, <1>12, ObservedFields, WholeFields DEF Valid
<1>13. CASE o.kind \in {"ServicePort", "Reload"}
  BY <1>1, <1>13 DEF Valid
<1> QED
  BY <1>6, <1>7, <1>8, <1>9, <1>10, <1>11, <1>12, <1>13 DEF Shape

-----------------------------------------------------------------------------
(* What was accepted is needed *)

Needing(o, s, scope) ==
    IF o.kind = "PolicySet" THEN SetMatches(o.adding, s, scope) = {FALSE}
    ELSE Exists(o, s, scope) /\ Present(o, s, scope) # o.adding

LEMMA TwoScopes == Both = {"runtime", "permanent"} /\ IsFiniteSet(Both) /\ Cardinality(Both) # 1
<1>1. Both = {"runtime"} \cup {"permanent"}
  BY DEF Both, Runtime, Permanent
<1>2. IsFiniteSet({"runtime"}) /\ Cardinality({"runtime"}) = 1
  BY FS_Singleton
<1>3. IsFiniteSet(Both)
  BY <1>1, <1>2, FS_AddElement
<1>4. Cardinality(Both) # 1
  <2>1. SUFFICES ASSUME Cardinality(Both) = 1 PROVE FALSE
    OBVIOUS
  <2>2. PICK x : Both = {x}
    BY <1>3, <2>1, FS_Singleton
  <2> QED
    BY <1>1, <2>2
<1> QED
  BY <1>1, <1>3, <1>4

(* An operation stays on both scopes only if both need it. *)
LEMMA NarrowedToNeed ==
    ASSUME NEW o, Shape(o), NEW s, o.kind \in {"Edit", "PolicySet"},
           Valid(NarrowedFor(o, s), s), NEW scope \in NarrowedFor(o, s).target
    PROVE  Needing(NarrowedFor(o, s), s, scope)
<1> DEFINE n == NarrowedFor(o, s)
           needing == {t \in Both : IF o.kind = "PolicySet" THEN SetMatches(o.adding, s, t) = {FALSE}
                                    ELSE Exists(o, s, t) /\ Present(o, s, t) # o.adding}
<1>1. n.target \in Targets /\ n.kind = o.kind
  BY NarrowedShape DEF Shape
<1>2. /\ n.adding = o.adding
      /\ \A t : Exists(n, s, t) = Exists(o, s, t)
      /\ \A t : Present(n, s, t) = Present(o, s, t)
      /\ n = o \/ (n.target = needing /\ Cardinality(needing) = 1)
      /\ o.target = Both /\ Complete(Section(o), Both, s) /\ Cardinality(needing) = 1
         /\ (o.kind = "PolicySet" => \A t \in Both : SetMatches(o.adding, s, t) # {})
         => n.target = needing
  <2>1. o = [kind |-> o.kind, object |-> o.object, element |-> o.element, adding |-> o.adding,
             target |-> o.target]
    BY DEF Shape, Make
  <2> DEFINE shrinks == /\ o.kind \in {"Edit", "PolicySet"} /\ o.target = Both
                        /\ Complete(Section(o), Both, s)
                        /\ o.kind = "PolicySet" => \A t \in Both : SetMatches(o.adding, s, t) # {}
                        /\ Cardinality(needing) = 1
             narrowed == [o EXCEPT !.target = needing]
  <2>2. (shrinks => n = narrowed) /\ (~shrinks => n = o)
    BY DEF NarrowedFor
  <2>7. shrinks => Cardinality(needing) = 1
    OBVIOUS
  <2>8. /\ o.target = Both /\ Complete(Section(o), Both, s) /\ Cardinality(needing) = 1
         /\ (o.kind = "PolicySet" => \A t \in Both : SetMatches(o.adding, s, t) # {})
         => shrinks
    OBVIOUS
  <2> HIDE DEF n, needing, shrinks
  <2>3. n = o \/ (n = [o EXCEPT !.target = needing] /\ Cardinality(needing) = 1)
    <3> HIDE DEF narrowed
    <3>1. CASE shrinks
      BY <2>2, <2>7, <3>1 DEF narrowed
    <3>2. CASE ~shrinks
      BY <2>2, <3>2
    <3> QED
      BY <3>1, <3>2
  <2>4. n.adding = o.adding /\ n.object = o.object /\ n.element = o.element
    BY <2>1, <2>3
  <2>5. n = o \/ (n.target = needing /\ Cardinality(needing) = 1)
    BY <2>1, <2>3
  <2>6. /\ o.target = Both /\ Complete(Section(o), Both, s) /\ Cardinality(needing) = 1
        /\ (o.kind = "PolicySet" => \A t \in Both : SetMatches(o.adding, s, t) # {})
        => n.target = needing
    <3>1. narrowed.target = needing
      BY <2>1
    <3> QED
      BY <2>2, <2>8, <3>1
  <2> QED
    BY <2>4, <2>5, <2>6 DEF Exists, Present
<1>3. \E t \in n.target : t \in needing
  <2>1. n.target \subseteq Both
    BY <1>1 DEF Targets, Both, Runtime, Permanent
  <2>2. CASE o.kind = "Edit"
    <3>1. Needed(n, s)
      BY <1>1, <2>2 DEF Valid
    <3> QED
      BY <1>2, <2>1, <2>2, <3>1 DEF Needed
  <2>3. CASE o.kind = "PolicySet"
    <3>1. NeededBySet(n, s)
      BY <1>1, <2>3 DEF Valid
    <3> QED
      BY <1>2, <2>1, <2>3, <3>1 DEF NeededBySet
  <2> QED
    BY <2>2, <2>3
<1>4. n.target \subseteq needing
  <2>0. needing \subseteq {"runtime", "permanent"}
    BY TwoScopes
  <2> HIDE DEF needing, n
  <2>1. CASE n.target \in {Runtime, Permanent}
    BY <1>3, <2>1 DEF Runtime, Permanent
  <2>2. CASE n.target = Both
    <3>1. SUFFICES ASSUME needing # Both PROVE FALSE
      BY <2>2
    <3>2. PICK x : needing = {x}
      <4>1. needing # {"runtime", "permanent"} /\ needing # {}
        BY <1>3, <3>1, TwoScopes
      <4>2. needing = {"runtime"} \/ needing = {"permanent"}
        BY <2>0, <4>1
      <4> QED
        BY <4>2
    <3>3. Cardinality(needing) = 1
      BY <3>2, FS_Singleton
    <3>4. n = o
      BY <1>2, <2>2, <3>1
    <3>5. Valid(o, s)
      BY <3>4 DEF n
    <3>6. Complete(Section(o), Both, s)
      BY <2>2, <3>4, <3>5 DEF Valid, Known
    <3>7. o.kind = "PolicySet" => \A t \in Both : SetMatches(o.adding, s, t) # {}
      BY <2>2, <3>4, <3>5 DEF Valid, NeededBySet
    <3> QED
      BY <1>2, <2>2, <3>1, <3>3, <3>4, <3>6, <3>7
  <2> QED
    BY <1>1, <2>1, <2>2 DEF Targets
<1>5. scope \in needing
  <2>1. scope \in n.target
    OBVIOUS
  <2> QED
    BY <1>4, <2>1
<1>6. Exists(n, s, scope) = Exists(o, s, scope) /\ Present(n, s, scope) = Present(o, s, scope)
      /\ n.adding = o.adding /\ n.kind = o.kind
  BY <1>1, <1>2
<1> QED
  BY <1>5, <1>6 DEF Needing

(* What an accepted operation finds. *)
Suited(m, o, fw) ==
    /\ o.kind = "Edit" => \A scope \in o.target :
          /\ o.object \in DOMAIN fw[scope]
          /\ o.element \in fw[scope][o.object] <=> ~o.adding
    /\ o.kind = "PolicySet" => \A scope \in o.target :
          Member \subseteq DOMAIN fw[scope] /\ SetMatches(o.adding, fw, scope) = {FALSE}
    /\ o.kind = "Panic" => (fw.panic <=> ~o.adding)
    /\ o.kind = "Migrate" => o.object \notin DOMAIN fw.permanent
    /\ m = "Offline" =>
          o.target = Permanent \/ o.kind \in {"Panic", "LogDenied", "RuntimeToPermanent", "Reload"}

LEMMA AcceptedSuits ==
    ASSUME Readable, NEW o, Shape(o), Valid(NarrowedFor(o, Observed), Observed)
    PROVE  Suited(mode, NarrowedFor(o, Observed), firewall)
<1> DEFINE n == NarrowedFor(o, Observed)
<1>1. Shape(n) /\ n.kind = o.kind
  BY NarrowedShape
<1>2. Complete(Section(n), n.target, Observed)
  BY DEF Valid, Known
<1>3. o.kind \in {"Edit", "PolicySet"} => \A scope \in n.target : Needing(n, Observed, scope)
  BY NarrowedToNeed
<1>4. Valid(n, Observed)
  OBVIOUS
<1> HIDE DEF n
<1>5. n.target \subseteq Both /\ n.target \in Targets
  BY <1>1 DEF Shape, Targets, Both, Runtime, Permanent
<1>6. ASSUME n.kind = "Edit", NEW scope \in n.target
      PROVE  /\ n.object \in DOMAIN firewall[scope]
             /\ n.element \in firewall[scope][n.object] <=> ~n.adding
  <2>1. IsType(n.object, {"zone", "ipset", "policy", "service"}) /\ n.adding \in BOOLEAN
    BY <1>1, <1>6 DEF Shape, IsType
  <2>2. <<SectionOf(n.object), scope>> \notin Incomplete
    BY <1>2, <2>1, SectionShape, CompleteAt
  <2>3. Exists(n, Observed, scope) /\ Present(n, Observed, scope) # n.adding
    BY <1>1, <1>3, <1>6 DEF Needing
  <2>4. /\ n.object \in DOMAIN firewall[scope]
        /\ Observed[scope][n.object] = firewall[scope][n.object]
    BY <1>5, <2>2, <2>3, SeenAsItIs DEF Exists
  <2>5. Present(n, Observed, scope) <=> n.element \in firewall[scope][n.object]
    BY <2>3, <2>4 DEF Present
  <2> QED
    BY <2>1, <2>3, <2>4, <2>5 DEF Present, Exists
<1>7. ASSUME n.kind = "PolicySet", NEW scope \in n.target
      PROVE  Member \subseteq DOMAIN firewall[scope] /\ SetMatches(n.adding, firewall, scope) = {FALSE}
  <2>1. Section(n) = {"Policies"}
    BY <1>1, <1>7 DEF Shape, Section, Gateway, Type
  <2>2. <<"Policies", scope>> \notin Incomplete
    BY <1>2, <2>1, CompleteAt
  <2>3. SetMatches(n.adding, firewall, scope) = {FALSE}
    BY <1>1, <1>3, <1>5, <1>7, <2>2, SetSeen DEF Needing
  <2>4. Member \cap DOMAIN firewall[scope] = Member
    BY <2>3 DEF SetMatches
  <2> QED
    BY <2>3, <2>4
<1>8. n.kind = "Panic" => (firewall.panic <=> ~n.adding)
  BY <1>1, <1>4, ObservedFields DEF Valid, Shape, Readable, IsFirewall
<1>9. ASSUME n.kind = "Migrate" PROVE n.object \notin DOMAIN firewall.permanent
  <2>1. IsType(n.object, {"zone", "ipset", "policy", "service"}) /\ n.target = Permanent
    BY <1>1, <1>9 DEF Shape, IsType
  <2>2. <<SectionOf(n.object), "permanent">> \notin Incomplete
    BY <1>2, <2>1, SectionShape, CompleteAt DEF Permanent
  <2>3. ~Exists(n, Observed, "permanent")
    BY <1>4, <1>9 DEF Valid, MayMigrate
  <2> QED
    BY <2>2, <2>3, SeenAsItIs DEF Exists, Both, Permanent
<1>10. ASSUME mode = "Offline", n.kind \notin {"Panic", "LogDenied", "RuntimeToPermanent", "Reload"},
              n.target # Permanent
       PROVE  FALSE
  <2>1. "runtime" \in n.target
    BY <1>5, <1>10 DEF Targets, Both, Runtime
  <2>2. PICK section \in {"Zones", "IpSets", "Policies"} : section \in Section(n)
    <3>1. CASE n.kind = "PolicySet"
      BY <1>1, <3>1 DEF Shape, Section, Gateway, Type
    <3>2. CASE n.kind # "PolicySet"
      BY <1>1, <1>10, <3>2 DEF Shape, IsType, Section
    <3> QED
      BY <3>1, <3>2
  <2>3. <<section, "runtime">> \notin Incomplete
    BY <1>2, <2>1, <2>2, CompleteAt
  <2> QED
    BY <1>10, <2>3 DEF Incomplete, Runtime
<1> QED
  BY <1>6, <1>7, <1>8, <1>9, <1>10 DEF Suited, n

-----------------------------------------------------------------------------
(* From the asking to the end *)

(* Until the first command the firewall is the one that the operation met, and what
   was accepted stays judged by what was observed of it. *)
Settled ==
    /\ mode \in {"Live", "Offline"} /\ hidden \in Sections \cup {{}}
    /\ Shape(op)
    /\ IsFirewall(original) /\ (mode = "Offline" => original.runtime = original.permanent)
    /\ unit \in {"None", "Armed", "Stopped", "Fired"}
    /\ stage \in {"Asked", "Rejected", "Accepted"} => firewall = original /\ unit = "None"
    /\ stage = "Accepted" => Valid(op, Observed)
    /\ stage \notin {"Asked", "Rejected"} => Suited(mode, op, original)

LEMMA SettledInit == Init => Settled
<1> SUFFICES ASSUME Init PROVE Settled
  OBVIOUS
<1>1. Shape(op) /\ IsFirewall(original)
  BY OperationShape, ExecutionAssumption DEF Init, ExecutionAssumption
<1> QED
  BY <1>1 DEF Init, Settled

(* Steps that neither ask, nor reject, nor change the operation. *)
LEMMA SettledKept ==
    ASSUME Settled, UNCHANGED <<mode, hidden, original, op>>,
           unit' \in {"None", "Armed", "Stopped", "Fired"},
           stage' # stage => stage' \notin {"Asked", "Rejected", "Accepted"},
           stage' # stage => stage \notin {"Asked", "Rejected"},
           stage' \in {"Asked", "Rejected", "Accepted"} => UNCHANGED <<firewall, unit>>
    PROVE  Settled'
<1>1. CASE stage' = stage
  <2>1. stage' = "Accepted" => Observed' = Observed
    BY DEF Observed, Snapshot, Seen, Incomplete
  <2>2. stage' = "Accepted" => Valid(op, Observed)'
    <3>1. SUFFICES ASSUME stage' = "Accepted" PROVE Valid(op', Observed')
      OBVIOUS
    <3>2. Valid(op, Observed)
      BY <1>1, <3>1 DEF Settled
    <3> QED
      BY <2>1, <3>1, <3>2
  <2> QED
    BY <1>1, <2>2 DEF Settled
<1>2. CASE stage' # stage
  BY <1>2 DEF Settled
<1> QED
  BY <1>1, <1>2

LEMMA SettledNext == ASSUME Settled, [Next]_vars PROVE Settled'
<1> USE DEF fixed, guard, control, clock, person
<1>1. CASE UNCHANGED vars
  BY <1>1, SettledKept DEF vars, Settled
<1>2. CASE Dispatch
  <2> DEFINE narrowed == NarrowedFor(op, Observed)
  <2>1. Readable /\ Shape(op) /\ Valid(narrowed, Observed)
    BY <1>2 DEF Dispatch, Settled, Readable
  <2>2. Shape(narrowed) /\ Suited(mode, narrowed, firewall)
    BY <2>1, NarrowedShape, AcceptedSuits
  <2>3. Observed' = Observed
    <3>1. UNCHANGED <<mode, hidden, firewall>>
      BY <1>2 DEF Dispatch
    <3> QED
      BY <3>1 DEF Observed, Snapshot, Seen, Incomplete
  <2>4. op' = narrowed /\ stage' = "Accepted" /\ UNCHANGED <<mode, hidden, original, firewall, unit>>
    BY <1>2 DEF Dispatch
  <2>5. stage = "Asked"
    BY <1>2 DEF Dispatch
  <2> HIDE DEF narrowed
  <2> QED
    BY <2>1, <2>2, <2>3, <2>4, <2>5 DEF Settled
<1>3. CASE Reject
  BY <1>3 DEF Reject, Settled
<1>4. CASE Unguarded \/ WatchdogUnavailable \/ RunSystemd \/ UnitStarts \/ ArmAnswers
  <2>1. /\ stage \in {"Accepted", "Arming"} /\ UNCHANGED <<mode, hidden, original, op>>
        /\ unit' \in {unit, "Armed"}
        /\ stage' \in {"Arming", "Applying", "Reverting"}
    BY <1>4 DEF Unguarded, WatchdogUnavailable, RunSystemd, UnitStarts, ArmAnswers, Commands, Begin
  <2> QED
    BY <2>1, SettledKept DEF Settled
<1>5. CASE CommandSucceeds \/ CommandFails \/ CommandTimesOut \/ NothingToRun
  <2>1. /\ stage \in {"Applying", "Reverting"} /\ UNCHANGED <<mode, hidden, original, op, unit>>
        /\ stage' \in {"Applying", "Reverting", "Countdown", "Disarming", "Done"}
    BY <1>5 DEF CommandSucceeds, CommandFails, CommandTimesOut, NothingToRun, Running, Concluded, Begin
  <2> QED
    BY <2>1, SettledKept DEF Settled
<1>6. CASE Keep \/ FireRollback \/ ApplyRollback \/ Disarm
  <2>1. /\ stage \in {"Countdown", "Waiting", "Disarming"} /\ UNCHANGED <<mode, hidden, original, op>>
        /\ unit' \in {unit, "Armed", "Stopped"}
        /\ stage' \in {"Disarming", "Done", "Waiting", "Applying", "Reverting"}
    BY <1>6 DEF Keep, FireRollback, ApplyRollback, Disarm, Commands, Begin
  <2> QED
    BY <2>1, SettledKept DEF Settled
<1>7. CASE Crash
  <2>1. /\ stage' = "Crashed" /\ stage \notin {"Asked", "Rejected"}
        /\ UNCHANGED <<mode, hidden, original, op, unit>>
    BY <1>7 DEF Crash
  <2> QED
    BY <2>1, SettledKept DEF Settled
<1>8. CASE Tick \/ TickUnwatched
  <2>1. UNCHANGED <<mode, hidden, original, op, unit, stage, firewall>>
    BY <1>8 DEF Tick, TickUnwatched
  <2> QED
    BY <2>1, SettledKept DEF Settled
<1>9. CASE WatchdogFires
  <2>1. unit = "Armed" /\ unit' = "Fired" /\ UNCHANGED <<mode, hidden, original, op, stage>>
    BY <1>9 DEF WatchdogFires
  <2>2. stage \notin {"Asked", "Rejected", "Accepted"}
    BY <2>1 DEF Settled
  <2> QED
    BY <2>1, <2>2, SettledKept
<1> QED
  BY <1>1, <1>2, <1>3, <1>4, <1>5, <1>6, <1>7, <1>8, <1>9 DEF Next

LEMMA SettledInvariant == Spec => []Settled
  BY SettledInit, SettledNext, PTL DEF Spec

(* What is accepted on a snapshot with gaps would be accepted knowing everything:
   execute_operation judges by what was read, and a section that could not be read
   lets nothing through, whatever the firewall and whatever is hidden. *)
THEOREM AcceptedOnKnown == Spec => []JudgedOnKnown
<1>1. Settled => JudgedOnKnown
  <2> SUFFICES ASSUME Settled, stage = "Accepted", op.kind # "RuntimeToPermanent",
                      ~(op.kind = "Create" /\ op.object \in Zones)
               PROVE  Valid(op, Whole)
    BY DEF JudgedOnKnown
  <2>1. Readable
    BY DEF Settled, Readable
  <2> QED
    BY <2>1, KnownIsEnough DEF Settled
<1> QED
  BY <1>1, SettledInvariant, PTL

-----------------------------------------------------------------------------
(* What a command brings about *)

Fields == {"runtime", "permanent", "default", "panic", "logDenied", "direct", "policySets"}

LEMMA ShortTuples ==
    ASSUME NEW a, NEW b, NEW c, NEW d
    PROVE  /\ <<a>> # <<>> /\ Len(<<a>>) = 1 /\ Head(<<a>>) = a
           /\ Len(<<a, b>>) = 2 /\ Head(<<a, b>>) = a /\ Tail(<<a, b>>) = <<b>>
           /\ Len(<<a, b, c>>) = 3 /\ Head(<<a, b, c>>) = a /\ Tail(<<a, b, c>>) = <<b, c>>
           /\ Len(<<a, b, c, d>>) = 4 /\ Head(<<a, b, c, d>>) = a
           /\ Tail(<<a, b, c, d>>) = <<b, c, d>> /\ Last(<<a, b, c, d>>) = d
           /\ Last(<<a>>) = a /\ Last(<<a, b>>) = b
  BY DEF Last

LEMMA CarriedFields ==
    ASSUME NEW step, NEW fw PROVE DOMAIN Carried(step, fw) = DOMAIN fw
  BY DEF Carried

(* A change of one object in one scope leaves the other scope alone. *)
LEMMA CarriedElsewhere ==
    ASSUME NEW o, o.kind \in {"Edit", "PolicySet"}, NEW scope \in Both, NEW other \in Both,
           other # scope, NEW fw, DOMAIN fw = Fields
    PROVE  Carried(Step(scope, o), fw)[other] = fw[other]
  BY DEF Carried, Step, Fields, Both, Runtime, Permanent

(* After a command that was not refused its scope says that the change is there. *)
LEMMA EditBrings ==
    ASSUME NEW o, o.kind \in {"Edit", "SetTarget", "Join"}, o.adding \in BOOLEAN,
           NEW scope \in Both, NEW fw, DOMAIN fw = Fields, ~Refused(Step(scope, o), fw)
    PROVE  /\ Exists(o, Carried(Step(scope, o), fw), scope)
           /\ Present(o, Carried(Step(scope, o), fw), scope) = o.adding
<1> DEFINE after == Carried(Step(scope, o), fw)
<1>1. o.object \in DOMAIN fw[scope]
  BY DEF Refused, Step
<1>2. after = [fw EXCEPT ![scope] = Edited(o, @)] /\ scope \in DOMAIN fw
  BY DEF Carried, Step, Fields, Both, Runtime, Permanent
<1>3. after[scope] = Edited(o, fw[scope])
  BY <1>2
<1> HIDE DEF after
<1>4. DOMAIN after[scope] = DOMAIN fw[scope]
  BY <1>3 DEF Edited
<1>5. after[scope][o.object] =
        IF o.adding THEN With(fw[scope][o.object], o.element) ELSE fw[scope][o.object] \ {o.element}
  BY <1>1, <1>3 DEF Edited
<1>6. (o.element \in after[scope][o.object]) = o.adding
  <2>1. CASE o.adding = TRUE
    BY <1>5, <2>1 DEF With
  <2>2. CASE o.adding = FALSE
    BY <1>5, <2>2
  <2> QED
    BY <2>1, <2>2
<1> QED
  BY <1>1, <1>4, <1>6 DEF Exists, Present, after

LEMMA SwitchBrings ==
    ASSUME NEW o, o.kind = "PolicySet", o.adding \in BOOLEAN,
           NEW scope \in Both, NEW fw, DOMAIN fw = Fields, ~Refused(Step(scope, o), fw)
    PROVE  SetMatches(o.adding, Carried(Step(scope, o), fw), scope) = {TRUE}
<1> DEFINE after == Carried(Step(scope, o), fw)
<1>1. Member \subseteq DOMAIN fw[scope]
  BY DEF Refused, Step
<1>2. after = [fw EXCEPT ![scope] = Switched(o, @)] /\ scope \in DOMAIN fw
  BY DEF Carried, Step, Fields, Both, Runtime, Permanent
<1>3. after[scope] = Switched(o, fw[scope])
  BY <1>2
<1> HIDE DEF after
<1>4. DOMAIN after[scope] = DOMAIN fw[scope]
  BY <1>3 DEF Switched
<1>5. Member \cap DOMAIN after[scope] = Member
  BY <1>1, <1>4
<1>6. \A member \in Member : (Disabled \in after[scope][member]) = ~o.adding
  <2>1. CASE o.adding = TRUE
    BY <1>1, <1>3, <2>1 DEF Switched
  <2>2. CASE o.adding = FALSE
    BY <1>1, <1>3, <2>2 DEF Switched
  <2> QED
    BY <2>1, <2>2
<1> DEFINE disabled == {member \in Member : Disabled \in after[scope][member]}
<1>7. SetMatches(o.adding, after, scope) = IF o.adding THEN {disabled = {}} ELSE {disabled = Member}
  BY <1>5 DEF SetMatches
<1>8. CASE o.adding = TRUE
  <2>1. disabled = {}
    BY <1>6, <1>8
  <2> QED
    BY <1>7, <1>8, <2>1 DEF after
<1>9. CASE o.adding = FALSE
  <2>1. disabled = Member
    BY <1>6, <1>9
  <2> QED
    BY <1>7, <1>9, <2>1 DEF after
<1> QED
  BY <1>8, <1>9

LEMMA ProbeAfter ==
    ASSUME NEW o, Shape(o), o.kind \in {"Edit", "PolicySet", "SetTarget", "Join", "Create", "Delete"},
           NEW scope \in o.target, NEW fw, DOMAIN fw = Fields, ~Refused(Step(scope, o), fw)
    PROVE  Probe(o, Carried(Step(scope, o), fw), scope) \subseteq {TRUE}
<1> DEFINE after == Carried(Step(scope, o), fw)
<1>1. scope \in Both /\ o.adding \in BOOLEAN
  BY DEF Shape, Targets, Both, Runtime, Permanent
<1>2. CASE o.kind \in {"Edit", "SetTarget", "Join"}
  <2>1. Exists(o, after, scope) /\ Present(o, after, scope) = o.adding
    BY <1>1, <1>2, EditBrings
  <2>2. o.kind \in {"SetTarget", "Join"} => o.adding = TRUE
    BY DEF Shape
  <2> HIDE DEF after
  <2>3. Probe(o, after, scope) \in {{Present(o, after, scope) = o.adding}, {Present(o, after, scope)}}
    BY <1>2, <2>1 DEF Probe, OfFlagOrCollection
  <2>4. CASE o.kind = "Edit"
    <3>1. Probe(o, after, scope) = {Present(o, after, scope) = o.adding}
      BY <2>1, <2>4 DEF Probe, OfFlagOrCollection
    <3> QED
      BY <2>1, <3>1 DEF after
  <2>5. CASE o.kind \in {"SetTarget", "Join"}
    <3>1. Present(o, after, scope) = TRUE
      BY <2>1, <2>2, <2>5
    <3> QED
      BY <2>2, <2>3, <2>5, <3>1 DEF after
  <2> QED
    BY <1>2, <2>4, <2>5
<1>3. CASE o.kind = "PolicySet"
  <2>1. Probe(o, after, scope) = SetMatches(o.adding, after, scope)
    BY <1>3 DEF Probe, OfFlagOrCollection
  <2> QED
    BY <1>1, <1>3, <2>1, SwitchBrings
<1>4. CASE o.kind \in {"Create", "Delete"}
  <2>1. scope = "permanent" /\ o.target = Permanent
    BY <1>4 DEF Shape, Permanent
  <2>2. Exists(o, after, "permanent") = (o.kind = "Create")
    <3>1. CASE o.kind = "Create"
      BY <3>1 DEF Carried, Step, Exists, Fields
    <3>2. CASE o.kind = "Delete"
      BY <3>2 DEF Carried, Step, Exists, Fields
    <3> QED
      BY <1>4, <3>1, <3>2
  <2> HIDE DEF after
  <2>3. \/ Probe(o, after, scope) = {}
        \/ Probe(o, after, scope) = {Exists(o, after, scope) = (o.kind = "Create")}
    BY <1>4 DEF Probe, OfFlagOrCollection
  <2> QED
    BY <2>1, <2>2, <2>3 DEF after
<1> QED
  BY <1>2, <1>3, <1>4

-----------------------------------------------------------------------------
(* The way through a plan *)

(* Operations whose effect no snapshot is asked for. *)
Unprobed ==
    {"Temporary", "ServicePort", "DefaultZone", "Panic", "LogDenied", "RuntimeToPermanent", "Reload"}

Join(o, e) == Step("permanent", Make("Join", o.object, e, TRUE, Permanent))
Ingress == <<"ingress", "ANY">>
Egress == <<"egress", "HOST">>

LEMMA OfflineLast ==
    ASSUME NEW m, NEW o
    PROVE  PlanIn(m, o) = Plan(o) \/ PlanIn(m, o) = <<>>
              \/ (m = "Offline" /\ o.target # Runtime /\ PlanIn(m, o) = <<Last(Plan(o))>>)
  BY DEF PlanIn, OfflinePlan

LEMMA PlanShape ==
    ASSUME NEW m, NEW o, Shape(o), NEW before, Suited(m, o, before)
    PROVE  \/ PlanIn(m, o) = <<>>
           \/ o.kind \in Unprobed /\ \E step : PlanIn(m, o) = <<step>>
           \/ /\ o.kind \in {"Edit", "PolicySet", "SetTarget", "Join", "Create", "Delete"}
              /\ \E scope \in o.target : o.target = {scope} /\ PlanIn(m, o) = <<Step(scope, o)>>
           \/ /\ o.kind \in {"Edit", "PolicySet"} /\ o.target = Both
              /\ PlanIn(m, o) = <<Step("runtime", o), Step("permanent", o)>>
           \/ /\ o.kind = "Migrate"
              /\ PlanIn(m, o) = <<Step("permanent", Make("Create", o.object, <<>>, TRUE, Permanent)),
                                  Join(o, Ingress), Join(o, Egress), Join(o, o.element)>>
           \/ o.kind = "Migrate" /\ PlanIn(m, o) = <<Join(o, o.element)>>
<1> DEFINE alone(scope) == Step(scope, o)
           create == Step("permanent", Make("Create", o.object, <<>>, TRUE, Permanent))
           global == Step("global", o)
<1>1. CASE o.kind \in {"DefaultZone", "LogDenied", "Reload"}
  <2>1. Plan(o) = <<global>>
    BY <1>1 DEF Plan
  <2> HIDE DEF global
  <2>2. Last(Plan(o)) = global
    BY <2>1, ShortTuples
  <2>3. PlanIn(m, o) = <<>> \/ PlanIn(m, o) = <<global>>
    BY <2>1, <2>2, OfflineLast
  <2> QED
    BY <1>1, <2>3 DEF Unprobed
<1>2. CASE o.kind = "Migrate"
  <2>1. Plan(o) = <<create, Join(o, Ingress), Join(o, Egress), Join(o, o.element)>>
    BY <1>2 DEF Plan, Migration, Join, Ingress, Egress
  <2> DEFINE i == Join(o, Ingress)
             g == Join(o, Egress)
             r == Join(o, o.element)
  <2> HIDE DEF i, g, r, create
  <2>2. Plan(o) = <<create, i, g, r>>
    BY <2>1 DEF i, g, r, create
  <2>3. Last(Plan(o)) = r
    <3>1. Last(<<create, i, g, r>>) = r
      BY DEF Last
    <3> QED
      BY <2>2, <3>1
  <2>4. PlanIn(m, o) = <<>> \/ PlanIn(m, o) = <<create, i, g, r>> \/ PlanIn(m, o) = <<r>>
    BY <2>2, <2>3, OfflineLast
  <2> QED
    BY <1>2, <2>4 DEF create, i, g, r
<1>3. CASE o.kind \notin {"DefaultZone", "LogDenied", "Reload", "Migrate"}
  <2>1. Plan(o) = Scoped(o)
    BY <1>3 DEF Plan
  <2>2. CASE o.target = Runtime \/ o.target = Permanent
    <3>1. PICK scope \in o.target : o.target = {scope} /\ Plan(o) = <<alone(scope)>>
      BY <2>1, <2>2, ScopedSteps DEF Runtime, Permanent
    <3> DEFINE step == alone(scope)
    <3> HIDE DEF step, alone
    <3>2. Plan(o) = <<step>>
      BY <3>1 DEF step
    <3>3. Last(Plan(o)) = step
      BY <3>2, ShortTuples
    <3>4. PlanIn(m, o) = <<>> \/ PlanIn(m, o) = <<step>>
      BY <3>2, <3>3, OfflineLast
    <3>5. o.kind \in Unprobed \cup {"Edit", "PolicySet", "SetTarget", "Join", "Create", "Delete"}
      BY <1>3 DEF Shape, Unprobed
    <3> QED
      BY <3>1, <3>4, <3>5 DEF step, alone
  <2>3. CASE o.target = Both
    <3>1. o.kind \in {"Edit", "PolicySet"}
      BY <1>3, <2>3, TwoScopes DEF Shape, Runtime, Permanent
    <3>2. Plan(o) = <<Step("runtime", o), Step("permanent", o)>>
      BY <2>1, <2>3, ScopedSteps
    <3>3. m # "Offline"
      BY <2>3, <3>1, TwoScopes DEF Suited, Permanent
    <3> QED
      BY <2>3, <3>1, <3>2, <3>3, OfflineLast
  <2> QED
    BY <2>2, <2>3 DEF Shape, Targets
<1> QED
  BY <1>1, <1>2, <1>3

(* What is left of a migration, and what is there already. *)
Migrating(o, steps, fw) ==
    /\ o.object \in DOMAIN fw.permanent
    /\ \/ steps = <<Join(o, Ingress), Join(o, Egress), Join(o, o.element)>>
       \/ steps = <<Join(o, Egress), Join(o, o.element)>> /\ Ingress \in fw.permanent[o.object]
       \/ steps = <<Join(o, o.element)>> /\ Joined \subseteq fw.permanent[o.object]

(* The commands left, and what the others have made of the firewall. *)
Underway(m, o, steps, before, fw) ==
    /\ DOMAIN fw = Fields
    /\ \/ steps = PlanIn(m, o) /\ fw = before
       \/ /\ Len(steps) < Len(PlanIn(m, o)) /\ steps # <<>> /\ fw # before
          /\ \/ /\ o.kind \in {"Edit", "PolicySet"} /\ o.target = Both
                /\ steps = <<Step("permanent", o)>> /\ Probe(o, fw, "runtime") \subseteq {TRUE}
             \/ o.kind = "Migrate" /\ Migrating(o, steps, fw)

(* No scope of the operation says that it is not there. *)
Made(o, fw) == \A scope \in o.target : Probe(o, fw, scope) \subseteq {TRUE}

LEMMA JoinBrings ==
    ASSUME NEW o, NEW e, e[1] # "target", NEW fw, DOMAIN fw = Fields, ~Refused(Join(o, e), fw)
    PROVE  /\ o.object \in DOMAIN fw.permanent
           /\ DOMAIN Carried(Join(o, e), fw).permanent = DOMAIN fw.permanent
           /\ Carried(Join(o, e), fw).permanent[o.object] = fw.permanent[o.object] \cup {e}
<1> DEFINE j == Make("Join", o.object, e, TRUE, Permanent)
<1>1. j.kind = "Join" /\ j.object = o.object /\ j.element = e /\ j.adding = TRUE
  BY DEF Make
<1>2. Join(o, e) = Step("permanent", j)
  BY DEF Join
<1> HIDE DEF j
<1>3. o.object \in DOMAIN fw.permanent
  BY <1>1, <1>2 DEF Refused, Step
<1>4. Carried(Join(o, e), fw) = [fw EXCEPT !.permanent = Edited(j, @)]
  <2>1. Join(o, e).op = j /\ Join(o, e).scope = "permanent"
    BY <1>2 DEF Step
  <2>2. Carried(Join(o, e), fw) = [fw EXCEPT !["permanent"] = Edited(j, @)]
    BY <1>1, <2>1 DEF Carried
  <2> QED
    BY <2>2
<1>5. Carried(Join(o, e), fw).permanent = Edited(j, fw.permanent)
  BY <1>4 DEF Fields
<1> QED
  BY <1>1, <1>3, <1>5 DEF Edited, With

LEMMA MigrationStep ==
    ASSUME NEW o, Shape(o), o.kind = "Migrate", NEW steps, NEW fw, DOMAIN fw = Fields,
           Migrating(o, steps, fw), ~Refused(Head(steps), fw)
    PROVE  /\ Len(steps) > 1 => /\ Migrating(o, Tail(steps), Carried(Head(steps), fw))
                                /\ Tail(steps) # <<>> /\ Len(Tail(steps)) < Len(steps)
           /\ ~(Len(steps) > 1) => Made(o, Carried(Head(steps), fw))
<1>1. /\ o.element[1] # "target" /\ Ingress[1] # "target" /\ Egress[1] # "target"
      /\ o.target = Permanent
  BY DEF Shape, Ingress, Egress
<1> DEFINE i == Join(o, Ingress)
           g == Join(o, Egress)
           r == Join(o, o.element)
           after == Carried(Head(steps), fw)
<1> HIDE DEF i, g, r
<1>2. CASE steps = <<i, g, r>>
  <2>1. Head(steps) = i /\ Tail(steps) = <<g, r>> /\ Len(steps) = 3 /\ Len(<<g, r>>) = 2
    BY <1>2, ShortTuples
  <2>2. o.object \in DOMAIN after.permanent /\ Ingress \in after.permanent[o.object]
    BY <1>1, <2>1, JoinBrings DEF i
  <2> HIDE DEF after
  <2>3. Migrating(o, Tail(steps), after)
    BY <2>1, <2>2 DEF Migrating, g, r
  <2>4. Tail(steps) # <<>> /\ Len(Tail(steps)) < Len(steps)
    <3>1. <<g, r>> # <<>>
      OBVIOUS
    <3>2. Tail(steps) # <<>>
      BY <2>1, <3>1
    <3>3. Len(Tail(steps)) = 2
      BY <2>1
    <3> QED
      BY <2>1, <3>2, <3>3
  <2> QED
    BY <2>1, <2>3, <2>4 DEF after
<1>3. CASE steps = <<g, r>> /\ Ingress \in fw.permanent[o.object]
  <2>1. Head(steps) = g /\ Tail(steps) = <<r>> /\ Len(steps) = 2 /\ Len(<<r>>) = 1
    BY <1>3, ShortTuples
  <2>2. o.object \in DOMAIN after.permanent /\ Joined \subseteq after.permanent[o.object]
    BY <1>1, <1>3, <2>1, JoinBrings DEF g, Joined, Ingress, Egress
  <2> HIDE DEF after
  <2>3. Migrating(o, Tail(steps), after)
    BY <2>1, <2>2 DEF Migrating, r
  <2>4. Tail(steps) # <<>> /\ Len(Tail(steps)) < Len(steps)
    <3>1. <<r>> # <<>>
      OBVIOUS
    <3>2. Tail(steps) # <<>>
      BY <2>1, <3>1
    <3>3. Len(Tail(steps)) = 1
      BY <2>1
    <3> QED
      BY <2>1, <3>2, <3>3
  <2> QED
    BY <2>1, <2>3, <2>4 DEF after
<1>4. CASE steps = <<r>> /\ Joined \subseteq fw.permanent[o.object]
  <2>1. Head(steps) = r /\ Len(steps) = 1
    BY <1>4, ShortTuples
  <2>2. /\ o.object \in DOMAIN after.permanent /\ Joined \subseteq after.permanent[o.object]
        /\ o.element \in after.permanent[o.object]
    BY <1>1, <1>4, <2>1, JoinBrings DEF r
  <2> HIDE DEF after
  <2>3. Probe(o, after, "permanent") = {TRUE}
    BY <2>2 DEF Probe, OfFlagOrCollection, Present, Exists
  <2>4. Made(o, after)
    BY <1>1, <2>3 DEF Made, Permanent
  <2> QED
    BY <2>1, <2>4 DEF after
<1> QED
  BY <1>2, <1>3, <1>4 DEF Migrating, i, g, r

(* A command that is carried out leads on, or to the end. *)
LEMMA ForwardStep ==
    ASSUME NEW m, NEW o, Shape(o), NEW before, DOMAIN before = Fields, Suited(m, o, before),
           NEW steps, NEW fw, Underway(m, o, steps, before, fw),
           steps # <<>>, ~Refused(Head(steps), fw)
    PROVE  /\ Len(steps) > 1 => Underway(m, o, Tail(steps), before, Carried(Head(steps), fw))
           /\ ~(Len(steps) > 1) => Made(o, Carried(Head(steps), fw))
<1> DEFINE after == Carried(Head(steps), fw)
<1>1. DOMAIN fw = Fields /\ DOMAIN after = Fields
  BY CarriedFields DEF Underway
<1>2. CASE steps = PlanIn(m, o) /\ fw = before
  <2>1. CASE o.kind \in Unprobed /\ \E step : PlanIn(m, o) = <<step>>
    <3>1. Len(steps) = 1
      BY <1>2, <2>1, ShortTuples
    <3>2. \A scope : Probe(o, after, scope) = {}
      BY <2>1 DEF Unprobed, Probe, OfFlagOrCollection
    <3> HIDE DEF after
    <3>3. Made(o, after)
      BY <3>2 DEF Made
    <3> QED
      BY <3>1, <3>3 DEF after
  <2>2. CASE /\ o.kind \in {"Edit", "PolicySet", "SetTarget", "Join", "Create", "Delete"}
             /\ \E scope \in o.target : o.target = {scope} /\ PlanIn(m, o) = <<Step(scope, o)>>
    <3>1. PICK scope \in o.target : o.target = {scope} /\ PlanIn(m, o) = <<Step(scope, o)>>
      BY <2>2
    <3>2. Len(steps) = 1 /\ Head(steps) = Step(scope, o)
      BY <1>2, <3>1, ShortTuples
    <3>3. Probe(o, after, scope) \subseteq {TRUE}
      BY <1>1, <2>2, <3>2, ProbeAfter
    <3> HIDE DEF after
    <3>4. Made(o, after)
      BY <3>1, <3>3 DEF Made
    <3> QED
      BY <3>2, <3>4 DEF after
  <2>3. CASE /\ o.kind \in {"Edit", "PolicySet"} /\ o.target = Both
             /\ PlanIn(m, o) = <<Step("runtime", o), Step("permanent", o)>>
    <3> DEFINE r == Step("runtime", o)
               p == Step("permanent", o)
    <3> HIDE DEF r, p
    <3>1. /\ Len(steps) = 2 /\ Head(steps) = r /\ Tail(steps) = <<p>> /\ <<p>> # <<>>
          /\ Len(<<p>>) = 1
      BY <1>2, <2>3, ShortTuples DEF r, p
    <3>2. "runtime" \in o.target /\ "runtime" \in Both
      BY <2>3 DEF Both, Runtime
    <3>3. Probe(o, after, "runtime") \subseteq {TRUE}
      BY <1>1, <2>3, <3>1, <3>2, ProbeAfter DEF r
    <3>4. Probe(o, before, "runtime") = {FALSE}
      <4>1. CASE o.kind = "Edit"
        <5>1. /\ Exists(o, before, "runtime") /\ o.adding \in BOOLEAN
              /\ Present(o, before, "runtime") <=> ~o.adding
          BY <3>2, <4>1 DEF Suited, Exists, Present, Shape
        <5>2. Present(o, before, "runtime") \in BOOLEAN
          BY DEF Present, Exists
        <5>3. (Present(o, before, "runtime") = o.adding) = FALSE
          BY <5>1, <5>2
        <5> QED
          BY <4>1, <5>1, <5>3 DEF Probe, OfFlagOrCollection
      <4>2. CASE o.kind = "PolicySet"
        BY <3>2, <4>2 DEF Suited, Probe, OfFlagOrCollection
      <4> QED
        BY <2>3, <4>1, <4>2
    <3>5. after # before
      BY <3>3, <3>4
    <3>6. Len(PlanIn(m, o)) = 2
      BY <1>2, <3>1
    <3> HIDE DEF after
    <3>7. Len(Tail(steps)) < Len(PlanIn(m, o))
      <4> DEFINE alone == <<p>>
      <4>1. Tail(steps) = alone /\ Len(alone) = 1
        BY <3>1
      <4> HIDE DEF alone
      <4>2. Len(Tail(steps)) = 1
        BY <4>1
      <4> DEFINE left == Len(Tail(steps))
                 all == Len(PlanIn(m, o))
      <4>3. left = 1 /\ all = 2
        BY <3>6, <4>2
      <4> HIDE DEF left, all
      <4>4. left < all
        BY <4>3
      <4> QED
        BY <4>4 DEF left, all
    <3>8. Tail(steps) # <<>>
      BY <3>1
    <3>9. Underway(m, o, Tail(steps), before, after)
      BY <1>1, <2>3, <3>1, <3>3, <3>5, <3>7, <3>8 DEF Underway, p
    <3> QED
      BY <3>1, <3>9 DEF after
  <2>4. CASE /\ o.kind = "Migrate"
             /\ PlanIn(m, o) = <<Step("permanent", Make("Create", o.object, <<>>, TRUE, Permanent)),
                                 Join(o, Ingress), Join(o, Egress), Join(o, o.element)>>
    <3> DEFINE n == Make("Create", o.object, <<>>, TRUE, Permanent)
               c == Step("permanent", n)
               i == Join(o, Ingress)
               g == Join(o, Egress)
               r == Join(o, o.element)
    <3>1. n.kind = "Create" /\ n.object = o.object /\ c.op = n
      BY DEF Make, Step
    <3> HIDE DEF n, c, i, g, r
    <3>2. PlanIn(m, o) = <<c, i, g, r>>
      BY <2>4 DEF n, c, i, g, r
    <3>3. /\ Len(steps) = 4 /\ Head(steps) = c /\ Tail(steps) = <<i, g, r>> /\ <<i, g, r>> # <<>>
          /\ Len(<<i, g, r>>) = 3 /\ Len(PlanIn(m, o)) = 4
      BY <1>2, <3>2, ShortTuples
    <3>4. o.object \in DOMAIN after.permanent
      BY <1>1, <3>1, <3>3 DEF Carried, Fields
    <3>5. after # before
      BY <2>4, <3>4 DEF Suited
    <3> HIDE DEF after
    <3>6. Len(Tail(steps)) < Len(PlanIn(m, o))
      BY <3>3
    <3>7. Tail(steps) # <<>>
      BY <3>3
    <3>8. Migrating(o, Tail(steps), after)
      BY <3>3, <3>4 DEF Migrating, i, g, r
    <3>9. Underway(m, o, Tail(steps), before, after)
      BY <1>1, <2>4, <3>5, <3>6, <3>7, <3>8 DEF Underway
    <3> QED
      BY <3>3, <3>9 DEF after
  <2>5. CASE o.kind = "Migrate" /\ PlanIn(m, o) = <<Join(o, o.element)>>
    <3>1. Head(steps) = Join(o, o.element)
      BY <1>2, <2>5, ShortTuples
    <3>2. o.element[1] # "target"
      BY <2>5 DEF Shape
    <3>3. o.object \in DOMAIN fw.permanent
      BY <1>1, <3>1, <3>2, JoinBrings
    <3> QED
      BY <1>2, <2>5, <3>3 DEF Suited
  <2> QED
    BY <1>2, <2>1, <2>2, <2>3, <2>4, <2>5, PlanShape
<1>3. CASE /\ o.kind \in {"Edit", "PolicySet"} /\ o.target = Both
           /\ steps = <<Step("permanent", o)>> /\ Probe(o, fw, "runtime") \subseteq {TRUE}
  <2>1. Len(steps) = 1 /\ Head(steps) = Step("permanent", o)
    BY <1>3, ShortTuples
  <2>2. Both = {"runtime", "permanent"}
    BY TwoScopes
  <2>3. Probe(o, after, "permanent") \subseteq {TRUE}
    <3>1. /\ "permanent" \in o.target /\ ~Refused(Step("permanent", o), fw)
          /\ o.kind \in {"Edit", "PolicySet", "SetTarget", "Join", "Create", "Delete"}
          /\ after = Carried(Step("permanent", o), fw)
      BY <1>3, <2>1, <2>2
    <3> HIDE DEF after
    <3> QED
      BY <1>1, <3>1, ProbeAfter
  <2>4. after["runtime"] = fw["runtime"]
    BY <1>1, <1>3, <2>1, <2>2, CarriedElsewhere
  <2> HIDE DEF after
  <2>5. Probe(o, after, "runtime") = Probe(o, fw, "runtime")
    <3>1. CASE o.kind = "Edit"
      BY <2>4, <3>1 DEF Probe, OfFlagOrCollection, Exists, Present
    <3>2. CASE o.kind = "PolicySet"
      BY <2>4, <3>2 DEF Probe, OfFlagOrCollection, SetMatches
    <3> QED
      BY <1>3, <3>1, <3>2
  <2>6. Made(o, after)
    BY <1>3, <2>2, <2>3, <2>5 DEF Made
  <2> QED
    BY <2>1, <2>6 DEF after
<1>4. CASE /\ o.kind = "Migrate" /\ Migrating(o, steps, fw)
           /\ Len(steps) < Len(PlanIn(m, o)) /\ fw # before
  <2>1. Len(steps) > 1 => /\ Migrating(o, Tail(steps), after)
                          /\ Tail(steps) # <<>> /\ Len(Tail(steps)) < Len(steps)
    BY <1>1, <1>4, MigrationStep
  <2>2. ~(Len(steps) > 1) => Made(o, after)
    BY <1>1, <1>4, MigrationStep
  <2> HIDE DEF after
  <2>3. ASSUME Len(steps) > 1 PROVE Underway(m, o, Tail(steps), before, after)
    <3>1. o.object \in DOMAIN after.permanent
      BY <2>1, <2>3 DEF Migrating
    <3>2. after # before
      BY <1>4, <3>1 DEF Suited
    <3>3. Len(steps) \in {1, 2, 3} /\ Len(Tail(steps)) \in Nat /\ Len(PlanIn(m, o)) \in {0, 1, 4}
      <4>1. Len(steps) \in {1, 2, 3}
        BY <1>4, ShortTuples DEF Migrating
      <4>2. Len(Tail(steps)) \in {1, 2, 3}
        BY <2>1, <2>3, ShortTuples DEF Migrating
      <4>3. PlanIn(m, o) = <<>> \/ Len(PlanIn(m, o)) = 1 \/ Len(PlanIn(m, o)) = 4
        <5> DEFINE plan == PlanIn(m, o)
                   c == Step("permanent", Make("Create", o.object, <<>>, TRUE, Permanent))
                   i == Join(o, Ingress)
                   g == Join(o, Egress)
                   r == Join(o, o.element)
        <5>1. plan = <<>> \/ plan = <<c, i, g, r>> \/ plan = <<r>>
          BY <1>4, PlanShape DEF Unprobed
        <5> HIDE DEF plan, c, i, g, r
        <5>2. plan = <<>> \/ Len(plan) = 1 \/ Len(plan) = 4
          BY <5>1, ShortTuples
        <5> QED
          BY <5>2 DEF plan
      <4> QED
        BY <4>1, <4>2, <4>3
    <3>4. Len(Tail(steps)) < Len(PlanIn(m, o))
      BY <1>4, <2>1, <2>3, <3>3
    <3> QED
      BY <1>1, <1>4, <2>1, <2>3, <3>2, <3>4 DEF Underway
  <2> QED
    BY <2>2, <2>3 DEF after
<1> QED
  BY <1>2, <1>3, <1>4 DEF Underway

-----------------------------------------------------------------------------
(* What is reported is what happened *)

Reported ==
    /\ outcome = "Failed" => firewall = original
    /\ outcome = "Applied" => DOMAIN firewall = Fields /\ Made(op, firewall)
    /\ outcome = "PartiallyApplied" => firewall # original

Progress ==
    unit # "Fired" =>
        /\ stage \in {"Asked", "Rejected", "Accepted", "Arming"} => firewall = original
        /\ stage = "Applying" => Underway(mode, op, todo, original, firewall)
        /\ stage \in {"Countdown", "Waiting", "Disarming", "Done"} /\ reverted = "None" => Reported

LEMMA ProgressInit == Init => Progress
  BY DEF Init, Progress

(* The inverse of an operation is another one. *)
LEMMA InverseDiffers ==
    ASSUME NEW o, Shape(o), NEW inverse \in TargetInverse(o) PROVE inverse # o
<1>1. o = [kind |-> o.kind, object |-> o.object, element |-> o.element, adding |-> o.adding,
           target |-> o.target] /\ o.adding \in BOOLEAN
  BY DEF Shape, Make
<1>2. CASE o.kind \in {"Edit", "PolicySet"}
  <2>1. inverse.adding = ~o.adding
    BY <1>1, <1>2 DEF TargetInverse, InverseOp
  <2> QED
    BY <1>1, <2>1
<1>3. CASE o.kind \in {"ServicePort", "Panic"}
  <2>1. inverse.adding = ~o.adding
    BY <1>1, <1>3 DEF TargetInverse, InverseOp
  <2> QED
    BY <1>1, <2>1
<1>4. CASE o.kind \in {"Temporary", "Migrate"}
  <2>1. inverse.kind # o.kind
    BY <1>4 DEF TargetInverse, InverseOp, Make
  <2> QED
    BY <2>1
<1> QED
  BY <1>2, <1>3, <1>4 DEF TargetInverse, InverseOp

LEMMA OriginalFields == ASSUME Settled PROVE DOMAIN original = Fields
  BY DEF Settled, IsFirewall, Fields

LEMMA Lengths ==
    ASSUME NEW m, NEW o, Shape(o), NEW before, Suited(m, o, before), NEW steps, NEW fw,
           Underway(m, o, steps, before, fw), Len(steps) < Len(PlanIn(m, o))
    PROVE  Len(steps) # Len(PlanIn(m, o))
<1> DEFINE plan == PlanIn(m, o)
           c == Step("permanent", Make("Create", o.object, <<>>, TRUE, Permanent))
           i == Join(o, Ingress)
           g == Join(o, Egress)
           r == Join(o, o.element)
           p == Step("permanent", o)
           q == Step("runtime", o)
<1>1. \/ plan = <<>> \/ \E step : plan = <<step>>
      \/ plan = <<q, p>> \/ plan = <<c, i, g, r>>
  BY PlanShape
<1>2. steps = plan \/ steps = <<p>> \/ steps = <<i, g, r>> \/ steps = <<g, r>> \/ steps = <<r>>
  BY DEF Underway, Migrating
<1> HIDE DEF plan, c, i, g, r, p, q
<1>3. Len(plan) \in Nat
  BY <1>1, ShortTuples
<1>4. Len(steps) \in Nat
  BY <1>2, <1>3, ShortTuples
<1>5. Len(steps) < Len(plan)
  BY DEF plan
<1>6. Len(steps) # Len(plan)
  BY <1>3, <1>4, <1>5
<1> QED
  BY <1>6 DEF plan

(* The commands of the operation come to an end. *)
LEMMA ForwardConcluded ==
    ASSUME NEW result, stage = "Applying", Concluded(result),
           UNCHANGED <<op, original, unit>>,
           result = "Failed" => firewall' = original,
           result = "Applied" => DOMAIN firewall' = Fields /\ Made(op, firewall'),
           result = "PartiallyApplied" => firewall' # original
    PROVE  Progress'
<1>1. outcome' = result /\ stage' \in {"Countdown", "Disarming", "Done"}
  BY DEF Concluded, Begin
<1>2. Reported'
  BY <1>1 DEF Reported
<1> QED
  BY <1>1, <1>2 DEF Progress

(* The commands of the inverse come to an end. *)
LEMMA BackwardConcluded ==
    ASSUME NEW result, result # "None", stage = "Reverting", Concluded(result) PROVE Progress'
<1>1. reverted' = result /\ stage' \in {"Disarming", "Done"}
  BY DEF Concluded, Begin
<1> QED
  BY <1>1 DEF Progress

LEMMA CommandsProgress ==
    ASSUME Settled, Progress,
           CommandSucceeds \/ CommandFails \/ CommandTimesOut \/ NothingToRun
    PROVE  Progress'
<1> USE DEF fixed, guard
<1>1. UNCHANGED <<mode, op, original, unit>> /\ stage \in {"Applying", "Reverting"}
  BY DEF CommandSucceeds, CommandFails, CommandTimesOut, NothingToRun, Running
<1>2. CASE stage = "Reverting"
  <2>1. CASE CommandSucceeds
    <3>1. CASE Len(todo) > 1
      BY <1>2, <2>1, <3>1 DEF CommandSucceeds, Progress
    <3>2. CASE ~(Len(todo) > 1)
      BY <1>2, <2>1, <3>2, BackwardConcluded DEF CommandSucceeds
    <3> QED
      BY <3>1, <3>2
  <2>2. CASE CommandFails
    <3>1. PICK result \in {"Failed", "PartiallyApplied"} : Concluded(result)
      BY <2>2 DEF CommandFails
    <3> QED
      BY <1>2, <3>1, BackwardConcluded
  <2>3. CASE CommandTimesOut
    BY <1>2, <2>3, BackwardConcluded DEF CommandTimesOut
  <2>4. CASE NothingToRun
    BY <1>2, <2>4, BackwardConcluded DEF NothingToRun
  <2> QED
    BY <2>1, <2>2, <2>3, <2>4
<1>3. CASE stage = "Applying" /\ unit # "Fired"
  <2>0. /\ Underway(mode, op, todo, original, firewall)
        /\ DOMAIN original = Fields /\ Suited(mode, op, original) /\ Shape(op)
    BY <1>3, OriginalFields DEF Progress, Settled
  <2>1. CASE CommandSucceeds
    <3> DEFINE after == Carried(Head(todo), firewall)
    <3>1. /\ todo # <<>> /\ ~Refused(Head(todo), firewall) /\ firewall' = after
          /\ todo' = Tail(todo)
      BY <2>1 DEF CommandSucceeds, Running
    <3>2. /\ Len(todo) > 1 => Underway(mode, op, Tail(todo), original, after)
          /\ ~(Len(todo) > 1) => Made(op, after)
      BY <2>0, <3>1, ForwardStep
    <3>3. DOMAIN after = Fields
      BY <2>0, CarriedFields DEF Underway
    <3> HIDE DEF after
    <3>4. CASE Len(todo) > 1
      <4>1. stage' = "Applying"
        BY <1>3, <2>1, <3>4 DEF CommandSucceeds
      <4>2. Underway(mode', op', todo', original', firewall')
        BY <1>1, <3>1, <3>2, <3>4
      <4> QED
        BY <4>1, <4>2 DEF Progress
    <3>5. CASE ~(Len(todo) > 1)
      <4>1. Concluded("Applied")
        BY <2>1, <3>5 DEF CommandSucceeds
      <4> QED
        BY <1>1, <1>3, <3>1, <3>2, <3>3, <3>5, <4>1, ForwardConcluded
    <3> QED
      BY <3>4, <3>5
  <2>2. CASE CommandFails
    <3>1. firewall' = firewall
      BY <2>2 DEF CommandFails
    <3>2. CASE todo = PlanIn(mode, op) /\ firewall = original
      <4>1. Concluded("Failed")
        BY <1>3, <2>2, <3>2 DEF CommandFails, Untouched
      <4> QED
        BY <1>1, <1>3, <3>1, <3>2, <4>1, ForwardConcluded
    <3>3. CASE Len(todo) < Len(PlanIn(mode, op)) /\ firewall # original
      <4>1. Len(todo) # Len(PlanIn(mode, op))
        BY <2>0, <3>3, Lengths
      <4>2. Concluded("PartiallyApplied")
        BY <1>3, <2>2, <4>1 DEF CommandFails, Untouched
      <4> QED
        BY <1>1, <1>3, <3>1, <3>3, <4>2, ForwardConcluded
    <3> QED
      BY <2>0, <3>2, <3>3 DEF Underway
  <2>3. CASE CommandTimesOut
    BY <1>1, <1>3, <2>3, ForwardConcluded DEF CommandTimesOut
  <2>4. CASE NothingToRun
    <3>1. firewall' = original /\ Concluded("Failed")
      BY <2>0, <2>4 DEF NothingToRun, Underway
    <3> QED
      BY <1>1, <1>3, <3>1, ForwardConcluded
  <2> QED
    BY <2>1, <2>2, <2>3, <2>4
<1>4. CASE unit = "Fired"
  BY <1>1, <1>4 DEF Progress
<1> QED
  BY <1>1, <1>2, <1>3, <1>4

LEMMA ProgressNext == ASSUME Settled, Progress, [Next]_vars PROVE Progress'
<1> USE DEF fixed, guard, control, clock, person
<1>1. CASE UNCHANGED vars
  BY <1>1 DEF vars, Progress, Reported
<1>2. CASE Dispatch \/ Reject
  <2>1. /\ stage = "Asked" /\ stage' \in {"Accepted", "Rejected"}
        /\ UNCHANGED <<firewall, original, unit>>
    BY <1>2 DEF Dispatch, Reject
  <2> QED
    BY <2>1 DEF Progress
<1>3. CASE Unguarded \/ WatchdogUnavailable \/ ArmAnswers
  <2>1. /\ stage \in {"Accepted", "Arming"} /\ stage' = "Applying" /\ todo' = PlanIn(mode, op)
        /\ UNCHANGED <<firewall, original, unit, mode, op>>
    BY <1>3 DEF Unguarded, WatchdogUnavailable, ArmAnswers, Commands, Begin
  <2>2. unit # "Fired" => Underway(mode, op, todo', original, firewall)
    BY <2>1, OriginalFields DEF Progress, Underway
  <2>3. unit' # "Fired" => Underway(mode', op', todo', original', firewall')
    BY <2>1, <2>2
  <2> QED
    BY <2>1, <2>3 DEF Progress
<1>4. CASE RunSystemd
  BY <1>4 DEF RunSystemd, Begin, Progress
<1>5. CASE UnitStarts
  BY <1>5 DEF UnitStarts, Progress
<1>6. CASE CommandSucceeds \/ CommandFails \/ CommandTimesOut \/ NothingToRun
  BY <1>6, CommandsProgress
<1>7. CASE Keep \/ FireRollback
  <2>1. /\ stage = "Countdown" /\ stage' \in {"Disarming", "Done", "Waiting"}
        /\ UNCHANGED <<firewall, original, unit, op, outcome, reverted>>
    BY <1>7 DEF Keep, FireRollback, Begin
  <2> QED
    BY <2>1 DEF Progress, Reported
<1>8. CASE ApplyRollback
  <2>1. stage' = "Reverting"
    BY <1>8, InverseDiffers DEF ApplyRollback, Commands, Begin, Settled
  <2> QED
    BY <2>1 DEF Progress
<1>9. CASE Disarm
  <2>1. /\ stage = "Disarming" /\ stage' = "Done" /\ (unit' # "Fired" => unit # "Fired")
        /\ UNCHANGED <<firewall, original, op, outcome, reverted>>
    BY <1>9 DEF Disarm
  <2> QED
    BY <2>1 DEF Progress, Reported
<1>10. CASE Crash
  BY <1>10 DEF Crash, Progress
<1>11. CASE Tick \/ TickUnwatched
  <2>1. UNCHANGED <<firewall, original, op, outcome, reverted, mode, todo, stage, unit>>
    BY <1>11 DEF Tick, TickUnwatched
  <2> QED
    BY <2>1 DEF Progress, Reported
<1>12. CASE WatchdogFires
  BY <1>12 DEF WatchdogFires, Progress
<1> QED
  BY <1>1, <1>2, <1>3, <1>4, <1>5, <1>6, <1>7, <1>8, <1>9, <1>10, <1>11, <1>12 DEF Next

LEMMA ProgressInvariant == Spec => [](Settled /\ Progress)
<1>1. Init => Settled /\ Progress
  BY SettledInit, ProgressInit
<1>2. (Settled /\ Progress) /\ [Next]_vars => (Settled /\ Progress)'
  BY SettledNext, ProgressNext
<1> QED
  BY <1>1, <1>2, PTL DEF Spec

LEMMA MadeHolds ==
    ASSUME NEW o, NEW fw, DOMAIN fw = Fields, o.target \subseteq Both, Made(o, fw)
    PROVE  Postcondition(o, Snapshot(fw, {})) # "fails"
<1>1. \A scope \in o.target : Probe(o, Snapshot(fw, {}), scope) = Probe(o, fw, scope)
  <2> SUFFICES ASSUME NEW scope \in o.target
               PROVE  Probe(o, Snapshot(fw, {}), scope) = Probe(o, fw, scope)
    OBVIOUS
  <2> DEFINE s == Snapshot(fw, {})
  <2>1. s[scope] = fw[scope]
    BY SnapshotFields DEF Fields
  <2> HIDE DEF s
  <2>2. /\ Exists(o, s, scope) = Exists(o, fw, scope) /\ Present(o, s, scope) = Present(o, fw, scope)
        /\ SetMatches(o.adding, s, scope) = SetMatches(o.adding, fw, scope)
    BY <2>1 DEF Exists, Present, SetMatches
  <2>3. Probe(o, s, scope) = Probe(o, fw, scope)
    BY <2>1, <2>2 DEF Probe
  <2> QED
    BY <2>3 DEF s
<1>2. \A scope \in o.target :
         Probe(o, Snapshot(fw, {}), scope) = {} \/ Probe(o, Snapshot(fw, {}), scope) = {TRUE}
  BY <1>1 DEF Made
<1> QED
  BY <1>2 DEF Postcondition

(* The reported outcome is what happened to the firewall, whichever command failed,
   timed out or was the last one: "Failed" changed nothing, after "Applied" no scope
   says that the change is missing, "PartiallyApplied" changed something; for every
   operation and every firewall it may meet. *)
THEOREM OutcomesAreTrue == Spec => []OutcomeIsTrue
<1>1. Settled /\ Progress => OutcomeIsTrue
  <2> SUFFICES ASSUME Settled, Progress, unit # "Fired", stage \in {"Countdown", "Done"},
                      reverted = "None"
               PROVE  /\ outcome = "Failed" => firewall = original
                      /\ outcome = "Applied" => Postcondition(op, Whole) # "fails"
                      /\ outcome = "PartiallyApplied" => firewall # original
    BY DEF OutcomeIsTrue
  <2>1. Reported
    BY DEF Progress
  <2>2. op.target \subseteq Both
    BY DEF Settled, Shape, Targets, Both, Runtime, Permanent
  <2> QED
    BY <2>1, <2>2, MadeHolds DEF Reported, Whole
<1> QED
  BY <1>1, ProgressInvariant, PTL

-----------------------------------------------------------------------------
(* What an export says is what is done *)

(* What the commands of an operation that a task can express make of a firewall. *)
Result(o, before) ==
    IF o.kind = "Edit"
    THEN [before EXCEPT !.runtime = IF "runtime" \in o.target THEN Edited(o, @) ELSE @,
                        !.permanent = IF "permanent" \in o.target THEN Edited(o, @) ELSE @]
    ELSE Carried(Step("permanent", o), before)

LEMMA TaskKinds ==
    ASSUME NEW o, Shape(o), ByTask(o)
    PROVE  /\ o.kind \in {"Edit", "Create", "Delete"} /\ PlanIn("Live", o) = Scoped(o)
           /\ o.kind # "Edit" => o.target = Permanent
  BY DEF ByTask, PlanIn, Plan, Shape

(* One command makes all of it if the operation has one scope, and otherwise the
   second what the first has left. *)
LEMMA ResultAlone ==
    ASSUME NEW o, o.kind \in {"Edit", "Create", "Delete"}, NEW before, DOMAIN before = Fields,
           before = [field \in DOMAIN before |-> before[field]],
           NEW scope \in Both, o.target = {scope}, o.kind # "Edit" => scope = "permanent"
    PROVE  Carried(Step(scope, o), before) = Result(o, before)
<1>1. CASE o.kind = "Edit"
  <2>1. Carried(Step(scope, o), before) = [before EXCEPT ![scope] = Edited(o, @)]
    BY <1>1 DEF Carried, Step
  <2> DEFINE run == Edited(o, before.runtime)
             disk == Edited(o, before.permanent)
  <2>2. CASE scope = "runtime"
    <3>1. Result(o, before) = [before EXCEPT !.runtime = run, !.permanent = before.permanent]
      BY <1>1, <2>2 DEF Result, Fields
    <3>2. Carried(Step(scope, o), before) = [before EXCEPT !.runtime = run]
      BY <2>1, <2>2
    <3> HIDE DEF run
    <3> QED
      BY <3>1, <3>2 DEF Fields
  <2>3. CASE scope = "permanent"
    <3>1. Result(o, before) = [before EXCEPT !.runtime = before.runtime, !.permanent = disk]
      BY <1>1, <2>3 DEF Result, Fields
    <3>2. Carried(Step(scope, o), before) = [before EXCEPT !.permanent = disk]
      BY <2>1, <2>3
    <3> HIDE DEF disk
    <3> QED
      BY <3>1, <3>2 DEF Fields
  <2> QED
    BY <2>2, <2>3, TwoScopes
<1>2. CASE o.kind # "Edit"
  BY <1>2 DEF Result
<1> QED
  BY <1>1, <1>2

LEMMA ResultOfTwo ==
    ASSUME NEW o, o.kind = "Edit", NEW before, DOMAIN before = Fields, o.target = Both
    PROVE  Carried(Step("permanent", o), Carried(Step("runtime", o), before)) = Result(o, before)
<1> DEFINE half == Carried(Step("runtime", o), before)
<1>1. half = [before EXCEPT !.runtime = Edited(o, @)]
  BY DEF Carried, Step
<1>2. Carried(Step("permanent", o), half) = [half EXCEPT !.permanent = Edited(o, @)]
  BY DEF Carried, Step
<1>3. [half EXCEPT !.permanent = Edited(o, @)] =
        [before EXCEPT !.runtime = Edited(o, @), !.permanent = Edited(o, @)]
  BY <1>1 DEF Fields
<1>4. Result(o, before) = [before EXCEPT !.runtime = Edited(o, @), !.permanent = Edited(o, @)]
  BY TwoScopes DEF Result
<1> QED
  BY <1>2, <1>3, <1>4

(* The commands left, and what the others have made, to the element. *)
Exact ==
    mode = "Live" /\ unit # "Fired" /\ ByTask(op) =>
        /\ stage = "Applying" =>
              \/ todo = Scoped(op) /\ firewall = original
              \/ /\ op.target = Both /\ todo = <<Step("permanent", op)>>
                 /\ firewall = Carried(Step("runtime", op), original)
        /\ stage \in {"Countdown", "Waiting", "Disarming", "Done"} /\ reverted = "None"
           /\ outcome = "Applied" => firewall = Result(op, original)

LEMMA ExactInit == Init => Exact
  BY DEF Init, Exact

LEMMA ExactForward ==
    ASSUME Settled, Exact, CommandSucceeds, stage = "Applying", mode = "Live", unit # "Fired",
           ByTask(op)
    PROVE  Exact'
<1> USE DEF fixed, guard
<1>1. /\ UNCHANGED <<mode, op, original, unit>>
      /\ firewall' = Carried(Head(todo), firewall) /\ todo' = Tail(todo)
      /\ Len(todo) > 1 => stage' = stage
      /\ ~(Len(todo) > 1) => Concluded("Applied")
  BY DEF CommandSucceeds
<1>2. ~(Len(todo) > 1) => stage' \in {"Countdown", "Disarming", "Done"}
  BY <1>1 DEF Concluded, Begin
<1>3. /\ Shape(op) /\ DOMAIN original = Fields
      /\ original = [field \in DOMAIN original |-> original[field]]
  BY OriginalFields DEF Settled, IsFirewall
<1>4. op.kind \in {"Edit", "Create", "Delete"} /\ (op.kind # "Edit" => op.target = Permanent)
  BY <1>3, TaskKinds
<1> DEFINE r == Step("runtime", op)
           p == Step("permanent", op)
<1>5. CASE op.target = Both /\ todo = Scoped(op) /\ firewall = original
  <2>1. todo = <<r, p>>
    BY <1>3, <1>5, ScopedSteps
  <2> HIDE DEF r, p
  <2>2. Len(todo) > 1 /\ Head(todo) = r /\ Tail(todo) = <<p>>
    BY <2>1, ShortTuples
  <2>3. /\ stage' = "Applying" /\ op'.target = Both /\ todo' = <<Step("permanent", op')>>
        /\ firewall' = Carried(Step("runtime", op'), original')
    BY <1>1, <1>5, <2>2 DEF r, p
  <2> QED
    BY <2>3 DEF Exact
<1>6. CASE op.target = Both /\ todo = <<p>> /\ firewall = Carried(r, original)
  <2>1. op.kind = "Edit"
    BY <1>4, <1>6, TwoScopes DEF Permanent
  <2>2. Carried(p, Carried(r, original)) = Result(op, original)
    BY <1>3, <1>6, <2>1, ResultOfTwo
  <2> HIDE DEF r, p
  <2>3. Len(todo) = 1 /\ Head(todo) = p
    BY <1>6, ShortTuples
  <2>4. firewall' = Result(op, original) /\ stage' # "Applying"
    BY <1>1, <1>2, <1>6, <2>2, <2>3
  <2>5. firewall' = Result(op', original')
    BY <1>1, <2>4
  <2> QED
    BY <2>4, <2>5 DEF Exact
<1>7. CASE op.target # Both /\ todo = Scoped(op) /\ firewall = original
  <2>1. PICK scope \in Both : op.target = {scope} /\ todo = <<Step(scope, op)>>
    BY <1>3, <1>7, ScopedSteps, TwoScopes DEF Runtime, Permanent
  <2>2. op.kind # "Edit" => scope = "permanent"
    BY <1>4, <2>1 DEF Permanent
  <2>3. Carried(Step(scope, op), original) = Result(op, original)
    BY <1>3, <1>4, <2>1, <2>2, ResultAlone
  <2>4. Len(todo) = 1 /\ Head(todo) = Step(scope, op)
    BY <2>1, ShortTuples
  <2>5. firewall' = Result(op, original) /\ stage' # "Applying"
    BY <1>1, <1>2, <1>7, <2>3, <2>4
  <2>6. firewall' = Result(op', original')
    BY <1>1, <2>5
  <2> QED
    BY <2>5, <2>6 DEF Exact
<1> QED
  BY <1>5, <1>6, <1>7 DEF Exact

LEMMA ExactCommands ==
    ASSUME Settled, Exact,
           CommandSucceeds \/ CommandFails \/ CommandTimesOut \/ NothingToRun
    PROVE  Exact'
<1> USE DEF fixed, guard
<1>1. UNCHANGED <<mode, op, original, unit>> /\ stage \in {"Applying", "Reverting"}
  BY DEF CommandSucceeds, CommandFails, CommandTimesOut, NothingToRun, Running
<1>2. CASE mode # "Live" \/ unit = "Fired" \/ ~ByTask(op)
  <2>1. mode' # "Live" \/ unit' = "Fired" \/ ~ByTask(op')
    BY <1>1, <1>2
  <2> QED
    BY <2>1 DEF Exact
<1>3. CASE stage = "Reverting"
  <2>1. \/ stage' = "Reverting"
        \/ \E result \in {"Applied", "Failed", "PartiallyApplied", "Indeterminate"} :
              Concluded(result)
    BY <1>3 DEF CommandSucceeds, CommandFails, CommandTimesOut, NothingToRun
  <2>2. ASSUME NEW result \in {"Applied", "Failed", "PartiallyApplied", "Indeterminate"},
               Concluded(result)
        PROVE  stage' # "Applying" /\ reverted' # "None"
    BY <1>3, <2>2 DEF Concluded, Begin
  <2>3. stage' = "Reverting" \/ (stage' # "Applying" /\ reverted' # "None")
    BY <2>1, <2>2
  <2> QED
    BY <2>3 DEF Exact
<1>4. CASE stage = "Applying" /\ CommandSucceeds
  BY <1>2, <1>4, ExactForward
<1>5. CASE stage = "Applying" /\ ~CommandSucceeds
  <2>1. \E result \in {"Failed", "PartiallyApplied", "Indeterminate"} : Concluded(result)
    BY <1>5 DEF CommandFails, CommandTimesOut, NothingToRun
  <2>2. stage' # "Applying" /\ outcome' # "Applied"
    BY <1>5, <2>1 DEF Concluded, Begin
  <2> QED
    BY <2>2 DEF Exact
<1> QED
  BY <1>1, <1>3, <1>4, <1>5

LEMMA ExactNext == ASSUME Settled, Progress, Exact, [Next]_vars PROVE Exact'
<1> USE DEF fixed, guard, control, clock, person
<1>1. CASE UNCHANGED vars \/ Tick \/ TickUnwatched
  <2>1. UNCHANGED <<firewall, original, op, outcome, reverted, mode, todo, stage, unit>>
    BY <1>1 DEF vars, Tick, TickUnwatched
  <2> QED
    BY <2>1 DEF Exact
<1>2. CASE Dispatch \/ Reject \/ RunSystemd \/ UnitStarts \/ Crash
  <2>1. stage' \in {"Accepted", "Rejected", "Arming", "Crashed"}
    BY <1>2 DEF Dispatch, Reject, RunSystemd, UnitStarts, Crash, Begin
  <2> QED
    BY <2>1 DEF Exact
<1>3. CASE Unguarded \/ WatchdogUnavailable \/ ArmAnswers
  <2>1. /\ stage \in {"Accepted", "Arming"} /\ stage' = "Applying" /\ todo' = PlanIn(mode, op)
        /\ UNCHANGED <<firewall, original, unit, mode, op>>
    BY <1>3 DEF Unguarded, WatchdogUnavailable, ArmAnswers, Commands, Begin
  <2>2. unit # "Fired" => firewall = original
    BY <2>1 DEF Progress
  <2>3. mode = "Live" /\ ByTask(op) => todo' = Scoped(op)
    BY <2>1, TaskKinds DEF Settled
  <2>4. mode' = "Live" /\ unit' # "Fired" /\ ByTask(op') => todo' = Scoped(op') /\ firewall' = original'
    BY <2>1, <2>2, <2>3
  <2> QED
    BY <2>1, <2>4 DEF Exact
<1>4. CASE CommandSucceeds \/ CommandFails \/ CommandTimesOut \/ NothingToRun
  BY <1>4, ExactCommands
<1>5. CASE Keep \/ FireRollback
  <2>1. /\ stage = "Countdown" /\ stage' \in {"Disarming", "Done", "Waiting"}
        /\ UNCHANGED <<firewall, original, unit, op, outcome, reverted, mode>>
    BY <1>5 DEF Keep, FireRollback, Begin
  <2> QED
    BY <2>1 DEF Exact
<1>6. CASE ApplyRollback
  <2>1. stage' = "Reverting"
    BY <1>6, InverseDiffers DEF ApplyRollback, Commands, Begin, Settled
  <2> QED
    BY <2>1 DEF Exact
<1>7. CASE Disarm
  <2>1. /\ stage = "Disarming" /\ stage' = "Done" /\ (unit' # "Fired" => unit # "Fired")
        /\ UNCHANGED <<firewall, original, op, outcome, reverted, mode>>
    BY <1>7 DEF Disarm
  <2> QED
    BY <2>1 DEF Exact
<1>8. CASE WatchdogFires
  BY <1>8 DEF WatchdogFires, Exact
<1> QED
  BY <1>1, <1>2, <1>3, <1>4, <1>5, <1>6, <1>7, <1>8 DEF Next

(* A task that needs nothing of a scope leaves it alone. *)
LEMMA EnforcedAlready ==
    ASSUME NEW o, Shape(o), o.kind = "Edit", NEW configuration, o.object \in DOMAIN configuration,
           configuration = [object \in DOMAIN configuration |-> configuration[object]],
           o.element \in configuration[o.object] <=> o.adding
    PROVE  Enforced(Task(o, TRUE), configuration) = configuration
<1> DEFINE task == Task(o, TRUE)
           now == configuration[o.object]
           then == IF (task.state = "enabled") = task.yes THEN With(now, task.element)
                   ELSE now \ {task.element}
<1>1. /\ o.adding \in BOOLEAN /\ o.element[1] # "target"
      /\ task.zone = o.object /\ task.element = o.element /\ task.yes = TRUE
      /\ task.state = IF o.adding THEN "enabled" ELSE "disabled"
  BY DEF Task, Shape
<1>2. Enforced(task, configuration) = [configuration EXCEPT ![o.object] = then]
  BY <1>1 DEF Enforced
<1>3. then = now
  <2>1. CASE o.adding = TRUE
    BY <1>1, <2>1 DEF With
  <2>2. CASE o.adding = FALSE
    BY <1>1, <2>2
  <2> QED
    BY <1>1, <2>1, <2>2
<1> HIDE DEF then, task
<1>4. [configuration EXCEPT ![o.object] = then] = configuration
  BY <1>3
<1> QED
  BY <1>2, <1>4 DEF task

(* A task does to a scope that it names what the command does. *)
LEMMA EnforcedEdited ==
    ASSUME NEW o, Shape(o), o.kind = "Edit", NEW t, NEW configuration
    PROVE  Enforced(Task([o EXCEPT !.target = t], TRUE), configuration) = Edited(o, configuration)
  BY DEF Enforced, Edited, Task, Shape, Make

LEMMA TargetFlags ==
    /\ Runtime # Both /\ Permanent # Both /\ Runtime # Permanent
    /\ "runtime" \in Runtime /\ "permanent" \notin Runtime
    /\ "permanent" \in Permanent /\ "runtime" \notin Permanent
    /\ "runtime" \in Both /\ "permanent" \in Both
  BY DEF Runtime, Permanent, Both

(* The task of an accepted operation. *)
LEMMA TaskDone ==
    ASSUME NEW o, Shape(o), ByTask(o), NEW before, IsFirewall(before),
           Suited("Live", o, before)
    PROVE  /\ ~ModuleRefuses(Task(o, TRUE), before)
           /\ Performed(Task(o, TRUE), before) = Result(o, before)
<1> DEFINE task == Task(o, TRUE)
<1>1. /\ o.target \in {Runtime, Permanent, Both} /\ o.adding \in BOOLEAN
      /\ o = [o EXCEPT !.target = o.target]
      /\ o.kind \in {"Edit", "Create", "Delete"} /\ (o.kind # "Edit" => o.target = Permanent)
  BY TaskKinds DEF Shape, Make, Targets
<1>2. /\ task.zone = o.object
      /\ task.permanent <=> "permanent" \in o.target
      /\ task.immediate <=> "runtime" \in o.target
  BY <1>1, TargetFlags DEF Task
<1>3. CASE o.kind = "Edit"
  <2>1. task.state \in {"enabled", "disabled"}
    BY <1>3 DEF Task
  <2>2. \A scope \in o.target : o.object \in DOMAIN before[scope]
    BY <1>3 DEF Suited
  <2>3. ~ModuleRefuses(task, before)
    BY <1>2, <2>1, <2>2 DEF ModuleRefuses
  <2>4. \A configuration : Enforced(task, configuration) = Edited(o, configuration)
    BY <1>1, <1>3, EnforcedEdited
  <2> DEFINE run == IF "runtime" \in o.target THEN Edited(o, before.runtime) ELSE before.runtime
             disk == IF "permanent" \in o.target THEN Edited(o, before.permanent) ELSE before.permanent
  <2>5. /\ (IF task.immediate THEN Enforced(task, before.runtime) ELSE before.runtime) = run
        /\ (IF task.permanent THEN Enforced(task, before.permanent) ELSE before.permanent) = disk
    BY <1>2, <2>4
  <2>6. DOMAIN before = Fields
    BY DEF IsFirewall, Fields
  <2>7. Result(o, before) = [before EXCEPT !.runtime = run, !.permanent = disk]
    BY <1>3, <2>6 DEF Result, Fields
  <2> HIDE DEF run, disk, task
  <2>8. Performed(task, before) = [before EXCEPT !.runtime = run, !.permanent = disk]
    BY <2>1, <2>5, <2>6 DEF Performed, Fields
  <2> QED
    BY <2>3, <2>7, <2>8 DEF task
<1>4. CASE o.kind = "Create"
  <2>1. task.state = "present"
    BY <1>4 DEF Task
  <2>2. ~ModuleRefuses(task, before)
    BY <1>1, <1>2, <1>4, <2>1, TargetFlags DEF ModuleRefuses
  <2>3. Performed(task, before) = Result(o, before)
    BY <1>2, <1>4, <2>1 DEF Performed, Result, Carried, Step
  <2> QED
    BY <2>2, <2>3
<1>5. CASE o.kind = "Delete"
  <2>1. task.state = "absent"
    BY <1>5 DEF Task
  <2>2. ~ModuleRefuses(task, before)
    BY <1>1, <1>2, <1>5, <2>1, TargetFlags DEF ModuleRefuses
  <2>3. Performed(task, before) = Result(o, before)
    BY <1>2, <1>5, <2>1 DEF Performed, Result, Carried, Step
  <2> QED
    BY <2>2, <2>3
<1> QED
  BY <1>1, <1>3, <1>4, <1>5

(* The task of an operation that was asked for in both scopes and accepted in one:
   the module finds the other scope as it should be, unless it lacks the zone. *)
LEMMA TaskWidened ==
    ASSUME NEW o, Shape(o), ByTask(o), o.kind = "Edit", NEW before, IsFirewall(before),
           Suited("Live", o, before), NEW scope \in Both, NEW other \in Both, scope # other,
           o.target = {scope}, o.object \in DOMAIN before[other],
           o.element \in before[other][o.object] <=> o.adding
    PROVE  /\ ~ModuleRefuses(Task([o EXCEPT !.target = Both], TRUE), before)
           /\ Performed(Task([o EXCEPT !.target = Both], TRUE), before) = Result(o, before)
<1> DEFINE task == Task([o EXCEPT !.target = Both], TRUE)
<1>1. o = [kind |-> o.kind, object |-> o.object, element |-> o.element, adding |-> o.adding,
           target |-> o.target] /\ o.adding \in BOOLEAN
  BY DEF Shape, Make
<1>2. /\ task.zone = o.object /\ task.permanent = TRUE /\ task.immediate = TRUE
      /\ task.state \in {"enabled", "disabled"}
  BY <1>1, TargetFlags DEF Task
<1>3. /\ DOMAIN before = Fields /\ before = [field \in DOMAIN before |-> before[field]]
      /\ \A s \in Both : before[s] = [object \in DOMAIN before[s] |-> before[s][object]]
  BY DEF IsFirewall, Fields
<1>4. \A configuration : Enforced(task, configuration) = Edited(o, configuration)
  BY EnforcedEdited
<1>5. Enforced(task, before[other]) = before[other]
  <2>1. Enforced(Task(o, TRUE), before[other]) = before[other]
    BY <1>3, EnforcedAlready
  <2>2. Enforced(Task([o EXCEPT !.target = o.target], TRUE), before[other]) = Edited(o, before[other])
    BY EnforcedEdited
  <2>3. [o EXCEPT !.target = o.target] = o
    BY <1>1
  <2> QED
    BY <1>4, <2>1, <2>2, <2>3
<1>6. o.object \in DOMAIN before[scope]
  BY DEF Suited
<1>7. ~ModuleRefuses(task, before)
  BY <1>2, <1>6, TwoScopes DEF ModuleRefuses
<1> HIDE DEF task
<1>8. Performed(task, before) = [before EXCEPT !.runtime = Enforced(task, @),
                                               !.permanent = Enforced(task, @)]
  BY <1>2, <1>3 DEF Performed, Fields
<1>9. \/ scope = "runtime" /\ other = "permanent"
      \/ scope = "permanent" /\ other = "runtime"
  BY TwoScopes
<1> DEFINE run == IF "runtime" \in o.target THEN Edited(o, before.runtime) ELSE before.runtime
           disk == IF "permanent" \in o.target THEN Edited(o, before.permanent) ELSE before.permanent
<1>10. Enforced(task, before.runtime) = run /\ Enforced(task, before.permanent) = disk
  BY <1>4, <1>5, <1>9
<1>11. Result(o, before) = [before EXCEPT !.runtime = run, !.permanent = disk]
  BY <1>3 DEF Result, Fields
<1> HIDE DEF run, disk
<1>12. Performed(task, before) = [before EXCEPT !.runtime = run, !.permanent = disk]
  BY <1>3, <1>8, <1>10 DEF Fields
<1> QED
  BY <1>7, <1>11, <1>12 DEF task

(* What narrowing left out had the change already, or lacks the object. *)
LEMMA LeftOut ==
    ASSUME NEW o, Shape(o), NEW s, o.kind = "Edit", NEW asked, asked = [o EXCEPT !.target = Both],
           NarrowedFor(asked, s) = o, asked # o
    PROVE  \E scope, other \in Both :
              /\ scope # other /\ o.target = {scope}
              /\ Exists(asked, s, other) => Present(asked, s, other) = o.adding
<1>1. o = [kind |-> o.kind, object |-> o.object, element |-> o.element, adding |-> o.adding,
           target |-> o.target] /\ o.adding \in BOOLEAN
  BY DEF Shape, Make
<1>2. asked.kind = "Edit" /\ asked.adding = o.adding /\ asked.target = Both
  BY <1>1
<1> DEFINE needing == {t \in Both : Exists(asked, s, t) /\ Present(asked, s, t) # asked.adding}
<1>3. o = [asked EXCEPT !.target = needing]
  BY <1>2 DEF NarrowedFor
<1>4. o.target = needing
  BY <1>2, <1>3
<1>5. o.target # Both
  BY <1>1
<1>6. PICK scope \in Both : o.target = {scope}
  BY <1>5, TwoScopes DEF Shape, Targets, Runtime, Permanent
<1>7. PICK other \in Both : other # scope
  BY TwoScopes
<1>8. other \notin needing
  BY <1>4, <1>6, <1>7
<1>9. Exists(asked, s, other) => Present(asked, s, other) = o.adding
  BY <1>2, <1>8
<1> QED
  BY <1>6, <1>7, <1>9

(* Whatever was asked for, its task and what was carried out agree. *)
LEMMA AskedAgrees ==
    ASSUME Settled, mode = "Live", stage \notin {"Asked", "Rejected"}, firewall = Result(op, original),
           NEW asked \in AsAsked, NEW task \in ModuleTask(asked)
    PROVE  IF asked.kind = "Edit" /\ \E scope \in asked.target \ op.target : ~Exists(asked, original, scope)
           THEN ModuleRefuses(task, original)
           ELSE ~ModuleRefuses(task, original) /\ Performed(task, original) = firewall
<1>1. /\ Shape(op) /\ IsFirewall(original) /\ Suited("Live", op, original)
      /\ DOMAIN original = Fields
  BY OriginalFields DEF Settled
<1>2. ByTask(asked) /\ task = Task(asked, TRUE)
  BY DEF ModuleTask
<1>3. CASE asked = op
  BY <1>1, <1>2, <1>3, TaskDone
<1>4. CASE asked # op
  <2> DEFINE s == Snapshot(original, Incomplete)
  <2>1. asked = [op EXCEPT !.target = Both] /\ NarrowedFor(asked, s) = op
    BY <1>4 DEF AsAsked
  <2>2. op = [kind |-> op.kind, object |-> op.object, element |-> op.element,
              adding |-> op.adding, target |-> op.target] /\ op.adding \in BOOLEAN
    BY <1>1 DEF Shape, Make
  <2>3. /\ asked.kind = op.kind /\ asked.object = op.object /\ asked.element = op.element
        /\ asked.adding = op.adding /\ asked.target = Both
    BY <2>1, <2>2
  <2>4. op.kind = "Edit"
    <3>1. asked.kind \in {"Edit", "PolicySet"}
      BY <1>4, <2>1 DEF NarrowedFor
    <3> QED
      BY <1>2, <2>3, <3>1 DEF ByTask
  <2>5. ByTask(op)
    BY <1>2, <2>3 DEF ByTask
  <2>6. PICK scope \in Both, other \in Both :
           /\ scope # other /\ op.target = {scope}
           /\ Exists(asked, s, other) => Present(asked, s, other) = op.adding
    BY <1>1, <1>4, <2>1, <2>4, LeftOut
  <2>7. s[other] = original[other]
    BY <1>1, SnapshotFields DEF Fields
  <2> HIDE DEF s
  <2>8. asked.target \ op.target = {other}
    BY <2>3, <2>6, TwoScopes
  <2>9. CASE op.object \in DOMAIN original[other]
    <3>1. Exists(asked, original, other) /\ Exists(asked, s, other)
      BY <2>3, <2>7, <2>9 DEF Exists
    <3>2. op.element \in original[other][op.object] <=> op.adding
      BY <2>2, <2>3, <2>6, <2>7, <3>1 DEF Present
    <3>3. ~ModuleRefuses(task, original) /\ Performed(task, original) = Result(op, original)
      BY <1>1, <1>2, <2>1, <2>4, <2>5, <2>6, <2>9, <3>2, TaskWidened
    <3> QED
      BY <2>8, <3>1, <3>3
  <2>10. CASE op.object \notin DOMAIN original[other]
    <3>1. /\ task.zone = op.object /\ task.permanent = TRUE /\ task.immediate = TRUE
          /\ task.state \in {"enabled", "disabled"}
      BY <1>2, <2>3, <2>4, TargetFlags DEF Task
    <3>2. ModuleRefuses(task, original)
      BY <2>10, <3>1, TwoScopes DEF ModuleRefuses
    <3>3. ~Exists(asked, original, other)
      BY <2>3, <2>10 DEF Exists
    <3> QED
      BY <2>3, <2>4, <2>8, <3>2, <3>3
  <2> QED
    BY <2>9, <2>10
<1> QED
  BY <1>3, <1>4

(* An exported playbook does to the firewall that an operation met exactly what its
   commands, narrowed or not, did to it: after every operation that was applied
   live, for every firewall and any zones and values; only where a zone is missing
   in a scope that the operation was narrowed away from, its task is refused
   (export_ansible and ansible_task; narrowed_for and plan). *)
THEOREM ExportsAgree == Spec => []ExportAgrees
<1>1. Init => Settled /\ Progress /\ Exact
  BY SettledInit, ProgressInit, ExactInit
<1>2. (Settled /\ Progress /\ Exact) /\ [Next]_vars => (Settled /\ Progress /\ Exact)'
  BY SettledNext, ProgressNext, ExactNext
<1>3. Settled /\ Exact => ExportAgrees
  <2> SUFFICES ASSUME Settled, Exact, mode = "Live", stage \in {"Countdown", "Done"},
                      outcome = "Applied", reverted = "None", unit # "Fired",
                      NEW asked \in AsAsked, NEW task \in ModuleTask(asked)
               PROVE  IF asked.kind = "Edit" /\ \E scope \in asked.target \ op.target :
                                                   ~Exists(asked, original, scope)
                      THEN ModuleRefuses(task, original)
                      ELSE ~ModuleRefuses(task, original) /\ Performed(task, original) = firewall
    BY DEF ExportAgrees
  <2>1. ByTask(op)
    <3>1. ByTask(asked) /\ asked \in {op, [op EXCEPT !.target = Both]}
      BY DEF ModuleTask, AsAsked
    <3>2. asked.object = op.object /\ asked.kind = op.kind /\ asked.element = op.element
      BY <3>1 DEF Settled, Shape, Make
    <3> QED
      BY <3>1, <3>2 DEF ByTask
  <2>2. firewall = Result(op, original)
    BY <2>1 DEF Exact
  <2> QED
    BY <2>2, AskedAgrees
<1> QED
  BY <1>1, <1>2, <1>3, PTL DEF Spec

-----------------------------------------------------------------------------
(* There and back *)

(* What a guarded operation changes, and how. *)
Aspect(scope, o) == IF o.kind = "Panic" THEN "panic" ELSE scope

Turned(o, value) ==
    CASE o.kind = "Edit" -> Edited(o, value)
      [] o.kind = "PolicySet" -> Switched(o, value)
      [] OTHER -> o.adding

(* Every part of the firewall is as before, or as the operation makes it. *)
Between(o, before, fw) ==
    /\ fw = [field \in Fields |-> fw[field]]
    /\ \A field \in Fields :
          \/ fw[field] = before[field]
          \/ /\ \E scope \in o.target : field = Aspect(scope, o)
             /\ fw[field] = Turned(o, before[field])

Even(o, before) == o.kind = "PolicySet" => \A scope \in o.target : ~Mixed(before, scope)

(* An operation that can be taken back, as it was accepted. *)
Reversible(m, o, before) ==
    /\ o.kind \in Guardable /\ Shape(o)
    /\ IsFirewall(before) /\ Suited(m, o, before) /\ Even(o, before)

Opposed(o, inverse) ==
    /\ inverse.kind = o.kind /\ inverse.object = o.object /\ inverse.element = o.element
    /\ inverse.adding = ~o.adding

LEMMA AspectField ==
    ASSUME NEW o, Shape(o), NEW scope \in o.target PROVE scope \in Both /\ Aspect(scope, o) \in Fields
  BY DEF Shape, Targets, Both, Runtime, Permanent, Aspect, Fields

LEMMA CarriedTurned ==
    ASSUME NEW o, o.kind \in Guardable, NEW scope, NEW fw
    PROVE  Carried(Step(scope, o), fw) = [fw EXCEPT ![Aspect(scope, o)] = Turned(o, @)]
<1>1. CASE o.kind = "Edit"
  BY <1>1 DEF Carried, Step, Aspect, Turned
<1>2. CASE o.kind = "PolicySet"
  BY <1>2 DEF Carried, Step, Aspect, Turned
<1>3. CASE o.kind = "Panic"
  BY <1>3 DEF Carried, Step, Aspect, Turned
<1> QED
  BY <1>1, <1>2, <1>3 DEF Guardable

(* Doing it twice is doing it once. *)
LEMMA TurnedTwice ==
    ASSUME NEW o, Shape(o), o.kind \in Guardable, NEW c,
           o.kind = "Edit" => o.object \in DOMAIN c
    PROVE  Turned(o, Turned(o, c)) = Turned(o, c)
<1>0. o.adding \in BOOLEAN
  BY DEF Shape
<1>1. CASE o.kind = "Edit"
  <2> DEFINE once == Edited(o, c)
             twice == Edited(o, once)
  <2>1. o.element[1] # "target"
    BY <1>1 DEF Shape
  <2>2. /\ once = [object \in DOMAIN c |-> once[object]] /\ DOMAIN once = DOMAIN c
        /\ \A object \in DOMAIN c : object # o.object => once[object] = c[object]
        /\ once[o.object] = IF o.adding THEN c[o.object] \cup {o.element} ELSE c[o.object] \ {o.element}
    BY <1>1, <2>1 DEF Edited, With
  <2> HIDE DEF once
  <2>3. /\ twice = [object \in DOMAIN c |-> twice[object]] /\ DOMAIN twice = DOMAIN c
        /\ \A object \in DOMAIN c : object # o.object => twice[object] = once[object]
        /\ twice[o.object] =
             IF o.adding THEN once[o.object] \cup {o.element} ELSE once[o.object] \ {o.element}
    BY <1>1, <2>1, <2>2 DEF Edited, With
  <2> HIDE DEF twice
  <2>4. twice[o.object] = once[o.object]
    BY <2>2, <2>3
  <2>5. twice = once
    BY <2>2, <2>3, <2>4
  <2> QED
    BY <1>1, <2>5 DEF Turned, once, twice
<1>2. CASE o.kind = "PolicySet"
  <2> DEFINE once == Switched(o, c)
             twice == Switched(o, once)
  <2>1. /\ once = [object \in DOMAIN c |-> once[object]] /\ DOMAIN once = DOMAIN c
        /\ \A object \in DOMAIN c : once[object] =
             IF object \notin Member THEN c[object]
             ELSE IF o.adding THEN c[object] \ {Disabled} ELSE c[object] \cup {Disabled}
    BY DEF Switched
  <2> HIDE DEF once
  <2>2. /\ twice = [object \in DOMAIN c |-> twice[object]]
        /\ \A object \in DOMAIN c : twice[object] =
             IF object \notin Member THEN once[object]
             ELSE IF o.adding THEN once[object] \ {Disabled} ELSE once[object] \cup {Disabled}
    BY <2>1 DEF Switched
  <2> HIDE DEF twice
  <2>3. \A object \in DOMAIN c : twice[object] = once[object]
    BY <2>1, <2>2
  <2>4. twice = once
    BY <2>1, <2>2, <2>3
  <2> QED
    BY <1>2, <2>4 DEF Turned, once, twice
<1>3. CASE o.kind = "Panic"
  BY <1>3 DEF Turned
<1> QED
  BY <1>1, <1>2, <1>3 DEF Guardable

(* All members of an even set are as the operation does not want them. *)
LEMMA EvenMembers ==
    ASSUME NEW m, NEW o, NEW before, Reversible(m, o, before), o.kind = "PolicySet",
           NEW scope \in o.target
    PROVE  /\ Member \subseteq DOMAIN before[scope]
           /\ \A member \in Member : (Disabled \in before[scope][member]) = o.adding
<1> DEFINE disabled == {member \in Member : Disabled \in before[scope][member]}
<1>1. /\ Member \subseteq DOMAIN before[scope] /\ SetMatches(o.adding, before, scope) = {FALSE}
      /\ ~Mixed(before, scope) /\ o.adding \in BOOLEAN
  BY DEF Reversible, Suited, Even, Shape
<1>2. Member \cap DOMAIN before[scope] = Member
  BY <1>1
<1>3. /\ SetMatches(TRUE, before, scope) = {disabled = {}}
      /\ SetMatches(FALSE, before, scope) = {disabled = Member}
  BY <1>2 DEF SetMatches
<1>4. CASE o.adding = TRUE
  <2>1. disabled = Member
    BY <1>1, <1>3, <1>4 DEF Mixed
  <2> QED
    BY <1>1, <1>4, <2>1
<1>5. CASE o.adding = FALSE
  <2>1. disabled = {}
    BY <1>1, <1>3, <1>5 DEF Mixed
  <2> QED
    BY <1>1, <1>5, <2>1
<1> QED
  BY <1>1, <1>4, <1>5

(* The opposite operation makes of it what it was, whether it was done or not. *)
LEMMA TurnedBack ==
    ASSUME NEW m, NEW o, NEW before, Reversible(m, o, before), NEW inverse, Opposed(o, inverse),
           NEW scope \in o.target, NEW value,
           \/ value = before[Aspect(scope, o)]
           \/ value = Turned(o, before[Aspect(scope, o)])
    PROVE  Turned(inverse, value) = before[Aspect(scope, o)]
<1>0. scope \in Both /\ o.adding \in BOOLEAN /\ Shape(o) /\ IsFirewall(before)
      /\ inverse.adding = ~o.adding
  BY AspectField DEF Reversible, Shape, Opposed
<1> DEFINE c == before[scope]
<1>1. CASE o.kind = "Edit"
  <2>1. /\ o.element[1] # "target" /\ o.object \in DOMAIN c
        /\ (o.element \in c[o.object]) <=> ~o.adding
        /\ c = [object \in DOMAIN c |-> c[object]]
    BY <1>0, <1>1 DEF Reversible, Shape, Suited, IsFirewall
  <2>2. Aspect(scope, o) = scope
    BY <1>1 DEF Aspect
  <2> DEFINE done == Edited(o, c)
             back == Edited(inverse, value)
  <2> HIDE DEF c
  <2>3. /\ DOMAIN done = DOMAIN c
        /\ \A object \in DOMAIN c : object # o.object => done[object] = c[object]
        /\ done[o.object] = IF o.adding THEN c[o.object] \cup {o.element} ELSE c[o.object] \ {o.element}
    BY <2>1 DEF Edited, With
  <2>4. value = c \/ value = done
    BY <1>1, <2>2 DEF Turned, c
  <2> HIDE DEF done
  <2>5. DOMAIN value = DOMAIN c /\ \A object \in DOMAIN c : object # o.object => value[object] = c[object]
    BY <2>3, <2>4
  <2>6. /\ back = [object \in DOMAIN c |-> back[object]]
        /\ \A object \in DOMAIN c : object # o.object => back[object] = value[object]
        /\ back[o.object] =
             IF o.adding THEN value[o.object] \ {o.element} ELSE value[o.object] \cup {o.element}
    BY <1>0, <2>1, <2>5 DEF Edited, With, Opposed
  <2> HIDE DEF back
  <2>7. back[o.object] = c[o.object]
    <3>1. CASE o.adding = TRUE
      BY <2>1, <2>3, <2>4, <2>6, <3>1
    <3>2. CASE o.adding = FALSE
      BY <2>1, <2>3, <2>4, <2>6, <3>2
    <3> QED
      BY <1>0, <3>1, <3>2
  <2>8. back = c
    BY <2>1, <2>5, <2>6, <2>7
  <2>9. Turned(inverse, value) = back
    BY <1>1 DEF Turned, Opposed, back
  <2> QED
    BY <2>2, <2>8, <2>9 DEF c
<1>2. CASE o.kind = "PolicySet"
  <2>1. /\ Member \subseteq DOMAIN c
        /\ \A member \in Member : (Disabled \in c[member]) = o.adding
        /\ c = [object \in DOMAIN c |-> c[object]]
    BY <1>0, <1>2, EvenMembers DEF IsFirewall
  <2>2. Aspect(scope, o) = scope
    BY <1>2 DEF Aspect
  <2> DEFINE done == Switched(o, c)
             back == Switched(inverse, value)
  <2> HIDE DEF c
  <2>3. /\ DOMAIN done = DOMAIN c
        /\ \A object \in DOMAIN c : done[object] =
             IF object \notin Member THEN c[object]
             ELSE IF o.adding THEN c[object] \ {Disabled} ELSE c[object] \cup {Disabled}
    BY DEF Switched
  <2>4. value = c \/ value = done
    BY <1>2, <2>2 DEF Turned, c
  <2> HIDE DEF done
  <2>5. DOMAIN value = DOMAIN c
    BY <2>3, <2>4
  <2>6. /\ back = [object \in DOMAIN c |-> back[object]]
        /\ \A object \in DOMAIN c : back[object] =
             IF object \notin Member THEN value[object]
             ELSE IF o.adding THEN value[object] \cup {Disabled} ELSE value[object] \ {Disabled}
    BY <1>0, <2>5 DEF Switched
  <2> HIDE DEF back
  <2>7. ASSUME NEW object \in DOMAIN c PROVE back[object] = c[object]
    <3>1. CASE object \notin Member
      BY <2>3, <2>4, <2>6, <3>1
    <3>2. CASE object \in Member /\ o.adding = TRUE
      <4>1. Disabled \in c[object]
        BY <2>1, <3>2
      <4>2. value[object] = c[object] \/ value[object] = c[object] \ {Disabled}
        BY <2>3, <2>4, <3>2
      <4>3. back[object] = value[object] \cup {Disabled}
        BY <2>6, <3>2
      <4> QED
        BY <4>1, <4>2, <4>3
    <3>3. CASE object \in Member /\ o.adding = FALSE
      <4>1. Disabled \notin c[object]
        BY <2>1, <3>3
      <4>2. value[object] = c[object] \/ value[object] = c[object] \cup {Disabled}
        BY <2>3, <2>4, <3>3
      <4>3. back[object] = value[object] \ {Disabled}
        BY <2>6, <3>3
      <4> QED
        BY <4>1, <4>2, <4>3
    <3> QED
      BY <1>0, <3>1, <3>2, <3>3
  <2>8. back = c
    BY <2>1, <2>6, <2>7
  <2>9. Turned(inverse, value) = back
    BY <1>2 DEF Turned, Opposed, back
  <2> QED
    BY <2>2, <2>8, <2>9 DEF c
<1>3. CASE o.kind = "Panic"
  BY <1>0, <1>3 DEF Turned, Opposed, Aspect, Reversible, Suited, IsFirewall
<1> QED
  BY <1>1, <1>2, <1>3 DEF Reversible, Guardable

LEMMA BackAccepted ==
    ASSUME NEW m, NEW o, NEW before, Reversible(m, o, before), NEW inverse, Opposed(o, inverse),
           NEW scope \in o.target, NEW fw, Between(o, before, fw)
    PROVE  ~Refused(Step(scope, inverse), fw)
<1> DEFINE c == before[scope]
<1>0. /\ scope \in Both /\ o.adding \in BOOLEAN /\ Shape(o) /\ Aspect(scope, o) \in Fields
      /\ inverse.kind = o.kind /\ inverse.object = o.object /\ inverse.element = o.element
      /\ inverse.adding = ~o.adding
      /\ Step(scope, inverse).op = inverse /\ Step(scope, inverse).scope = scope
  BY AspectField DEF Reversible, Shape, Opposed, Step
<1>1. CASE o.kind = "Edit"
  <2>1. /\ o.object \in DOMAIN c /\ ((o.element \in c[o.object]) <=> ~o.adding)
        /\ OneBinding(c)
        /\ o.element[1] \in {"source", "interface"} => Type(o.object) = "zone"
    BY <1>0, <1>1 DEF Reversible, Suited, IsFirewall, Shape
  <2>2. fw[scope] = c \/ fw[scope] = Edited(o, c)
    BY <1>0, <1>1 DEF Between, Aspect, Turned
  <2> HIDE DEF c
  <2>3. /\ DOMAIN fw[scope] = DOMAIN c
        /\ \A object \in DOMAIN c : object # o.object => fw[scope][object] = c[object]
    BY <2>2 DEF Edited
  <2>4. ~BoundElsewhere(inverse, fw[scope])
    <3> SUFFICES ASSUME BoundElsewhere(inverse, fw[scope]) PROVE FALSE
      OBVIOUS
    <3>1. /\ inverse.adding /\ o.element[1] \in {"source", "interface"}
          /\ \E object \in DOMAIN c \ {o.object} : Type(object) = "zone" /\ o.element \in fw[scope][object]
      BY <1>0, <2>3 DEF BoundElsewhere
    <3>2. PICK object \in DOMAIN c \ {o.object} : Type(object) = "zone" /\ o.element \in c[object]
      BY <2>3, <3>1
    <3>3. o.element \in c[o.object] \cap c[object]
      BY <1>0, <2>1, <3>1, <3>2
    <3> QED
      BY <2>1, <3>1, <3>2, <3>3 DEF OneBinding
  <2> QED
    BY <1>0, <1>1, <2>1, <2>3, <2>4 DEF Refused
<1>2. CASE o.kind = "PolicySet"
  <2>1. Member \subseteq DOMAIN c
    BY <1>2, EvenMembers
  <2>2. fw[scope] = c \/ fw[scope] = Switched(o, c)
    BY <1>0, <1>2 DEF Between, Aspect, Turned
  <2>3. DOMAIN fw[scope] = DOMAIN c
    BY <2>2 DEF Switched
  <2> QED
    BY <1>0, <1>2, <2>1, <2>3 DEF Refused
<1>3. CASE o.kind = "Panic"
  BY <1>0, <1>3 DEF Refused
<1> QED
  BY <1>1, <1>2, <1>3 DEF Reversible, Guardable

LEMMA BetweenForward ==
    ASSUME NEW m, NEW o, NEW before, Reversible(m, o, before),
           NEW scope \in o.target, NEW fw, Between(o, before, fw)
    PROVE  Between(o, before, Carried(Step(scope, o), fw))
<1> DEFINE a == Aspect(scope, o)
           after == Carried(Step(scope, o), fw)
<1>1. after = [fw EXCEPT ![a] = Turned(o, @)]
  BY CarriedTurned DEF Reversible
<1>2. a \in Fields /\ scope \in Both
  BY AspectField DEF Reversible
<1>3. fw[a] = before[a] \/ fw[a] = Turned(o, before[a])
  BY <1>2 DEF Between
<1>4. Turned(o, Turned(o, before[a])) = Turned(o, before[a])
  <2>1. o.kind = "Edit" => o.object \in DOMAIN before[a]
    BY DEF Reversible, Suited, Aspect
  <2> QED
    BY <2>1, TurnedTwice DEF Reversible
<1>5. Turned(o, fw[a]) = Turned(o, before[a])
  BY <1>3, <1>4
<1> DEFINE new == Turned(o, before[a])
           old == fw[a]
<1>6. a = Aspect(scope, o)
  OBVIOUS
<1> HIDE DEF a, after
<1>7. /\ after = [field \in Fields |-> after[field]]
      /\ after[a] = Turned(o, before[a])
      /\ \A field \in Fields : field # a => after[field] = fw[field]
  BY <1>1, <1>2, <1>5 DEF Between
<1>8. Between(o, before, after)
  BY <1>6, <1>7 DEF Between
<1> QED
  BY <1>8 DEF after

LEMMA BetweenBack ==
    ASSUME NEW m, NEW o, NEW before, Reversible(m, o, before), NEW inverse, Opposed(o, inverse),
           NEW scope \in o.target, NEW fw, Between(o, before, fw)
    PROVE  /\ Between(o, before, Carried(Step(scope, inverse), fw))
           /\ Carried(Step(scope, inverse), fw)[Aspect(scope, o)] = before[Aspect(scope, o)]
           /\ \A field \in Fields :
                 fw[field] = before[field] =>
                    Carried(Step(scope, inverse), fw)[field] = before[field]
<1> DEFINE a == Aspect(scope, o)
           after == Carried(Step(scope, inverse), fw)
<1>1. after = [fw EXCEPT ![a] = Turned(inverse, @)]
  <2>1. inverse.kind \in Guardable /\ Aspect(scope, inverse) = a
    BY DEF Reversible, Opposed, Aspect
  <2> QED
    BY <2>1, CarriedTurned
<1>2. a \in Fields /\ scope \in Both
  BY AspectField DEF Reversible
<1>3. fw[a] = before[a] \/ fw[a] = Turned(o, before[a])
  BY <1>2 DEF Between
<1>4. Turned(inverse, fw[a]) = before[a]
  BY <1>3, TurnedBack
<1> HIDE DEF a, after
<1>5. /\ after = [field \in Fields |-> after[field]]
      /\ after[a] = before[a]
      /\ \A field \in Fields : field # a => after[field] = fw[field]
  BY <1>1, <1>2, <1>4 DEF Between
<1>6. Between(o, before, after)
  BY <1>5 DEF Between
<1> QED
  BY <1>5, <1>6 DEF a, after

(* If every part is as before, the whole is. *)
LEMMA AllBack ==
    ASSUME NEW m, NEW o, NEW before, Reversible(m, o, before), NEW fw, Between(o, before, fw),
           \A scope \in o.target : fw[Aspect(scope, o)] = before[Aspect(scope, o)]
    PROVE  fw = before
<1>1. \A field \in Fields : fw[field] = before[field]
  BY DEF Between
<1>2. before = [field \in Fields |-> before[field]]
  BY DEF Reversible, IsFirewall, Fields
<1> QED
  BY <1>1, <1>2 DEF Between

-----------------------------------------------------------------------------
(* A revert restores *)

Opposite(o) == [o EXCEPT !.adding = ~@]
StepsOf(o) == {Step(scope, o) : scope \in o.target}

(* The plan of a guarded operation has a command for each of its scopes. *)
LEMMA PlanCovers ==
    ASSUME NEW m, NEW o, Shape(o), o.kind \in Guardable,
           m = "Offline" => o.target = Permanent \/ o.kind = "Panic"
    PROVE  /\ PlanIn(m, o) \in Seq(StepsOf(o))
           /\ m = "Offline" /\ o.kind = "Panic" => PlanIn(m, o) = <<>>
           /\ ~(m = "Offline" /\ o.kind = "Panic") =>
                 \A scope \in o.target : \E i \in 1..Len(PlanIn(m, o)) : PlanIn(m, o)[i] = Step(scope, o)
<1> DEFINE plan == PlanIn(m, o)
           S == StepsOf(o)
           r == Step("runtime", o)
           p == Step("permanent", o)
<1>1. Plan(o) = Scoped(o)
  BY DEF Plan, Guardable
<1>2. CASE m = "Offline" /\ o.kind = "Panic"
  <2>1. plan = <<>>
    BY <1>2 DEF PlanIn, OfflinePlan
  <2>2. <<>> \in Seq(S)
    OBVIOUS
  <2> QED
    BY <1>2, <2>1, <2>2
<1>3. CASE ~(m = "Offline" /\ o.kind = "Panic")
  <2>1. CASE o.target = Both
    <3>1. m # "Offline"
      BY <1>3, <2>1, TwoScopes DEF Permanent
    <3>2. plan = <<r, p>>
      BY <1>1, <2>1, <3>1, ScopedSteps DEF PlanIn
    <3>3. r \in S /\ p \in S /\ o.target = {"runtime", "permanent"}
      BY <2>1, TwoScopes DEF StepsOf
    <3>4. \A scope \in o.target : Step(scope, o) = r \/ Step(scope, o) = p
      BY <3>3
    <3> HIDE DEF plan, S, r, p
    <3>5. plan \in Seq(S) /\ Len(plan) = 2 /\ plan[1] = r /\ plan[2] = p
      BY <3>2, <3>3, ShortSequences
    <3>6. \A scope \in o.target : \E i \in 1..Len(plan) : plan[i] = Step(scope, o)
      <4> SUFFICES ASSUME NEW scope \in o.target PROVE \E i \in 1..Len(plan) : plan[i] = Step(scope, o)
        OBVIOUS
      <4>1. CASE Step(scope, o) = r
        <5>1. 1 \in 1..Len(plan) /\ plan[1] = Step(scope, o)
          BY <3>5, <4>1
        <5> QED
          BY <5>1
      <4>2. CASE Step(scope, o) = p
        <5>1. 2 \in 1..Len(plan) /\ plan[2] = Step(scope, o)
          BY <3>5, <4>2
        <5> QED
          BY <5>1
      <4> QED
        BY <3>4, <4>1, <4>2
    <3> QED
      BY <1>3, <3>5, <3>6 DEF plan, S
  <2>2. CASE o.target = Runtime \/ o.target = Permanent
    <3>1. PICK scope \in o.target : o.target = {scope} /\ Plan(o) = <<Step(scope, o)>>
      BY <1>1, <2>2, ScopedSteps DEF Runtime, Permanent
    <3> DEFINE s == Step(scope, o)
    <3>2. s \in S
      BY DEF StepsOf
    <3> HIDE DEF s, S, plan
    <3>3. Plan(o) = <<s>>
      BY <3>1 DEF s
    <3>4. Last(Plan(o)) = s
      BY <3>3, ShortTuples
    <3>5. plan = <<s>>
      <4>1. CASE m # "Offline"
        BY <3>3, <4>1 DEF plan, PlanIn
      <4>2. CASE m = "Offline"
        <5>1. o.target # Runtime /\ o.kind \in {"Edit", "PolicySet"}
          BY <1>3, <4>2 DEF Guardable, Runtime, Permanent
        <5> QED
          BY <3>4, <4>2, <5>1 DEF plan, PlanIn, OfflinePlan
      <4> QED
        BY <4>1, <4>2
    <3>6. plan \in Seq(S) /\ Len(plan) = 1 /\ plan[1] = s
      BY <3>2, <3>5, ShortSequences
    <3>7. \A t \in o.target : 1 \in 1..Len(plan) /\ plan[1] = Step(t, o)
      BY <3>1, <3>6 DEF s
    <3> QED
      BY <1>3, <3>6, <3>7 DEF plan, S
  <2> QED
    BY <2>1, <2>2 DEF Shape, Targets
<1> QED
  BY <1>2, <1>3

(* An operation whose undoing the property is about. *)
Guided ==
    /\ op.kind \in Guardable /\ Uniform /\ stage \notin {"Asked", "Rejected"}
    /\ "runtime" \in op.target \/ unit # "Fired"

Restored(scope) == firewall[Aspect(scope, op)] = original[Aspect(scope, op)]

Reversal ==
    /\ reverted # "None" => NeedsGuard /\ stage \in {"Disarming", "Done", "Crashed"}
    /\ unit = "Fired" => stage \notin {"Asked", "Rejected", "Accepted", "Arming", "Applying"}
    /\ stage \in {"Asked", "Accepted", "Arming"} => todo = <<>>
    /\ Guided =>
          /\ Between(op, original, firewall)
          /\ mode = "Offline" /\ op.kind = "Panic" => firewall = original /\ todo = <<>>
          /\ stage = "Applying" => todo \in Seq(StepsOf(op))
          /\ stage = "Reverting" =>
                /\ todo \in Seq(StepsOf(Opposite(op)))
                /\ \A scope \in op.target :
                      Restored(scope) \/ \E i \in 1..Len(todo) : todo[i] = Step(scope, Opposite(op))
          /\ reverted = "Applied" => firewall = original
          /\ unit = "Fired" => Restored("runtime")

LEMMA ReversalInit == Init => Reversal
  BY DEF Init, Reversal, Guided

LEMMA GuidedReversible == ASSUME Settled, Guided PROVE Reversible(mode, op, original)
  BY DEF Settled, Guided, Uniform, Reversible, Even

LEMMA OppositeShape ==
    ASSUME NEW o, Shape(o), o.kind \in Guardable
    PROVE  /\ Shape(Opposite(o)) /\ Opposed(o, Opposite(o)) /\ Opposite(o).target = o.target
           /\ TargetInverse(o) = {Opposite(o)} /\ Opposite(o) # o
<1>1. o = [kind |-> o.kind, object |-> o.object, element |-> o.element, adding |-> o.adding,
           target |-> o.target]
  BY DEF Shape, Make
<1>2. TargetInverse(o) = {Opposite(o)}
  <2>1. CASE o.kind \in {"Edit", "PolicySet"}
    <3>1. TargetInverse(o) = {[o EXCEPT !.adding = ~@, !.target = o.target]}
      BY <2>1 DEF TargetInverse, InverseOp
    <3>2. [o EXCEPT !.adding = ~@, !.target = o.target] = Opposite(o)
      BY <1>1 DEF Opposite
    <3> QED
      BY <3>1, <3>2
  <2>2. CASE o.kind = "Panic"
    BY <2>2 DEF TargetInverse, InverseOp, Opposite
  <2> QED
    BY <2>1, <2>2 DEF Guardable
<1> DEFINE n == Opposite(o)
<1>3. n \in TargetInverse(o)
  BY <1>2
<1> HIDE DEF n
<1>4. /\ n # o /\ Shape(n) /\ n.kind = o.kind /\ n.target = o.target
      /\ n.object = o.object /\ n.element = o.element /\ n.adding = ~o.adding
  BY <1>3, GuardedInverse
<1> QED
  BY <1>2, <1>4 DEF Opposed, n

(* As long as nothing was done, everything is in place. *)
LEMMA BetweenStart ==
    ASSUME Settled, firewall = original PROVE Between(op, original, firewall)
<1>1. original = [field \in Fields |-> original[field]]
  BY DEF Settled, IsFirewall, Fields
<1> QED
  BY <1>1 DEF Between

(* Before the change, and where nothing is touched. *)
LEMMA ReversalKept ==
    ASSUME Reversal, UNCHANGED <<mode, firewall, op, original, todo, reverted>>,
           unit' = "Fired" => unit = "Fired", unit = "Fired" => unit' = "Fired",
           stage \notin {"Asked", "Rejected"},
           reverted # "None" => stage' \in {"Disarming", "Done", "Crashed"},
           stage' \in {"Asked", "Rejected", "Accepted", "Arming", "Applying", "Reverting"} => stage' = stage
    PROVE  Reversal'
<1>1. NeedsGuard' = NeedsGuard /\ Uniform' = Uniform
  BY DEF NeedsGuard, Uniform
<1>2. Guided' => Guided
  BY <1>1 DEF Guided
<1>3. \A scope : Restored(scope)' = Restored(scope)
  BY DEF Restored
<1> QED
  BY <1>1, <1>2, <1>3 DEF Reversal

LEMMA ReversalDispatch ==
    ASSUME Settled, Settled', Reversal, Dispatch \/ Reject PROVE Reversal'
<1>1. /\ stage = "Asked" /\ stage' \in {"Accepted", "Rejected"}
      /\ UNCHANGED <<firewall, original, todo, reverted, unit>>
  BY DEF Dispatch, Reject, fixed, guard
<1>2. firewall' = original' /\ unit' # "Fired" /\ reverted' = "None" /\ todo' = <<>>
  BY <1>1 DEF Settled, Reversal
<1>3. Guided' => Between(op, original, firewall)'
  <2>1. original' = [field \in Fields |-> original'[field]]
    BY DEF Settled, IsFirewall, Fields
  <2> QED
    BY <1>2, <2>1 DEF Between
<1> QED
  BY <1>1, <1>2, <1>3 DEF Reversal

(* The commands of the operation are drawn up. *)
LEMMA ReversalBegin ==
    ASSUME TimelyInv, Settled, Reversal, Unguarded \/ WatchdogUnavailable \/ ArmAnswers PROVE Reversal'
<1>1. /\ stage \in {"Accepted", "Arming"} /\ stage' = "Applying" /\ todo' = PlanIn(mode, op)
      /\ UNCHANGED <<firewall, original, unit, mode, op, reverted>>
  BY DEF Unguarded, WatchdogUnavailable, ArmAnswers, Commands, Begin, fixed, guard
<1>2. Uniform' = Uniform /\ unit' # "Fired" /\ reverted' = "None"
  BY <1>1 DEF Uniform, Reversal
<1>3. Guided' => Guided
  BY <1>1, <1>2 DEF Guided
<1>4. Guided => /\ todo' \in Seq(StepsOf(op))
                /\ mode = "Offline" /\ op.kind = "Panic" => todo' = <<>>
  <2> SUFFICES ASSUME Guided
               PROVE  /\ todo' \in Seq(StepsOf(op))
                      /\ mode = "Offline" /\ op.kind = "Panic" => todo' = <<>>
    OBVIOUS
  <2>1. Reversible(mode, op, original)
    BY GuidedReversible
  <2>2. mode = "Offline" => op.target = Permanent \/ op.kind = "Panic"
    BY <2>1 DEF Reversible, Suited, Guardable
  <2> QED
    BY <1>1, <2>1, <2>2, PlanCovers DEF Reversible
<1>5. Guided => /\ Between(op, original, firewall)
                /\ mode = "Offline" /\ op.kind = "Panic" => firewall = original
  BY DEF Reversal
<1> QED
  BY <1>1, <1>2, <1>3, <1>4, <1>5 DEF Reversal

(* A command of the operation leaves every part as before or as the operation makes it. *)
LEMMA ReversalForward ==
    ASSUME TimelyInv, Settled, Reversal, stage = "Applying",
           CommandSucceeds \/ CommandFails \/ CommandTimesOut \/ NothingToRun
    PROVE  Reversal'
<1> USE DEF fixed, guard
<1>1. /\ UNCHANGED <<mode, op, original, unit>> /\ reverted = "None" /\ unit # "Fired"
  BY DEF CommandSucceeds, CommandFails, CommandTimesOut, NothingToRun, Reversal
<1>2. reverted' = "None" /\ stage' \in {"Applying", "Countdown", "Disarming", "Done"}
  BY <1>1 DEF CommandSucceeds, CommandFails, CommandTimesOut, NothingToRun, Concluded, Begin
<1>3. /\ todo' = <<>> \/ (todo' = Tail(todo) /\ todo # <<>>)
      /\ firewall' = firewall \/ (todo # <<>> /\ firewall' = Carried(Head(todo), firewall))
  BY DEF CommandSucceeds, CommandFails, CommandTimesOut, NothingToRun, Running
<1>4. Guided' => Guided
  BY <1>1 DEF Guided, Uniform
<1>5. ASSUME Guided
      PROVE  /\ Between(op, original, firewall')
             /\ mode = "Offline" /\ op.kind = "Panic" => firewall' = original /\ todo' = <<>>
             /\ todo' \in Seq(StepsOf(op))
  <2>1. /\ Between(op, original, firewall) /\ todo \in Seq(StepsOf(op))
        /\ mode = "Offline" /\ op.kind = "Panic" => firewall = original /\ todo = <<>>
    BY <1>5 DEF Reversal
  <2>2. todo' \in Seq(StepsOf(op))
    <3> DEFINE S == StepsOf(op)
    <3>1. todo \in Seq(S)
      BY <2>1
    <3> HIDE DEF S
    <3>2. CASE todo' = <<>>
      BY <3>2 DEF S
    <3>3. CASE todo' = Tail(todo) /\ todo # <<>>
      <4>1. Tail(todo) \in Seq(S)
        BY <3>1, <3>3
      <4> QED
        BY <3>3, <4>1 DEF S
    <3> QED
      BY <1>3, <3>2, <3>3
  <2>3. CASE firewall' = firewall
    BY <1>3, <2>1, <2>2, <2>3
  <2>4. CASE todo # <<>> /\ firewall' = Carried(Head(todo), firewall)
    <3>1. Head(todo) \in StepsOf(op)
      BY <2>1, <2>4
    <3>2. PICK scope \in op.target : Head(todo) = Step(scope, op)
      BY <3>1 DEF StepsOf
    <3>3. Between(op, original, firewall')
      BY <1>5, <2>1, <2>4, <3>2, GuidedReversible, BetweenForward
    <3> QED
      BY <2>1, <2>2, <2>4, <3>3
  <2> QED
    BY <1>3, <2>3, <2>4
<1>6. Guided => /\ Between(op, original, firewall)'
                /\ (mode = "Offline" /\ op.kind = "Panic" => firewall = original /\ todo = <<>>)'
                /\ (todo \in Seq(StepsOf(op)))'
  BY <1>1, <1>5
<1> QED
  BY <1>1, <1>2, <1>4, <1>6 DEF Reversal

(* The inverse is drawn up. *)
LEMMA ReversalApply ==
    ASSUME TimelyInv, Settled, Reversal, ApplyRollback PROVE Reversal'
<1>1. /\ stage = "Waiting" /\ UNCHANGED <<mode, firewall, op, original, unit, reverted>>
  BY DEF ApplyRollback, fixed, guard
<1>2. NeedsGuard /\ NeedsGuard' /\ op.kind \in Guardable /\ Shape(op)
  BY <1>1, GuardedKinds DEF TimelyInv, Guarded, Clocks, NeedsGuard
<1>3. stage' = "Reverting" /\ todo' = PlanIn(mode, Opposite(op))
  BY <1>2, OppositeShape DEF ApplyRollback, Commands, Begin
<1>4. reverted' = "None"
  BY <1>1 DEF Reversal
<1>5. Guided' => Guided
  BY <1>1 DEF Guided, Uniform
<1>6. ASSUME Guided
      PROVE  /\ todo' \in Seq(StepsOf(Opposite(op)))
             /\ mode = "Offline" /\ op.kind = "Panic" => firewall = original /\ todo' = <<>>
             /\ \A scope \in op.target :
                   Restored(scope) \/ \E i \in 1..Len(todo') : todo'[i] = Step(scope, Opposite(op))
  <2>1. Reversible(mode, op, original)
    BY <1>6, GuidedReversible
  <2> DEFINE n == Opposite(op)
  <2>2. /\ Shape(n) /\ n.kind = op.kind /\ n.target = op.target
    BY <1>2, OppositeShape DEF Opposed
  <2>3. mode = "Offline" => op.target = Permanent \/ op.kind = "Panic"
    BY <2>1 DEF Reversible, Suited, Guardable
  <2> HIDE DEF n
  <2>4. /\ PlanIn(mode, n) \in Seq(StepsOf(n))
        /\ mode = "Offline" /\ n.kind = "Panic" => PlanIn(mode, n) = <<>>
        /\ ~(mode = "Offline" /\ n.kind = "Panic") =>
              \A scope \in n.target : \E i \in 1..Len(PlanIn(mode, n)) : PlanIn(mode, n)[i] = Step(scope, n)
    BY <1>2, <2>2, <2>3, PlanCovers
  <2>5. mode = "Offline" /\ op.kind = "Panic" => firewall = original
    BY <1>6 DEF Reversal
  <2>6. todo' = PlanIn(mode, n)
    BY <1>3 DEF n
  <2>7. ASSUME NEW scope \in op.target
        PROVE  Restored(scope) \/ \E i \in 1..Len(todo') : todo'[i] = Step(scope, n)
    <3>1. CASE mode = "Offline" /\ op.kind = "Panic"
      BY <2>5, <3>1 DEF Restored
    <3>2. CASE ~(mode = "Offline" /\ op.kind = "Panic")
      BY <2>2, <2>4, <2>6, <3>2
    <3> QED
      BY <3>1, <3>2
  <2> QED
    BY <2>2, <2>4, <2>5, <2>6, <2>7 DEF n
<1>7. Guided => /\ Between(op, original, firewall)
                /\ unit = "Fired" => Restored("runtime")
  BY DEF Reversal
<1>8. \A scope : Restored(scope)' = Restored(scope)
  BY <1>1 DEF Restored
<1>9. Guided => \A scope \in op'.target :
                   Restored(scope)' \/ \E i \in 1..Len(todo') : todo'[i] = Step(scope, Opposite(op'))
  BY <1>1, <1>6, <1>8
<1> QED
  BY <1>1, <1>2, <1>3, <1>4, <1>5, <1>6, <1>7, <1>8, <1>9 DEF Reversal

(* A command of the inverse restores a part and disturbs no other. *)
LEMMA BackStep ==
    ASSUME Settled, Guided, Reversal, stage = "Reverting", todo # <<>>,
           firewall' = Carried(Head(todo), firewall), UNCHANGED <<op, original>>
    PROVE  /\ Between(op, original, firewall')
           /\ \A scope : Aspect(scope, op) \in Fields /\ Restored(scope) => Restored(scope)'
           /\ \A scope \in op.target :
                 Restored(scope)' \/ \E i \in 1..Len(Tail(todo)) : Tail(todo)[i] = Step(scope, Opposite(op))
<1> DEFINE n == Opposite(op)
           S == StepsOf(n)
<1>1. /\ Reversible(mode, op, original) /\ Opposed(op, n) /\ n.target = op.target
  BY GuidedReversible, OppositeShape DEF Reversible
<1>2. /\ Between(op, original, firewall) /\ todo \in Seq(S)
      /\ \A scope \in op.target : Restored(scope) \/ \E i \in 1..Len(todo) : todo[i] = Step(scope, n)
  BY DEF Reversal
<1> HIDE DEF n
<1>3. Head(todo) \in S /\ Head(todo) = todo[1]
  <2> HIDE DEF S
  <2> QED
    BY <1>2
<1>4. PICK here \in op.target : Head(todo) = Step(here, n)
  BY <1>1, <1>3 DEF StepsOf
<1>5. /\ Between(op, original, firewall')
      /\ firewall'[Aspect(here, op)] = original[Aspect(here, op)]
      /\ \A field \in Fields : firewall[field] = original[field] => firewall'[field] = original[field]
  BY <1>1, <1>2, <1>4, BetweenBack
<1>6. \A scope : Aspect(scope, op) \in Fields /\ Restored(scope) => Restored(scope)'
  BY <1>5 DEF Restored
<1>7. ASSUME NEW scope \in op.target
      PROVE  Restored(scope)' \/ \E i \in 1..Len(Tail(todo)) : Tail(todo)[i] = Step(scope, n)
  <2>1. CASE Restored(scope)
    BY <1>1, <1>6, <2>1, AspectField DEF Reversible
  <2>2. CASE \E i \in 1..Len(todo) : todo[i] = Step(scope, n)
    <3>1. PICK i \in 1..Len(todo) : todo[i] = Step(scope, n)
      BY <2>2
    <3>2. CASE i = 1
      <4>1. scope = here
        BY <1>3, <1>4, <3>1, <3>2 DEF Step
      <4> QED
        BY <1>5, <4>1 DEF Restored
    <3>3. CASE i # 1
      <4>1. i - 1 \in 1..Len(Tail(todo)) /\ Tail(todo)[i - 1] = todo[i]
        <5> HIDE DEF S
        <5> QED
          BY <1>2, <3>3
      <4> QED
        BY <3>1, <4>1
    <3> QED
      BY <3>2, <3>3
  <2> QED
    BY <1>2, <2>1, <2>2
<1> QED
  BY <1>5, <1>6, <1>7 DEF n

LEMMA ReversalBackward ==
    ASSUME TimelyInv, Settled, Reversal, stage = "Reverting",
           CommandSucceeds \/ CommandFails \/ CommandTimesOut \/ NothingToRun
    PROVE  Reversal'
<1> USE DEF fixed, guard
<1>1. /\ UNCHANGED <<mode, op, original, unit>> /\ reverted = "None" /\ NeedsGuard
      /\ NeedsGuard' = NeedsGuard /\ Uniform' = Uniform
  BY DEF CommandSucceeds, CommandFails, CommandTimesOut, NothingToRun, Reversal, TimelyInv, Guarded,
         NeedsGuard, Uniform
<1>2. \/ /\ CommandSucceeds /\ Len(todo) > 1 /\ stage' = stage /\ reverted' = reverted
      \/ /\ CommandSucceeds /\ ~(Len(todo) > 1) /\ stage' \in {"Disarming", "Done"}
      \/ /\ stage' \in {"Disarming", "Done"} /\ reverted' # "Applied" /\ todo' = <<>>
         /\ firewall' = firewall \/ (todo # <<>> /\ firewall' = Carried(Head(todo), firewall))
  <2>1. CASE CommandSucceeds
    <3>1. CASE Len(todo) > 1
      BY <2>1, <3>1 DEF CommandSucceeds
    <3>2. CASE ~(Len(todo) > 1)
      BY <2>1, <3>2 DEF CommandSucceeds, Concluded, Begin
    <3> QED
      BY <2>1, <3>1, <3>2
  <2>2. CASE CommandFails
    <3>1. PICK result \in {"Failed", "PartiallyApplied"} : Concluded(result)
      BY <2>2 DEF CommandFails
    <3> QED
      BY <2>2, <3>1 DEF CommandFails, Concluded, Begin
  <2>3. CASE CommandTimesOut
    BY <2>3 DEF CommandTimesOut, Concluded, Begin, Running
  <2>4. CASE NothingToRun
    BY <2>4 DEF NothingToRun, Concluded, Begin
  <2> QED
    BY <2>1, <2>2, <2>3, <2>4
<1>3. Guided' => Guided
  BY <1>1 DEF Guided
<1>4. ASSUME Guided
      PROVE  /\ Between(op, original, firewall)
             /\ mode = "Offline" /\ op.kind = "Panic" => firewall = original /\ todo = <<>>
             /\ unit = "Fired" => Restored("runtime") /\ Aspect("runtime", op) \in Fields
             /\ todo \in Seq(StepsOf(Opposite(op)))
  <2>1. unit = "Fired" => "runtime" \in op.target
    BY <1>4 DEF Guided
  <2>2. Aspect("runtime", op) \in Fields
    BY DEF Aspect, Fields
  <2> QED
    BY <1>4, <2>2 DEF Reversal
<1>5. CASE /\ CommandSucceeds /\ Len(todo) > 1 /\ stage' = stage /\ reverted' = reverted
  <2>1. todo # <<>> /\ firewall' = Carried(Head(todo), firewall) /\ todo' = Tail(todo)
    BY <1>5 DEF CommandSucceeds, Running
  <2>2. ASSUME Guided
        PROVE  /\ Between(op, original, firewall')
               /\ unit = "Fired" => Restored("runtime")'
               /\ todo' \in Seq(StepsOf(Opposite(op)))
               /\ \A scope \in op.target :
                     Restored(scope)' \/ \E i \in 1..Len(todo') : todo'[i] = Step(scope, Opposite(op))
    <3>1. todo' \in Seq(StepsOf(Opposite(op)))
      <4> DEFINE S == StepsOf(Opposite(op))
      <4>1. todo \in Seq(S)
        BY <1>4, <2>2
      <4> HIDE DEF S
      <4>2. Tail(todo) \in Seq(S)
        BY <2>1, <4>1
      <4> QED
        BY <2>1, <4>2 DEF S
    <3> QED
      BY <1>1, <1>4, <2>1, <2>2, <3>1, BackStep
  <2>3. ~(mode = "Offline" /\ op.kind = "Panic") \/ ~Guided
    BY <1>4, <2>1
  <2>4. Guided => /\ Between(op', original', firewall')
                  /\ todo' \in Seq(StepsOf(Opposite(op')))
                  /\ \A scope \in op'.target :
                        Restored(scope)' \/ \E i \in 1..Len(todo') : todo'[i] = Step(scope, Opposite(op'))
    BY <1>1, <2>2
  <2> QED
    BY <1>1, <1>3, <1>5, <2>2, <2>3, <2>4 DEF Reversal
<1>6. CASE /\ CommandSucceeds /\ ~(Len(todo) > 1) /\ stage' \in {"Disarming", "Done"}
  <2>1. todo # <<>> /\ firewall' = Carried(Head(todo), firewall) /\ todo' = Tail(todo)
    BY <1>6 DEF CommandSucceeds, Running
  <2>2. ASSUME Guided
        PROVE  /\ Between(op, original, firewall') /\ firewall' = original
               /\ unit = "Fired" => Restored("runtime")'
    <3>1. /\ Between(op, original, firewall')
          /\ unit = "Fired" => Restored("runtime")'
          /\ \A scope \in op.target :
                Restored(scope)' \/ \E i \in 1..Len(Tail(todo)) : Tail(todo)[i] = Step(scope, Opposite(op))
      BY <1>1, <1>4, <2>1, <2>2, BackStep
    <3>2. 1..Len(Tail(todo)) = {}
      <4> DEFINE S == StepsOf(Opposite(op))
      <4>1. todo \in Seq(S)
        BY <1>4, <2>2
      <4> HIDE DEF S
      <4> QED
        BY <1>6, <2>1, <4>1
    <3>3. \A scope \in op.target : firewall'[Aspect(scope, op)] = original[Aspect(scope, op)]
      BY <1>1, <3>1, <3>2 DEF Restored
    <3>4. Reversible(mode, op, original)
      BY <2>2, GuidedReversible
    <3>5. firewall' = original
      BY <3>1, <3>3, <3>4, AllBack
    <3> QED
      BY <3>1, <3>5
  <2>3. ~(mode = "Offline" /\ op.kind = "Panic") \/ ~Guided
    BY <1>4, <2>1
  <2>4. Guided => Between(op', original', firewall')
    BY <1>1, <2>2
  <2> QED
    BY <1>1, <1>3, <1>6, <2>2, <2>3, <2>4 DEF Reversal
<1>7. CASE /\ stage' \in {"Disarming", "Done"} /\ reverted' # "Applied" /\ todo' = <<>>
           /\ firewall' = firewall \/ (todo # <<>> /\ firewall' = Carried(Head(todo), firewall))
  <2>1. ASSUME Guided
        PROVE  /\ Between(op, original, firewall')
               /\ unit = "Fired" => Restored("runtime")'
               /\ mode = "Offline" /\ op.kind = "Panic" => firewall' = original
    <3>1. CASE firewall' = firewall
      BY <1>1, <1>4, <2>1, <3>1 DEF Restored
    <3>2. CASE todo # <<>> /\ firewall' = Carried(Head(todo), firewall)
      BY <1>1, <1>4, <2>1, <3>2, BackStep
    <3> QED
      BY <1>7, <3>1, <3>2
  <2>2. Guided => /\ Between(op', original', firewall')
                  /\ mode' = "Offline" /\ op'.kind = "Panic" => firewall' = original'
    BY <1>1, <2>1
  <2> QED
    BY <1>1, <1>3, <1>7, <2>1, <2>2 DEF Reversal
<1> QED
  BY <1>2, <1>5, <1>6, <1>7

(* The watchdog's command is the opposite one, in the runtime. *)
LEMMA RuntimeInverse ==
    ASSUME NEW o, Shape(o), o.kind \in Guardable
    PROVE  \E inverse : /\ InverseRuntime(o) = {inverse} /\ Opposed(o, inverse)
                        /\ Plan(inverse) = <<Step("runtime", inverse)>>
<1> DEFINE n == IF o.kind = "Panic" THEN [o EXCEPT !.adding = ~@]
                ELSE [o EXCEPT !.adding = ~@, !.target = Runtime]
<1>1. /\ o = [kind |-> o.kind, object |-> o.object, element |-> o.element, adding |-> o.adding,
              target |-> o.target]
      /\ o.adding \in BOOLEAN
  BY DEF Shape, Make
<1>2. InverseRuntime(o) = {n}
  BY DEF InverseRuntime, InverseOp, Guardable
<1>3. /\ n.kind = o.kind /\ n.object = o.object /\ n.element = o.element /\ n.adding = ~o.adding
      /\ n.target = Runtime
      /\ n = [kind |-> n.kind, object |-> n.object, element |-> n.element, adding |-> n.adding,
              target |-> n.target]
  <2>1. o.kind = "Panic" => o.target = Runtime
    BY DEF Shape
  <2> QED
    BY <1>1, <2>1
<1> HIDE DEF n
<1>4. Shape(n)
  BY <1>1, <1>3 DEF Shape, Make, Guardable, Targets
<1>5. Plan(n) = Scoped(n)
  BY <1>3 DEF Plan, Guardable
<1>6. Plan(n) = <<Step("runtime", n)>>
  BY <1>3, <1>4, <1>5, ScopedSteps
<1> QED
  BY <1>2, <1>3, <1>6 DEF Opposed

(* The watchdog makes the runtime what it was, wherever the engine is, and disturbs
   nothing that is restored. *)
LEMMA ReversalWatchdog ==
    ASSUME TimelyInv, Settled, Reversal, GraceTicks >= 3, WatchdogFires PROVE Reversal'
<1>1. /\ unit = "Armed" /\ fuse = 0 /\ unit' = "Fired"
      /\ UNCHANGED <<mode, original, op, stage, todo, outcome, reverted>>
  BY DEF WatchdogFires, fixed, control
<1>2. stage \notin {"Asked", "Rejected", "Accepted", "Arming", "Applying"}
  BY <1>1, FiresLate
<1>3. NeedsGuard' = NeedsGuard /\ Uniform' = Uniform
  BY <1>1 DEF NeedsGuard, Uniform
<1>4. Guided' => Guided /\ "runtime" \in op.target
  BY <1>1, <1>3 DEF Guided
<1>5. ASSUME Guided, "runtime" \in op.target
      PROVE  /\ Between(op, original, firewall')
             /\ mode = "Offline" /\ op.kind = "Panic" => firewall' = original /\ todo = <<>>
             /\ \A scope : Aspect(scope, op) \in Fields /\ Restored(scope) => Restored(scope)'
             /\ reverted = "Applied" => firewall' = original
             /\ Restored("runtime")'
  <2>1. Reversible(mode, op, original) /\ op.kind \in Guardable /\ Shape(op)
    BY <1>5, GuidedReversible DEF Reversible
  <2>2. /\ Between(op, original, firewall)
        /\ mode = "Offline" /\ op.kind = "Panic" => firewall = original /\ todo = <<>>
        /\ reverted = "Applied" => firewall = original
    BY <1>5 DEF Reversal
  <2>3. CASE mode = "Offline"
    <3>1. op.kind = "Panic"
      BY <1>5, <2>1, <2>3 DEF Reversible, Suited, Guardable, Permanent
    <3>2. firewall' = firewall
      BY <2>3 DEF WatchdogFires
    <3> QED
      BY <1>1, <2>2, <2>3, <3>1, <3>2 DEF Restored
  <2>4. CASE mode # "Offline"
    <3>1. PICK inverse : /\ InverseRuntime(op) = {inverse} /\ Opposed(op, inverse)
                         /\ Plan(inverse) = <<Step("runtime", inverse)>>
      BY <2>1, RuntimeInverse
    <3>2. WatchdogCommand = Step("runtime", inverse)
      <4>1. (CHOOSE i \in InverseRuntime(op) : TRUE) = inverse
        BY <3>1
      <4>2. Head(Plan(inverse)) = Step("runtime", inverse)
        BY <3>1
      <4> QED
        BY <4>1, <4>2 DEF WatchdogCommand
    <3>3. ~Refused(WatchdogCommand, firewall)
      BY <1>5, <2>1, <2>2, <3>1, <3>2, BackAccepted
    <3>4. firewall' = Carried(Step("runtime", inverse), firewall)
      BY <2>4, <3>2, <3>3 DEF WatchdogFires
    <3>5. /\ Between(op, original, firewall')
          /\ firewall'[Aspect("runtime", op)] = original[Aspect("runtime", op)]
          /\ \A field \in Fields : firewall[field] = original[field] => firewall'[field] = original[field]
      BY <1>5, <2>1, <2>2, <3>1, <3>4, BetweenBack
    <3>6. /\ \A scope : Aspect(scope, op) \in Fields /\ Restored(scope) => Restored(scope)'
          /\ Restored("runtime")'
      BY <1>1, <3>5 DEF Restored
    <3>7. firewall = original => firewall' = original
      <4>1. SUFFICES ASSUME firewall = original PROVE firewall' = original
        OBVIOUS
      <4>2. \A scope \in op.target : firewall'[Aspect(scope, op)] = original[Aspect(scope, op)]
        BY <2>1, <3>5, <4>1, AspectField
      <4> QED
        BY <2>1, <3>5, <4>2, AllBack
    <3> QED
      BY <2>2, <2>4, <3>5, <3>6, <3>7
  <2> QED
    BY <2>3, <2>4
<1>6. Guided /\ "runtime" \in op.target =>
        /\ Between(op', original', firewall')
        /\ (mode = "Offline" /\ op.kind = "Panic" => firewall = original /\ todo = <<>>)'
        /\ stage' = "Reverting" =>
              /\ todo' \in Seq(StepsOf(Opposite(op')))
              /\ \A scope \in op'.target :
                    Restored(scope)' \/ \E i \in 1..Len(todo') : todo'[i] = Step(scope, Opposite(op'))
        /\ reverted' = "Applied" => firewall' = original'
        /\ Restored("runtime")'
  <2> SUFFICES ASSUME Guided, "runtime" \in op.target, stage = "Reverting"
               PROVE  /\ todo \in Seq(StepsOf(Opposite(op)))
                      /\ \A scope \in op.target :
                            Restored(scope)' \/ \E i \in 1..Len(todo) : todo[i] = Step(scope, Opposite(op))
    BY <1>1, <1>5
  <2>1. Shape(op)
    BY DEF Settled
  <2>2. /\ todo \in Seq(StepsOf(Opposite(op)))
        /\ \A scope \in op.target :
              Restored(scope) \/ \E i \in 1..Len(todo) : todo[i] = Step(scope, Opposite(op))
    BY DEF Reversal
  <2> QED
    BY <1>5, <2>1, <2>2, AspectField
<1> QED
  BY <1>1, <1>2, <1>3, <1>4, <1>6 DEF Reversal

LEMMA ReversalNext ==
    ASSUME GraceTicks >= 3, TimelyInv, Settled, Reversal, [Next]_vars PROVE Reversal'
<1> USE DEF fixed, guard, control, clock, person
<1>1. CASE UNCHANGED vars
  <2>1. NeedsGuard' = NeedsGuard /\ Guided' = Guided
    BY <1>1 DEF vars, NeedsGuard, Guided, Uniform
  <2>2. \A scope : Restored(scope)' = Restored(scope)
    BY <1>1 DEF vars, Restored
  <2> QED
    BY <1>1, <2>1, <2>2 DEF vars, Reversal
<1>2. CASE Dispatch \/ Reject
  BY <1>2, SettledNext, ReversalDispatch
<1>3. CASE Unguarded \/ WatchdogUnavailable \/ ArmAnswers
  BY <1>3, ReversalBegin
<1>4. CASE RunSystemd
  <2>1. /\ stage = "Accepted" /\ stage' = "Arming"
        /\ UNCHANGED <<mode, firewall, op, original, todo, reverted, unit>>
    BY <1>4 DEF RunSystemd, Begin
  <2>2. Guided' => Guided
    BY <2>1 DEF Guided, Uniform
  <2> QED
    BY <2>1, <2>2 DEF Reversal
<1>5. CASE UnitStarts
  BY <1>5, ReversalKept DEF UnitStarts, Reversal
<1>6. CASE CommandSucceeds \/ CommandFails \/ CommandTimesOut \/ NothingToRun
  <2>1. stage \in {"Applying", "Reverting"}
    BY <1>6 DEF CommandSucceeds, CommandFails, CommandTimesOut, NothingToRun, Running
  <2> QED
    BY <1>6, <2>1, ReversalForward, ReversalBackward
<1>7. CASE Keep
  BY <1>7, ReversalKept DEF Keep, Begin, Reversal
<1>8. CASE FireRollback
  BY <1>8, ReversalKept DEF FireRollback, Reversal
<1>9. CASE ApplyRollback
  BY <1>9, ReversalApply
<1>10. CASE Disarm
  BY <1>10, ReversalKept DEF Disarm
<1>11. CASE Crash
  BY <1>11, ReversalKept DEF Crash
<1>12. CASE Tick
  BY <1>12, ReversalKept DEF Tick, Reversal, TimelyInv, Guarded
<1>13. CASE TickUnwatched
  BY <1>13, ReversalKept DEF TickUnwatched, Reversal
<1>14. CASE WatchdogFires
  BY <1>14, ReversalWatchdog
<1> QED
  BY <1>1, <1>2, <1>3, <1>4, <1>5, <1>6, <1>7, <1>8, <1>9, <1>10, <1>11, <1>12, <1>13, <1>14 DEF Next

LEMMA ReversalInvariant == ASSUME GraceTicks >= 3 PROVE Spec => [](TimelyInv /\ Settled /\ Reversal)
<1>1. TimelyInv /\ Settled /\ Reversal /\ [Next]_vars => Reversal'
  BY ReversalNext
<1> QED
  BY <1>1, ReversalInit, SettledInvariant, TimelyInvariant, PTL DEF Spec

(* A rollback that was applied leaves the firewall as it was before the operation,
   in every scope and whatever became of the operation itself; the watchdog leaves
   the runtime as it was: for every firewall that the operations may meet, and for
   every order of commands, timeouts, crashes and the watchdog (apply_rollback,
   inverse_op and rollback.rs). *)
THEOREM RevertsRestore == ASSUME GraceTicks >= 3 PROVE Spec => []RevertRestores
<1>1. TimelyInv /\ Settled /\ Reversal => RevertRestores
  <2> SUFFICES ASSUME TimelyInv, Settled, Reversal, Uniform, "runtime" \in op.target \/ unit # "Fired"
               PROVE  /\ reverted = "Applied" => firewall = original
                      /\ unit = "Fired" => firewall.runtime = original.runtime
                                           /\ firewall.panic = original.panic
    BY DEF RevertRestores
  <2>1. reverted = "Applied" \/ unit = "Fired" => NeedsGuard /\ stage \notin {"Asked", "Rejected"}
    BY DEF Reversal, TimelyInv, Guarded
  <2>2. reverted = "Applied" \/ unit = "Fired" => Guided
    BY <2>1, GuardedKinds DEF NeedsGuard, Guided
  <2>3. ASSUME unit = "Fired"
        PROVE  firewall.runtime = original.runtime /\ firewall.panic = original.panic
    <3>1. /\ Between(op, original, firewall) /\ Restored("runtime") /\ "runtime" \in op.target
          /\ Reversible(mode, op, original)
      BY <2>2, <2>3, GuidedReversible DEF Reversal
    <3>2. \A scope \in op.target :
             scope \in Both /\ Aspect(scope, op) # (IF op.kind = "Panic" THEN "runtime" ELSE "panic")
      BY DEF Aspect, Both, Runtime, Permanent, Settled, Shape, Targets
    <3>3. "runtime" \in Fields /\ "panic" \in Fields
      BY DEF Fields
    <3>4. CASE op.kind = "Panic"
      <4>1. firewall.panic = original.panic
        BY <3>1, <3>4 DEF Restored, Aspect
      <4>2. firewall.runtime = original.runtime
        BY <3>1, <3>2, <3>3, <3>4 DEF Between
      <4> QED
        BY <4>1, <4>2
    <3>5. CASE op.kind # "Panic"
      <4>1. firewall.runtime = original.runtime
        BY <3>1, <3>5 DEF Restored, Aspect
      <4>2. firewall.panic = original.panic
        BY <3>1, <3>2, <3>3, <3>5 DEF Between
      <4> QED
        BY <4>1, <4>2
    <3> QED
      BY <3>4, <3>5
  <2> QED
    BY <2>2, <2>3 DEF Reversal
<1> QED
  BY <1>1, ReversalInvariant, PTL

=============================================================================
