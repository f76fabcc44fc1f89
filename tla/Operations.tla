----------------------------- MODULE Operations -----------------------------
(***************************************************************************)
(* The algebra of firewall operations (src/domain/operation.rs with        *)
(* policy_set.rs, dependency.rs and capability.rs) and the commands that   *)
(* carry them out (src/infrastructure/firewalld/command.rs).               *)
(*                                                                         *)
(* A configuration is the set of objects it knows (zones, ipsets,          *)
(* policies, services), each with the set of its elements <<field, value>>;*)
(* a flag is an element that is there or not.  The some fifty variants of  *)
(* an operation are records of one shape: to add an element to an object   *)
(* or remove it, to create or delete an object, or one of the few          *)
(* operations on firewalld as a whole.  A target is a set of scopes.       *)
(***************************************************************************)
EXTENDS Integers, SequencesExt

CONSTANTS
    Object,             \* <<type, name>>
    Member,             \* the policies of the gateway policy set
    Creatable,          \* objects whose name and type can be created
    Value               \* values of the fields that refer to nothing

Runtime == {"runtime"}
Permanent == {"permanent"}
Both == Runtime \cup Permanent

Type(object) == object[1]
Zones == {object \in Object : Type(object) = "zone"}

ASSUME ObjectAssumption ==
    /\ \A object \in Object : Type(object) \in {"zone", "ipset", "policy", "service"}
    /\ \A member \in Member : member \in Object /\ Type(member) = "policy"
    /\ Creatable \subseteq Object

-----------------------------------------------------------------------------
(* Operations *)

Flag == {"masquerade", "forward", "icmp_block_inversion"}
Collection ==
    {"service", "port", "source_port", "protocol", "forward_port", "rich_rule",
     "interface", "source", "icmp_block"}
ZoneTarget == {"default", "ACCEPT", "DROP", "REJECT"}

Gateway == <<"set", "gateway">>
NoObject == <<"firewalld", "firewalld">>

Make(kind, object, element, adding, target) ==
    [kind |-> kind, object |-> object, element |-> element, adding |-> adding, target |-> target]

Targets == {Runtime, Permanent, Both}

OfZones ==
    UNION {{Make("Edit", zone, <<field, v>>, adding, target) :
              field \in Flag \cup Collection, v \in Value, adding \in BOOLEAN, target \in Targets}
           \cup {Make("Temporary", zone, <<"service", v>>, TRUE, Runtime) : v \in Value}
           \cup {Make("SetTarget", zone, <<"target", t>>, TRUE, Permanent) : t \in ZoneTarget}
           \cup {Make(kind, zone, <<>>, kind = "Create", Permanent) : kind \in {"Create", "Delete"}}
           \cup {Make("DefaultZone", zone, <<>>, TRUE, Both)} : zone \in Zones}

OfIpSets ==
    UNION {{Make("Edit", set, <<"entry", v>>, adding, target) :
              v \in Value, adding \in BOOLEAN, target \in Targets}
           \cup {Make(kind, set, <<>>, kind = "Create", Permanent) : kind \in {"Create", "Delete"}} :
           set \in {object \in Object : Type(object) = "ipset"}}

OfServices ==
    UNION {{Make("ServicePort", service, <<"port", v>>, adding, Permanent) :
              v \in Value, adding \in BOOLEAN}
           \cup {Make(kind, service, <<>>, kind = "Create", Permanent) : kind \in {"Create", "Delete"}} :
           service \in {object \in Object : Type(object) = "service"}}

OfPolicies ==
    (UNION {{Make("Edit", policy, <<"service", v>>, adding, target) :
              v \in Value, adding \in BOOLEAN, target \in Targets}
           \cup {Make("SetTarget", policy, <<"target", t>>, TRUE, Permanent) : t \in {"CONTINUE", "DROP"}}
           \cup {Make("Join", policy, e, TRUE, Permanent) : e \in {"ingress", "egress"} \X Zones}
           \cup {Make("Migrate", policy, <<"rich_rule", v>>, TRUE, Permanent) : v \in Value}
           \cup {Make(kind, policy, <<>>, kind = "Create", Permanent) : kind \in {"Create", "Delete"}} :
           policy \in {object \in Object : Type(object) = "policy"} \ Member})
    \cup {Make("PolicySet", Gateway, <<>>, adding, target) :
            adding \in BOOLEAN, target \in Targets}

Global ==
    {Make("Panic", NoObject, <<>>, adding, Runtime) : adding \in BOOLEAN}
    \cup {Make("LogDenied", NoObject, v, TRUE, Both) : v \in {"off", "all"}}
    \cup {Make("RuntimeToPermanent", NoObject, <<>>, TRUE, Permanent),
          Make("Reload", NoObject, <<>>, TRUE, Both)}

Operation == OfZones \cup OfIpSets \cup OfServices \cup OfPolicies \cup Global

(* The zones that a migrated rule of the INPUT chain joins. *)
Joined == {<<"ingress", "ANY">>, <<"egress", "HOST">>}

-----------------------------------------------------------------------------
(* What a snapshot says *)

Section(op) ==
    CASE Type(op.object) = "zone" -> {"Zones"}
      [] Type(op.object) = "ipset" -> {"IpSets"}
      [] Type(op.object) \in {"policy", "set"} -> {"Policies"}
      [] Type(op.object) = "service" -> {"Services"}
      [] OTHER -> {}

(* section_is_complete *)
Complete(sections, target, s) == (sections \X target) \cap s.incomplete = {}

Exists(op, s, scope) == op.object \in DOMAIN s[scope]
Present(op, s, scope) == Exists(op, s, scope) /\ op.element \in s[scope][op.object]

(* PolicySetState::matches: nothing is known of a set that is absent or partial,
   and a mixed set is neither enabled nor disabled. *)
Disabled == <<"disabled", "disabled">>

SetMatches(enabled, s, scope) ==
    LET observed == Member \cap DOMAIN s[scope]
        disabled == {member \in observed : Disabled \in s[scope][member]}
    IN  IF observed # Member THEN {}
        ELSE IF enabled THEN {disabled = {}} ELSE {disabled = Member}

OfFlagOrCollection(op) == op.kind = "Edit" \/ (op.kind = "SetTarget" /\ op.object \in Zones)

(* What one scope says of the postcondition; nothing if it cannot say. *)
Probe(op, s, scope) ==
    CASE OfFlagOrCollection(op) ->
           IF Exists(op, s, scope) THEN {Present(op, s, scope) = op.adding} ELSE {}
      [] op.kind \in {"SetTarget", "Join"} -> {Present(op, s, scope)}
      [] op.kind = "Migrate" ->
           {Present(op, s, scope) /\ Joined \subseteq s[scope][op.object]}
      [] op.kind \in {"Create", "Delete"} /\ Type(op.object) \in {"ipset", "policy"} ->
           {Exists(op, s, scope) = (op.kind = "Create")}
      [] op.kind = "PolicySet" -> SetMatches(op.adding, s, scope)
      [] OTHER -> {}

(* postcondition_holds *)
Postcondition(op, s) ==
    IF ~Complete(Section(op), op.target, s) \/ \E scope \in op.target : Probe(op, s, scope) = {}
    THEN "unknown"
    ELSE IF \A scope \in op.target : Probe(op, s, scope) = {TRUE} THEN "holds" ELSE "fails"

(* Faulty variant of NarrowedFor: an operation on both scopes stays one. *)
NarrowedForNothing(op, s) == op

(* An operation on both scopes shrinks to the one that needs it, if only one does
   and both are known. *)
NarrowedFor(op, s) ==
    LET needing ==
            {scope \in Both :
               IF op.kind = "PolicySet" THEN SetMatches(op.adding, s, scope) = {FALSE}
               ELSE Exists(op, s, scope) /\ Present(op, s, scope) # op.adding}
    IN  IF /\ op.kind \in {"Edit", "PolicySet"} /\ op.target = Both
           /\ Complete(Section(op), Both, s)
           /\ op.kind = "PolicySet" => \A scope \in Both : SetMatches(op.adding, s, scope) # {}
           /\ Cardinality(needing) = 1
        THEN [op EXCEPT !.target = needing]
        ELSE op

-----------------------------------------------------------------------------
(* validate *)

(* Every targeted scope has the object, and one of them lacks the change. *)
Needed(op, s) ==
    /\ \A scope \in op.target : Exists(op, s, scope)
    /\ \E scope \in op.target : Present(op, s, scope) # op.adding

NeededBySet(op, s) ==
    /\ s.policySets = "Supported"
    /\ \A scope \in op.target : SetMatches(op.adding, s, scope) # {}
    /\ \E scope \in op.target : SetMatches(op.adding, s, scope) = {FALSE}

MayCreate(op, s) ==
    LET known == IF Type(op.object) = "zone" THEN Both
                 ELSE IF Type(op.object) = "service" THEN Runtime ELSE Permanent
    IN  /\ op.object \in Creatable
        /\ \A scope \in known : ~Exists(op, s, scope)

(* PolicyDependencyGraph::references_zone, references_service and the zones. *)
Referring(object, type, s) ==
    {o \in DOMAIN s.permanent :
       /\ Type(o) = type
       /\ \E e \in s.permanent[o] : e[1] \in {"ingress", "egress", "service"} /\ e[2] = object}

MayDelete(op, s) ==
    CASE Type(op.object) = "zone" ->
           /\ Exists(op, s, "permanent") /\ op.object # s.default
           /\ Complete({"Policies"}, Permanent, s)
           /\ Referring(op.object, "policy", s) = {}
      [] Type(op.object) = "service" ->
           /\ Complete({"Zones", "Policies"}, Permanent, s)
           /\ Referring(op.object, "zone", s) \cup Referring(op.object, "policy", s) = {}
      [] OTHER -> Exists(op, s, "permanent")

MayMigrate(op, s) ==
    /\ Complete({"DirectRules"}, Runtime, s)
    /\ op.element \in s.direct
    /\ op.object \in Creatable /\ ~Exists(op, s, "permanent")

AllSynced(s) ==
    LET drifting(scope) ==
            [o \in {o \in DOMAIN s[scope] : Type(o) # "service"} |->
                {e \in s[scope][o] : e[1] # "active"}]
    IN  /\ Complete({"Zones", "IpSets", "Policies"}, Both, s)
        /\ drifting("runtime") = drifting("permanent")

(* Faulty variant of Known: what could not be read counts as absent. *)
KnownAnyway(op, s) == TRUE

Known(op, s) == Complete(Section(op), op.target, s)

Valid(op, s) ==
    /\ Known(op, s)
    /\ CASE op.kind \in {"Edit", "Temporary", "SetTarget", "Join"} -> Needed(op, s)
         [] op.kind = "PolicySet" -> NeededBySet(op, s)
         [] op.kind = "Create" -> MayCreate(op, s)
         [] op.kind = "Delete" -> MayDelete(op, s)
         [] op.kind = "Migrate" -> MayMigrate(op, s)
         [] op.kind = "DefaultZone" ->
              op.object \in DOMAIN s.runtime \cup DOMAIN s.permanent /\ op.object # s.default
         [] op.kind = "Panic" -> s.panic # op.adding
         [] op.kind = "LogDenied" -> s.logDenied # op.element
         [] op.kind = "RuntimeToPermanent" -> ~AllSynced(s)
         [] OTHER -> TRUE

-----------------------------------------------------------------------------
(* Risk and its undoing *)

(* connectivity_warning *)
Risky(op) ==
    CASE op.kind = "Edit" /\ Type(op.object) = "zone" ->
           \/ op.element[1] \in {"interface", "source"}
           \/ op.element[1] = "icmp_block_inversion" /\ op.adding
           \/ op.element[1] \notin {"icmp_block_inversion", "icmp_block"} /\ ~op.adding
      [] op.kind = "Edit" /\ Type(op.object) = "ipset" -> ~op.adding
      [] op.kind = "SetTarget" -> op.object \in Zones /\ op.element[2] \in {"DROP", "REJECT"}
      [] op.kind = "Panic" -> op.adding
      [] OTHER -> op.kind \in {"Delete", "PolicySet", "Reload", "DefaultZone"}

(* inverse_op: the opposite operation in the given scopes, if there is one. *)
InverseOp(op, target) ==
    CASE op.kind \in {"Edit", "PolicySet"} ->
           {[op EXCEPT !.adding = ~@, !.target = target]}
      [] op.kind = "Temporary" ->
           {Make("Edit", op.object, op.element, FALSE, Runtime)}
      [] op.kind \in {"ServicePort", "Panic"} -> {[op EXCEPT !.adding = ~@]}
      [] op.kind = "Migrate" -> {Make("Delete", op.object, <<>>, FALSE, Permanent)}
      [] OTHER -> {}

TargetInverse(op) == InverseOp(op, op.target)
InverseRuntime(op) == InverseOp(op, Runtime)

-----------------------------------------------------------------------------
(* The commands of an operation *)

Step(scope, op) == [scope |-> scope, op |-> op]

(* scoped_op: the runtime first. *)
Scoped(op) ==
    (IF "runtime" \in op.target THEN <<Step("runtime", op)>> ELSE <<>>)
        \o (IF "permanent" \in op.target THEN <<Step("permanent", op)>> ELSE <<>>)

(* direct_policy_migration: the rule itself comes last. *)
Migration(op) ==
    LET put(e) == Step("permanent", Make("Join", op.object, e, TRUE, Permanent))
    IN  <<Step("permanent", Make("Create", op.object, <<>>, TRUE, Permanent)),
          put(<<"ingress", "ANY">>), put(<<"egress", "HOST">>), put(op.element)>>

Plan(op) ==
    CASE op.kind = "Migrate" -> Migration(op)
      [] op.kind \in {"DefaultZone", "LogDenied", "Reload"} -> <<Step("global", op)>>
      [] OTHER -> Scoped(op)

(* The last command of the live plan; nothing where a daemon is needed. *)
OfflinePlan(op) ==
    IF op.kind \in {"Panic", "Reload", "RuntimeToPermanent"} \/ op.target = Runtime THEN <<>>
    ELSE <<Last(Plan(op))>>

PlanIn(mode, op) == IF mode = "Offline" THEN OfflinePlan(op) ELSE Plan(op)

-----------------------------------------------------------------------------
(* What a command does to the firewall *)

Blank(object) ==
    CASE Type(object) = "zone" -> {<<"target", "default">>}
      [] Type(object) = "policy" -> {<<"target", "CONTINUE">>}
      [] OTHER -> {}

(* Setting a target replaces it. *)
With(elements, e) ==
    {e} \cup (IF e[1] = "target" THEN {f \in elements : f[1] # "target"} ELSE elements)

Edited(op, configuration) ==
    [configuration EXCEPT ![op.object] = IF op.adding THEN With(@, op.element) ELSE @ \ {op.element}]

Switched(op, configuration) ==
    [o \in DOMAIN configuration |->
        IF o \notin Member THEN configuration[o]
        ELSE IF op.adding THEN configuration[o] \ {Disabled} ELSE configuration[o] \cup {Disabled}]

Carried(step, fw) ==
    LET op == step.op
        scope == step.scope
    IN  CASE op.kind = "DefaultZone" -> [fw EXCEPT !.default = op.object]
          [] op.kind = "LogDenied" -> [fw EXCEPT !.logDenied = op.element]
          [] op.kind = "Reload" -> [fw EXCEPT !.runtime = fw.permanent]
          [] op.kind = "Panic" -> [fw EXCEPT !.panic = op.adding]
          [] op.kind = "RuntimeToPermanent" -> [fw EXCEPT !.permanent = fw.runtime]
          [] op.kind = "Create" ->
               [fw EXCEPT !.permanent = [o \in DOMAIN @ \cup {op.object} |->
                                            IF o \in DOMAIN @ THEN @[o] ELSE Blank(o)]]
          [] op.kind = "Delete" ->
               [fw EXCEPT !.permanent = [o \in DOMAIN @ \ {op.object} |-> @[o]]]
          [] op.kind = "PolicySet" -> [fw EXCEPT ![scope] = Switched(op, @)]
          [] OTHER -> [fw EXCEPT ![scope] = Edited(op, @)]

(* A source or interface of one zone is not taken over by another. *)
BoundElsewhere(op, configuration) ==
    /\ op.kind = "Edit" /\ op.adding /\ op.element[1] \in {"source", "interface"}
    /\ \E o \in DOMAIN configuration \ {op.object} :
          Type(o) = "zone" /\ op.element \in configuration[o]

(* firewalld refuses what it does not know, and what exists already. *)
Refused(step, fw) ==
    LET op == step.op
    IN  CASE op.kind = "DefaultZone" -> op.object \notin DOMAIN fw.runtime
          [] op.kind = "Create" -> op.object \in DOMAIN fw.permanent
          [] op.kind = "PolicySet" -> ~(Member \subseteq DOMAIN fw[step.scope])
          [] op.kind \in {"LogDenied", "Reload", "Panic", "RuntimeToPermanent"} -> FALSE
          [] OTHER -> \/ op.object \notin DOMAIN fw[step.scope]
                      \/ BoundElsewhere(op, fw[step.scope])

(* What a sequence of commands makes of the firewall if none is refused. *)
AllCarried(steps, fw) == FoldLeft(LAMBDA f, step : IF Refused(step, f) THEN f ELSE Carried(step, f), fw, steps)

-----------------------------------------------------------------------------
(* Exports of a plan *)

ByModule ==
    {"service", "port", "source", "interface", "rich_rule", "icmp_block", "masquerade"}

(* A task of ansible.posix.firewalld.  Masquerading is always written "yes": what
   turns it off is the state. *)
Task(op, yes) ==
    [zone |-> op.object, element |-> op.element, yes |-> yes,
     state |-> CASE op.kind = "Create" -> "present" [] op.kind = "Delete" -> "absent"
                 [] OTHER -> IF op.adding THEN "enabled" ELSE "disabled",
     permanent |-> op.target \in {Permanent, Both},
     immediate |-> op.target \in {Runtime, Both}]

(* ansible_task: what the module can express; the rest falls back to commands. *)
ByTask(op) ==
    /\ op.object \in Zones
    /\ \/ op.kind = "Edit" /\ op.element[1] \in ByModule
       \/ op.kind \in {"Create", "Delete"}

(* Faulty variant of ModuleTask: masquerading that is turned off is written "no". *)
ModuleTaskTwiceOff(op) ==
    IF ByTask(op) THEN {Task(op, op.kind = "Edit" /\ op.element[1] = "masquerade" => op.adding)} ELSE {}

ModuleTask(op) == IF ByTask(op) THEN {Task(op, TRUE)} ELSE {}

(* The module reads the zone in every scope a task names before it changes one, and
   creates and removes zones in the permanent configuration only. *)
ModuleRefuses(task, fw) ==
    IF task.state \in {"present", "absent"} THEN ~task.permanent \/ task.immediate
    ELSE \/ task.immediate /\ task.zone \notin DOMAIN fw.runtime
         \/ task.permanent /\ task.zone \notin DOMAIN fw.permanent

(* It adds what is missing and removes what is there. *)
Enforced(task, configuration) ==
    [configuration EXCEPT ![task.zone] =
        IF (task.state = "enabled") = task.yes THEN With(@, task.element) ELSE @ \ {task.element}]

Performed(task, fw) ==
    CASE task.state = "present" ->
           [fw EXCEPT !.permanent = [o \in DOMAIN @ \cup {task.zone} |->
                                        IF o \in DOMAIN @ THEN @[o] ELSE Blank(o)]]
      [] task.state = "absent" ->
           [fw EXCEPT !.permanent = [o \in DOMAIN @ \ {task.zone} |-> @[o]]]
      [] OTHER ->
           [fw EXCEPT !.runtime = IF task.immediate THEN Enforced(task, @) ELSE @,
                      !.permanent = IF task.permanent THEN Enforced(task, @) ELSE @]

=============================================================================
