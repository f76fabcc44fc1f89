----------------------------- MODULE MCExecution -----------------------------
(* An instance for TLC: one object of each type and a policy set of two members;
   an operation meets every combination, in both scopes, of the objects and
   elements it is about. *)
EXTENDS ExecutionProperties

CONSTANTS home, public, allow, egress, lan, world, app, v

Zone == <<"zone", home>>
MCMember == {<<"policy", lan>>, <<"policy", world>>}
MCObject == {Zone, <<"ipset", allow>>, <<"policy", egress>>, <<"service", app>>} \cup MCMember
MCCreatable == MCObject \ MCMember
MCValue == {v}

Relevant(o) ==
    IF o.kind = "PolicySet" THEN {<<member, Disabled>> : member \in MCMember}
    ELSE IF o.object = NoObject THEN {<<Zone, <<"port", v>>>>}
    ELSE IF o.kind = "Delete" /\ o.object = Zone
         THEN {<<<<"policy", egress>>, <<"ingress", Zone>>>>}
    ELSE IF o.kind = "Delete" /\ Type(o.object) = "service"
         THEN {<<<<"policy", egress>>, <<"service", o.object>>>>, <<Zone, <<"service", o.object>>>>}
    ELSE IF o.element = <<>> THEN {}
    ELSE {<<o.object, o.element>>}

Configurations(o) ==
    {[object \in MCObject \ gone |->
        Blank(object) \cup {e \in {r[2] : r \in Relevant(o)} : <<object, e>> \in held}] :
      gone \in SUBSET (({o.object} \cap MCObject) \cup {r[1] : r \in Relevant(o)}),
      held \in SUBSET Relevant(o)}

MCSituations ==
    [o \in Operation |->
        {[runtime |-> run, permanent |-> disk, default |-> default, panic |-> panic,
          logDenied |-> "off", direct |-> direct, policySets |-> "Supported"] :
            run \in Configurations(o), disk \in Configurations(o),
            default \in IF o.object = Zone THEN {Zone, <<"zone", public>>} ELSE {<<"zone", public>>},
            panic \in IF o.kind = "Panic" THEN BOOLEAN ELSE {FALSE},
            direct \in IF o.kind = "Migrate" THEN {{}, {o.element}} ELSE {{}}}]

=============================================================================
