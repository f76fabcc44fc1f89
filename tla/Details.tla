------------------------------ MODULE Details --------------------------------
(***************************************************************************)
(* What the overlays say of a snapshot: the drift workspace, the overview  *)
(* of a zone, a policy or an address set, and the graph of what policies   *)
(* depend on (src/ui/details.rs).                                          *)
(***************************************************************************)
EXTENDS Operations

(* zone_drift_lines: the attributes of a zone that the workspace compares. *)
DriftFields ==
    {"service", "port", "forward_port", "rich_rule", "source", "interface", "icmp_block", "masquerade"}


(* diff_items: a line for every element of one side only. *)
DiffItems(zone, field, runtime, permanent) ==
    LET only(scope, elements) ==
            {[of |-> zone, element |-> e, only |-> scope] : e \in {e \in elements : e[1] = field}}
    IN  only("runtime", runtime \ permanent) \cup only("permanent", permanent \ runtime)

ZoneDriftLines(zone, s) ==
    UNION {DiffItems(zone, field, s.runtime[zone], s.permanent[zone]) : field \in DriftFields}

Whole(object, scope) == [of |-> object, element |-> <<>>, only |-> scope]

OneSided(s, scope, other) ==
    {Whole(o, scope) : o \in {o \in DOMAIN s[scope] \ DOMAIN s[other] : Type(o) # "service"}}

(* configuration_eq: whether a policy is active is an observation. *)
ConfigurationEq(runtime, permanent) ==
    {e \in runtime : e[1] # "active"} = {e \in permanent : e[1] # "active"}

(* scoped_object_drift_lines: address sets and policies differ as a whole. *)
ScopedObjectDriftLines(s) ==
    {Whole(o, "both") : o \in
        {o \in DOMAIN s.runtime \cap DOMAIN s.permanent :
            \/ Type(o) = "ipset" /\ s.runtime[o] # s.permanent[o]
            \/ Type(o) = "policy" /\ ~ConfigurationEq(s.runtime[o], s.permanent[o])}}

InBoth(s) == {o \in DOMAIN s.runtime \cap DOMAIN s.permanent : Type(o) = "zone"}

(* drift_workspace *)
DriftWorkspace(s) ==
    LET lines == OneSided(s, "runtime", "permanent") \cup OneSided(s, "permanent", "runtime")
                 \cup UNION {ZoneDriftLines(zone, s) : zone \in InBoth(s)}
                 \cup ScopedObjectDriftLines(s)
    IN  [lines |-> lines,
         verdict |-> IF lines # {} THEN "differs"
                     ELSE IF Complete({"Zones", "IpSets", "Policies"}, Both, s) THEN "in sync"
                     ELSE "unknown"]

(* drift_line, drift_bool: one line if both sides agree, else one for each. *)
OverviewFields ==
    {"interface", "source", "masquerade", "forward", "icmp_block_inversion",
     "service", "port", "source_port", "protocol", "icmp_block"}

DriftLine(field, runtime, permanent) ==
    LET run == {e \in runtime : e[1] = field}
        disk == {e \in permanent : e[1] = field}
    IN  IF run = disk THEN {<<"both", run>>} ELSE {<<"runtime", run>>, <<"permanent", disk>>}

(* for_zone: forwarded ports and rich rules, and the target, of one side only. *)
ForZone(zone, s) ==
    [state |-> IF s.runtime[zone] = s.permanent[zone] THEN "synced" ELSE "DIFFERENT",
     compared |-> [field \in OverviewFields |-> DriftLine(field, s.runtime[zone], s.permanent[zone])],
     stated |-> {e \in s.runtime[zone] : e[1] \in {"target", "forward_port", "rich_rule"}}]

(* policy_browse, policy_details: a configuration of both sides, or each for
   itself, marked as drift if there are two. *)
PolicyDetails(policy, s) ==
    LET in == {scope \in Both : policy \in DOMAIN s[scope]}
    IN  IF in = Both /\ ConfigurationEq(s.runtime[policy], s.permanent[policy])
        THEN {[scope |-> "both", drift |-> FALSE, says |-> s.runtime[policy]]}
        ELSE {[scope |-> scope, drift |-> in = Both, says |-> s[scope][policy]] : scope \in in}

(* ipset_details: the entries of each scope; a scope without the set has none. *)
IpSetDetails(set, s) ==
    [scope \in Both |-> IF set \in DOMAIN s[scope] THEN s[scope][set] ELSE {}]

-----------------------------------------------------------------------------
(* What policies depend on *)

(* PolicyDependencyGraph::from_snapshot *)
Dependencies(s, scope) ==
    UNION {{[policy |-> p, role |-> e[1], resource |-> e[2]] :
              e \in {e \in s[scope][p] : e[1] \in {"ingress", "egress", "service"}}} :
           p \in {p \in DOMAIN s[scope] : Type(p) = "policy"}}

(* zone_dependency_health *)
PseudoZone == {<<"zone", "ANY">>, <<"zone", "HOST">>}

ZoneHealth(zone, s, scope) ==
    IF zone \in PseudoZone THEN "pseudo-zone"
    ELSE IF <<"Zones", scope>> \in s.incomplete THEN "unknown"
    ELSE IF zone \in DOMAIN s[scope] THEN "ok" ELSE "missing"

(* service_dependency_health: services are listed once, for the runtime. *)
ServiceHealth(service, s, scope) ==
    IF <<"Services", scope>> \in s.incomplete THEN "unknown"
    ELSE IF service \in DOMAIN s.runtime THEN "ok" ELSE "missing"

(* policy_dependency_graph: an edge and the health of its resource. *)
PolicyGraph(s) ==
    [scope \in Both |->
        {<<d, IF d.role = "service" THEN ServiceHealth(d.resource, s, scope)
              ELSE ZoneHealth(d.resource, s, scope)>> : d \in Dependencies(s, scope)}]

(* policy_dependency_issues: what is known in neither scope. *)
DependencyIssues(s, scope) ==
    {d \in Dependencies(s, scope) :
        /\ d.resource \notin PseudoZone \cup DOMAIN s.runtime
        /\ d.role # "service" => d.resource \notin DOMAIN s.permanent}
=============================================================================
