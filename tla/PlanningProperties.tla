------------------------- MODULE PlanningProperties --------------------------
(* What the answers to the questions of Planning must be. *)
EXTENDS Planning

CONSTANT Packets        \* that a rule may meet

-----------------------------------------------------------------------------
(* What a restoration leads to *)

Answered(what) == question.asks = what /\ progress = "answered"

Before == question.of.firewall
Wanted ==
    IF question.of.task = "drift" THEN [Before EXCEPT !.permanent = Before.runtime]
    ELSE question.of.wanted

(* The elements of a zone that a restore answers for. *)
Answerable(scope, elements) ==
    {e \in elements : e[1] \in ToSet(Compared) \/ (e[1] = "target" /\ scope = "permanent")}

Scopes == IF question.of.task = "drift" THEN Permanent ELSE Both

(* A zone of both sides has what it is to have; nothing else has changed. *)
ZoneRestored(zone, scope) ==
    LET now == firewall[scope][zone]
        was == Before[scope][zone]
        due == IF scope \in Scopes /\ zone \in DOMAIN Wanted[scope] THEN Wanted[scope][zone] ELSE was
    IN  /\ Answerable(scope, now) = Answerable(scope, due)
        /\ now \ Answerable(scope, now) = was \ Answerable(scope, was)

Restored ==
    /\ \A scope \in Both :
          /\ DOMAIN firewall[scope] = DOMAIN Before[scope]
          /\ \A zone \in DOMAIN firewall[scope] : ZoneRestored(zone, scope)
    /\ firewall.default =
          IF Wanted.default \in DOMAIN Before.runtime THEN Wanted.default ELSE Before.default

(* A source to be bound to a zone belongs to another one, which gives it up later
   or not at all: firewalld refuses to bind it. *)
Earlier(zone, other) ==
    \E i, j \in DOMAIN ZoneOrder : i < j /\ ZoneOrder[i] = zone /\ ZoneOrder[j] = other

MovesSourceForward ==
    \E scope \in Scopes : \E zone, other \in DOMAIN Before[scope] :
        /\ zone # other /\ zone \in DOMAIN Wanted[scope]
        /\ other \in DOMAIN Wanted[scope] => Earlier(zone, other)
        /\ \E e \in Of("source", Wanted[scope][zone]) : e \in Before[scope][other]

(***************************************************************************)
(* A staged restore or drift repair is accepted as a whole, is carried out *)
(* to its end, and leaves every zone of both sides, in each scope on its   *)
(* own, with exactly what was wanted; it touches nothing else.  The        *)
(* exception is a source that moves to a zone whose name comes first       *)
(* (restore.rs, plan and diff_pairs).                                      *)
(***************************************************************************)
RestoreReaches ==
    question.asks = "restore" =>
        /\ progress # "rejected"
        /\ progress = "answered" => Restored
        /\ progress = "halted" => MovesSourceForward

-----------------------------------------------------------------------------
(* What a migration and an explanation should say *)

(***************************************************************************)
(* A rule that is translated matches, as a rule of its new policy, exactly *)
(* the packets that it matched and decides them alike; what could not be   *)
(* said is left to the operator (direct_migration.rs).                     *)
(***************************************************************************)
MigrationExact ==
    Answered("migrate") => \A translation \in answer :
        /\ \A packet \in Packets : DirectMatches(question.of, packet) <=> RichMatches(translation, packet)
        /\ \E i \in DOMAIN question.of.options : question.of.options[i] = <<"jump", translation.action>>

(* Hosts by number: an address as the number its octets spell. *)
Number(octets) == FoldLeft(LAMBDA n, octet : n * 2^OctetBits + octet, 0, octets)

(* A prefix leaves the low bits free: a block of 2^(bits - prefix) numbers. *)
Inside(addr, prefix, ip) ==
    LET size == 2^(OctetBits * Len(addr.octets) - prefix)
        base == (Number(addr.octets) \div size) * size
    IN  addr.family = ip.family /\ Number(ip.octets) \in base..(base + size - 1)

Bound(binding, ip, s) ==
    CASE binding.kind = "ip" -> Inside(binding.addr, OctetBits * Len(binding.addr.octets), ip)
      [] binding.kind = "cidr" -> Inside(binding.addr, binding.prefix, ip)
      [] binding.kind = "ipset" /\ binding.name \in DOMAIN s.ipsets ->
           \E e \in s.ipsets[binding.name] :
              e.kind # "mac" /\ Inside(e.addr, IF e.kind = "ip" THEN OctetBits * Len(e.addr.octets) ELSE e.prefix, ip)
      [] OTHER -> FALSE

(* What is open, as pairs of a protocol and a number. *)
Numbers(ports) == UNION {{port.protocol} \X (port.first..port.last) : port \in ports}

Opened(ports, query) == \E port \in ports : Numbers({query}) \subseteq Numbers({port})

DefinitionOf(s, service) == IF service \in DOMAIN s.definitions THEN s.definitions[service] ELSE {}

RuleApplies(rule, s, ip, query) ==
    /\ rule.family \in {{}, {ip.family}}
    /\ rule.source # {} /\ \A a \in rule.source : Bound(a, ip, s)
    /\ rule.port # {} => Opened(rule.port, query)
    /\ rule.port = {} /\ rule.service # {} =>
          \E service \in rule.service : Opened(DefinitionOf(s, service), query)

(***************************************************************************)
(* The explanation names the zone to which the source is bound, as numbers *)
(* in blocks, and the verdict of the first of its rich rules, its open     *)
(* ports and services, and its target, as sets of port numbers             *)
(* (explain.rs; zone_for_source_ip also guards the operator's SSH zone).   *)
(***************************************************************************)
ExplanationTrue ==
    Answered("explain") =>
        LET s == question.of.snapshot
            ip == question.of.ip
            query == question.of.query
            bound == {i \in DOMAIN s.zoneOrder :
                         \E b \in s.zones[s.zoneOrder[i]].sources : Bound(b, ip, s)}
            first(I) == CHOOSE i \in I : \A j \in I : i <= j
            name == IF bound # {} THEN s.zoneOrder[first(bound)] ELSE s.default
            zone == s.zones[name]
            rules == {i \in DOMAIN zone.richRules : RuleApplies(zone.richRules[i], s, ip, query)}
            open == zone.ports \cup UNION {DefinitionOf(s, service) : service \in zone.services}
        IN  answer =
              IF name \notin DOMAIN s.zones THEN "unknown zone"
              ELSE IF rules # {} THEN zone.richRules[first(rules)].action
              ELSE IF Opened(open, query) \/ zone.target = "ACCEPT" THEN "accept"
              ELSE IF zone.target = "DROP" THEN "drop" ELSE "reject"

-----------------------------------------------------------------------------
(* What is shown of a snapshot *)

(* A line is about an element or an object that only this side has, or that differs. *)
Named(l) ==
    LET differs(scope, other) ==
            \/ l.of \in DOMAIN question.of[scope] \ DOMAIN question.of[other]
            \/ l.of \in DOMAIN question.of[scope] /\ l.element \in question.of[scope][l.of] \ question.of[other][l.of]
    IN  CASE l.only = "runtime" -> differs("runtime", "permanent")
          [] l.only = "permanent" -> differs("permanent", "runtime")
          [] OTHER -> question.of.runtime[l.of] # question.of.permanent[l.of]

InTwoLines(zone, e) ==
    /\ e[1] \in DOMAIN answer.overview[zone].compared
    /\ \E l \in answer.overview[zone].compared[e[1]] : l[1] # "both" /\ e \in l[2]

Compares(s) == Complete({"Zones", "IpSets", "Policies"}, Both, s)

(* No line where persisting would be refused as needless; no "in sync" over a gap. *)
WorkspaceAgrees(s, work) ==
    LET line(object) == \E l \in work.lines : l.of = object
    IN  /\ AllSynced(s) => work.verdict = "in sync"
        /\ work.verdict = "differs" => ~AllSynced(s)
        /\ work.verdict = "in sync" => Compares(s)
        /\ \A l \in work.lines : Named(l)
        /\ \A o \in DOMAIN s.runtime \cap DOMAIN s.permanent :
              /\ Type(o) = "policy" => (line(o) <=> \E p \in PolicyDetails(o, s) : p.drift)
              /\ Type(o) = "ipset" =>
                    (line(o) <=> IpSetDetails(o, s)["runtime"] # IpSetDetails(o, s)["permanent"])

(* The overview of a zone is "synced" exactly if nothing differs, the target and
   what it compares in no line included; what the workspace names it shows apart. *)
OverviewAgrees(s, work, overview) ==
    \A zone \in DOMAIN overview :
        /\ overview[zone].state = "synced" <=> s.runtime[zone] = s.permanent[zone]
        /\ \A l \in {l \in work.lines : l.of = zone} :
              /\ overview[zone].state = "DIFFERENT"
              /\ l.element[1] \in DOMAIN overview[zone].compared => InTwoLines(zone, l.element)

(* What is referred to is refused to be deleted, and what is not may be deleted
   if everything that may refer to it is known; and an issue is never an "ok". *)
GraphAgrees(s, graph) ==
    LET referred(object) ==
            \/ \E edge \in graph["permanent"] : edge[1].resource = object
            \/ \E zone \in DOMAIN s.permanent : <<"service", object>> \in s.permanent[zone]
    IN  /\ \A object \in DOMAIN s.permanent :
              LET may == MayDelete(Make("Delete", object, <<>>, FALSE, Permanent), s)
              IN  Type(object) \in {"zone", "service"} /\ object # s.default =>
                    /\ may => ~referred(object)
                    /\ ~referred(object) /\ Complete({"Zones", "Policies"}, Permanent, s) => may
        /\ \A scope \in Both : \A d \in DependencyIssues(s, scope) :
              \E edge \in graph[scope] : edge[1] = d /\ edge[2] \in {"missing", "unknown"}


-----------------------------------------------------------------------------
(* What the backends owe *)

(* What the program can hold of an object (ZoneDetails, IpSetDetails). *)
Attribute(type) ==
    IF type = "zone" THEN Flag \cup Collection \cup {"target"} ELSE {"entry"}

(* A zone or an address set is read whole or not at all. *)
ReadWhole(listing, scope) ==
    \A object \in DOMAIN listing[scope] :
        Type(object) \in {"zone", "ipset"} =>
            listing[scope][object] =
                {e \in firewall[scope][object] : e[1] \in Attribute(Type(object))}

(* An object that is not listed is in a section that is declared incomplete. *)
GapsDeclared(objects, listing, scope) ==
    \A object \in objects \ DOMAIN listing[scope] :
        <<SectionOf(object), scope>> \in listing.incomplete

(* A target apart, which has a default, nothing is shown that is not there. *)
NothingMadeUp(listing, scope) ==
    \A object \in DOMAIN listing[scope] :
        /\ object \in DOMAIN firewall[scope]
        /\ \A e \in listing[scope][object] : e[1] = "target" \/ e \in firewall[scope][object]

Diagnosis == ("stopped" :> {"DaemonNotRunning"}) @@ ("denied" :> {"PermissionDenied"})

ListingDeclared ==
    Answered("list") =>
        LET condition == question.of.condition
            commands == question.of.backend = "CLI"
        IN  /\ condition \in DOMAIN Diagnosis => answer.error = Diagnosis[condition]
            /\ \A listing \in answer.listing :
                  /\ condition \notin {"stopped", "denied", "refusing", "hung"} /\ question.of.failing = {}
                  /\ \A scope \in Both :
                        /\ commands => ReadWhole(listing, scope)
                        /\ GapsDeclared({o \in DOMAIN firewall[scope] : commands \/ Type(o) # "zone"},
                                        listing, scope)
                        /\ NothingMadeUp(listing, scope)
                  /\ listing.direct # firewall.direct => <<"DirectRules", "runtime">> \in listing.incomplete
                  /\ \A zone \in DOMAIN listing.active \cap DOMAIN listing.runtime :
                        listing.active[zone] = Bindings(listing.runtime[zone])

DispatchWhole ==
    Answered("dispatch") =>
        firewall = (IF answer = <<>> THEN question.of.firewall
                    ELSE AllCarried(Plan(question.of.op), question.of.firewall))

(***************************************************************************)
(* Over firewall-cmd, whose text is parsed block by block, a zone or an    *)
(* address set is read with everything that the program can hold of it, or *)
(* its section is declared incomplete: never half (parse_zone_block).      *)
(* Over D-Bus the sections other than zones, which are not fetched, are    *)
(* declared.  Neither makes anything up; a failure gives no listing at     *)
(* all, and a stopped daemon and a denial are told apart from the rest.    *)
(* And what the D-Bus backend accepts it does as completely as the         *)
(* commands would: accepting a change of both scopes "would apply the      *)
(* runtime half, report full success, and silently lose the permanent half *)
(* on reload" (dbus.rs, runtime_only).  What D-Bus does not read of a      *)
(* zone, and an unknown target, is declared nowhere, and nothing is said   *)
(* of it here.                                                             *)
(***************************************************************************)
NothingHalfDone == ListingDeclared /\ DispatchWhole
=============================================================================
