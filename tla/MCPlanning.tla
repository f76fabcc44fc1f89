------------------------------ MODULE MCPlanning ------------------------------
(* Questions for TLC: small firewalls of two zones, direct rules of up to five
   options, and addresses of two octets of two bits. *)
EXTENDS PlanningProperties

CONSTANTS home, public, v, odd

H == <<"zone", home>>
P == <<"zone", public>>
MCObject == {H, P}
MCZoneOrder == <<H, P>>
MCValue == {v}

-----------------------------------------------------------------------------
Firewall(run, disk, default) ==
    [runtime |-> run, permanent |-> disk, default |-> default, panic |-> FALSE,
     logDenied |-> "off", direct |-> {}, policySets |-> "Supported", incomplete |-> {}]

(* Zones with any of the elements; a source or interface has one zone at most. *)
Configurations(zones, elements) ==
    {c \in [zones -> {held \cup Blank(H) : held \in SUBSET elements}] :
        \A e \in Of("source", elements) \cup Of("interface", elements) :
            Cardinality({z \in zones : e \in c[z]}) <= 1}

Retargeted(configurations) ==
    configurations \cup {[c EXCEPT ![H] = With(@, <<"target", "DROP">>)] : c \in configurations}

Between(Configured) ==
    {[task |-> "restore", firewall |-> Firewall(a, b, H), wanted |-> Firewall(c, d, H)] :
        a \in Configured, b \in Configured, c \in Configured, d \in Configured}

(* A zone may be missing anywhere, and the default zone be another. *)
Missing ==
    LET configured == UNION {Configurations(zones, {<<"port", v>>}) : zones \in {{H}, {P}, {H, P}}}
        firewalls == {Firewall(a, b, default) : a \in configured, b \in configured, default \in {H, P}}
    IN  {[task |-> "restore", firewall |-> was, wanted |-> wanted] :
            was \in {f \in firewalls : f.default \in DOMAIN f.runtime}, wanted \in firewalls}

Drifted ==
    LET configured == Retargeted(Configurations({H, P}, {<<"source", v>>, <<"forward", v>>, <<"interface", v>>}))
    IN  {[task |-> "drift", firewall |-> Firewall(a, b, H), wanted |-> Firewall(a, b, H)] :
            a \in configured, b \in configured}

MCRestorations ==
    {Between(Configurations({H, P}, {<<"source", v>>, <<"rich_rule", v>>})),
     Between(Retargeted(Configurations({H}, {<<"masquerade", v>>, <<"interface", v>>}))),
     Missing, Drifted}

-----------------------------------------------------------------------------
Net(family, hosts) == [family |-> family, hosts |-> hosts]

Options ==
    <<<<"protocol", "tcp">>, <<"protocol", "icmp">>, <<"module", "tcp">>, <<"module", "conntrack">>,
     <<"source", Net("ipv4", {1})>>, <<"source", Net("ipv6", {1, 2})>>,
     <<"not source", Net("ipv4", {1})>>, <<"destination", Net("ipv4", {2})>>,
     <<"sport", {1}>>, <<"dport", {1, 2}>>, <<"dport", {2}>>,
     <<"jump", "ACCEPT">>, <<"jump", "REJECT">>, <<"jump", "LOG">>, <<"reject", "icmp">>>>

MCMigrations ==
    {{[family |-> family, table |-> table, chain |-> chain, options |-> options] :
        family \in Families, table \in {"filter", "nat"},
        chain \in {"INPUT", "OUTPUT", "FORWARD", "CUSTOM"},
        options \in {SelectSeq(Options, LAMBDA o : o \in given) :
                        given \in {S \in SUBSET ToSet(Options) : Cardinality(S) <= 5}}}}

MCPackets ==
    [way : DOMAIN Chains, family : Families, protocol : {"tcp", "udp", "icmp"},
     source : {1, 2}, destination : {1, 2}, sport : {1, 2}, dport : {1, 3}]

-----------------------------------------------------------------------------
Address(family) == [family : {family}, octets : [1..2 -> 0..3]]
Cidr(addr, prefix) == [kind |-> "cidr", addr |-> addr, prefix |-> prefix]
Host(addr) == [kind |-> "ip", addr |-> addr]
Set(name) == [kind |-> "ipset", name |-> name]
Mac == [kind |-> "mac"]

PortRange(protocol, first, last) == [protocol |-> protocol, first |-> first, last |-> last]
Zone(sources, rules, services, ports, target) ==
    [sources |-> sources, richRules |-> rules, services |-> services, ports |-> ports, target |-> target]

Ten == [family |-> "ipv4", octets |-> <<2, 1>>]
Six == [family |-> "ipv6", octets |-> <<2, 1>>]

Snapshot(zoneOfH, zoneOfP, allowed) ==
    [zoneOrder |-> MCZoneOrder, zones |-> (H :> zoneOfH) @@ (P :> zoneOfP), default |-> P,
     ipsets |-> ("allow" :> allowed), definitions |-> ("web" :> {PortRange("tcp", 2, 3)})]

(* Every network, prefix and address, bound directly and by an ipset. *)
ThroughSets ==
    {[snapshot |-> Snapshot(Zone({b}, <<>>, {}, {}, "ACCEPT"), Zone({}, <<>>, {}, {}, "DROP"), {Cidr(net, prefix)}),
      ip |-> ip, query |-> PortRange("tcp", 1, 1)] :
        net \in Address("ipv4") \cup {Six}, prefix \in 0..4, ip \in Address("ipv4") \cup {Six},
        b \in {Set("allow"), Set("deny"), Mac}}

BoundTwice ==
    {[snapshot |-> Snapshot(Zone({Cidr(net, prefix), Host(Six)}, <<>>, {}, {}, "ACCEPT"), Zone({Host(net)}, <<>>, {}, {}, "DROP"), {}),
      ip |-> ip, query |-> PortRange("tcp", 1, 1)] :
        net \in Address("ipv4"), prefix \in 0..4, ip \in Address("ipv4") \cup {Six}}

Rule(family, source, port, service, action) ==
    [family |-> family, source |-> source, port |-> port, service |-> service, action |-> action]

Rules ==
    {Rule(family, source, port, service, action) :
        family \in {{}, {"ipv6"}}, source \in {{}, {Host(Ten)}, {Cidr(Six, 1)}},
        port \in {{}, {PortRange("tcp", 1, 2)}}, service \in {{}, {"web"}, {"none"}}, action \in {"drop"}}

(* Every zone of a rule or two, a service, a port range and a target. *)
Verdicts ==
    {[snapshot |-> Snapshot(Zone({}, <<>>, {}, {}, "DROP"), Zone({}, rules, services, ports, target), {}),
      ip |-> ip, query |-> query] :
        rules \in {<<>>} \cup {<<r>> : r \in Rules}
                  \cup {<<r, Rule({}, {Host(Ten)}, {}, {}, "accept")>> : r \in Rules},
        services \in {{}, {"web"}, {"none"}}, ports \in {{}, {PortRange("tcp", 1, 2)}, {PortRange("udp", 0, 3)}},
        target \in DOMAIN Unmatched, ip \in {Ten, Six},
        query \in {PortRange("tcp", 2, 2), PortRange("tcp", 2, 3), PortRange("tcp", 1, 3), PortRange("udp", 1, 1)}}

MCExplanations == {ThroughSets, BoundTwice, Verdicts}

-----------------------------------------------------------------------------
(* Every attribute of a zone on either side, alone or with another, objects of
   every type, and sections that could not be read. *)
Attributes == {<<field, v>> : field \in Flag \cup Collection} \cup {<<"target", "DROP">>}

Sides(objects) == {Firewall(run, disk, H) : run \in objects, disk \in objects}

OfOneZone == {H :> held : held \in {{a, b} : a, b \in Attributes} \cup {{}}}

OfAnyObject ==
    {FoldFunction(LAMBDA one, all : all @@ one, <<>>, objects) :
        objects \in
            [1..3 -> {<<>>, H :> {}, <<"ipset", v>> :> {}, <<"ipset", v>> :> {<<"entry", v>>},
                      <<"policy", v>> :> {}, <<"policy", v>> :> {<<"active", v>>},
                      <<"policy", v>> :> {<<"service", v>>}}]}

(* A policy refers to a zone and a service that may be there or not. *)
Web == <<"service", v>>

OfReferences ==
    {zones @@ services @@ policies :
        zones \in {<<>>, H :> {}, H :> {<<"service", Web>>}}, services \in {<<>>, Web :> {}},
        policies \in {<<>>} \cup
            {<<"policy", v>> :> references :
                references \in SUBSET {<<"ingress", H>>, <<"egress", <<"zone", "ANY">>>>, <<"egress", H>>, <<"service", Web>>}}}

Unread == {{}, {<<"Zones", "runtime">>}, {<<"IpSets", "permanent">>}, {<<"Policies", "runtime">>},
           {<<"Policies", "permanent">>, <<"Services", "runtime">>}}

MCComparisons ==
    {Sides(OfOneZone), {[s EXCEPT !.incomplete = gaps] : s \in Sides(OfAnyObject), gaps \in Unread},
     {[s EXCEPT !.incomplete = gaps, !.default = P] : s \in Sides(OfReferences), gaps \in Unread}}

-----------------------------------------------------------------------------
(* Firewalls with a strange name or value anywhere, and every failure. *)
Held ==
    {target \cup others :
        target \in {{<<"target", t>>} : t \in {"default", "DROP", odd}},
        others \in SUBSET {<<"service", v>>, <<"port", odd>>, <<"source", odd>>, <<"forward", v>>, <<"novel", odd>>}}

Beside ==
    {<<>>, <<"zone", odd>> :> {<<"target", "default">>},
     <<"zone", odd>> :> {<<"target", "default">>, <<"interface", v>>},
     P :> {<<"target", "default">>, <<"source", v>>},
     <<"ipset", v>> :> {<<"entry", odd>>}, <<"ipset", odd>> :> {<<"entry", v>>},
     <<"service", v>> :> {<<"port", v>>, <<"port", odd>>, <<"protocol", odd>>},
     (<<"policy", v>> :> {<<"target", "DROP">>, <<"ingress", odd>>})
        @@ (<<"policy", odd>> :> {<<"target", "CONTINUE">>})}
    \cup {<<"policy", v>> :> {<<"target", t>>, <<"service", x>>, <<"ingress", odd>>} : t \in {"DROP", odd}, x \in {v, odd}}

Reading(backend, fw, condition, failing) ==
    [backend |-> backend, firewall |-> fw, condition |-> condition, failing |-> failing]

WithOther(held, other) == Firewall((H :> held) @@ other, (H :> {<<"target", "default">>}) @@ other, H)

MCListings ==
    {{Reading(backend, WithOther(held, other), "well", {}) :
        backend \in {"CLI", "DBUS"}, held \in Held, other \in Beside},
     {Reading(backend, WithOther({}, other), condition, {}) :
        backend \in {"CLI", "DBUS"}, other \in Beside,
        condition \in {"stopped", "denied", "refusing", "hung", "missing"}},
     {Reading("DBUS", WithOther(held, <<>>), "well", failing) :
        held \in Held, failing \in {{"service"}, {"source", "port"}}},
     {Reading(backend, [Firewall(H :> held, H :> held, default) EXCEPT !.logDenied = log], "well", {}) :
        backend \in {"CLI", "DBUS"}, held \in Held, default \in {H, <<"zone", odd>>}, log \in {"off", odd}}}

MCDispatches ==
    {{[firewall |-> Firewall(run, disk, H), op |-> op] :
        run, disk \in Configurations({H, P}, {<<"service", v>>, <<"masquerade", v>>}), op \in Operation}}
=============================================================================
