--------------------------- MODULE DirectMigration ---------------------------
(***************************************************************************)
(* The translation of a legacy direct rule into a policy with a rich rule  *)
(* (src/domain/direct_migration.rs), beside what the two mean for a packet *)
(* (iptables and firewalld, external).                                     *)
(*                                                                         *)
(* A direct rule is a family, table and chain and the sequence of its      *)
(* options with their values; an address is the set of hosts it covers,    *)
(* in one family, and a port the set of numbers.                           *)
(***************************************************************************)
EXTENDS Integers, Sequences, SequencesExt

Families == {"ipv4", "ipv6"}
Transports == {"tcp", "udp"}            \* the protocols that have ports

Given(rule, option) == {i \in DOMAIN rule.options : rule.options[i][1] = option}

(* The values of an option: none or one, once Parsed. *)
Values(rule, option) == {rule.options[i][2] : i \in Given(rule, option)}

Understood == {"protocol", "module", "source", "destination", "sport", "dport", "jump", "reject"}

(* DirectArguments::parse: nothing unknown or negated, and nothing twice. *)
Parsed(rule) ==
    /\ \A i \in DOMAIN rule.options : rule.options[i][1] \in Understood
    /\ \A option \in Understood : Cardinality(Given(rule, option)) <= 1

Chains ==
    [INPUT |-> [ingress |-> "ANY", egress |-> "HOST"],
     OUTPUT |-> [ingress |-> "HOST", egress |-> "ANY"],
     FORWARD |-> [ingress |-> "ANY", egress |-> "ANY"]]

(* Faulty variant of PortsTogether: two ports are not told from one. *)
PortsTogetherUnseen(rule) == FALSE

PortsTogether(rule) == Given(rule, "sport") # {} /\ Given(rule, "dport") # {}

(* rule_element: what the rule says of ports and protocol; a set of at most one. *)
Element(rule) ==
    LET protocol == Values(rule, "protocol")
        sport == Values(rule, "sport")
        dport == Values(rule, "dport")
        ports(kind, numbers) ==
            {[kind |-> kind, ports |-> n, protocol |-> p] : n \in numbers, p \in protocol \cap Transports}
    IN  IF PortsTogether(rule) THEN {}
        ELSE IF sport # {} THEN ports("source-port", sport)
        ELSE IF dport # {} THEN ports("port", dport)
        ELSE IF protocol # {} THEN {[kind |-> "protocol", ports |-> {}, protocol |-> p] : p \in protocol}
        ELSE IF Values(rule, "source") # {} /\ Values(rule, "destination") = {}
             THEN {[kind |-> "none", ports |-> {}, protocol |-> "any"]}
        ELSE {}

(* into_rich_rule and what it calls. *)
Translatable(rule) ==
    /\ rule.table = "filter" /\ rule.chain \in DOMAIN Chains
    /\ Parsed(rule)
    /\ Values(rule, "module") \subseteq Values(rule, "protocol")
    /\ Values(rule, "jump") \subseteq {"ACCEPT", "DROP", "REJECT"} /\ Values(rule, "jump") # {}
    /\ Values(rule, "reject") # {} => Values(rule, "jump") = {"REJECT"}
    /\ \A address \in Values(rule, "source") \cup Values(rule, "destination") :
          address.family = rule.family
    /\ Element(rule) # {}

(* build_rich_rule: every part of the rule in its place. *)
RichRule(rule) ==
    [zones : {Chains[rule.chain]}, family : {rule.family},
     source : {Values(rule, "source")}, destination : {Values(rule, "destination")},
     element : Element(rule), action : Values(rule, "jump")]

(* The translation, if the rule has one. *)
Translate(rule) == IF Translatable(rule) THEN RichRule(rule) ELSE {}

-----------------------------------------------------------------------------
(* What a rule matches *)

Covers(address, family, host) == address.family = family /\ host \in address.hosts

(* One option of iptables: a port option is one of its protocol's module. *)
Satisfied(rule, option, packet) ==
    LET name == option[1]
        value == option[2]
    IN  CASE name \in {"protocol", "module"} -> packet.protocol = value
          [] name = "source" -> Covers(value, packet.family, packet.source)
          [] name = "destination" -> Covers(value, packet.family, packet.destination)
          [] name = "sport" -> packet.protocol \in Transports /\ packet.sport \in value
          [] name = "dport" -> packet.protocol \in Transports /\ packet.dport \in value
          [] name = "not source" -> ~Covers(value, packet.family, packet.source)
          [] OTHER -> TRUE

DirectMatches(rule, packet) ==
    /\ packet.way = rule.chain /\ packet.family = rule.family
    /\ \A i \in DOMAIN rule.options : Satisfied(rule, rule.options[i], packet)

Way(zones) ==
    IF zones.egress = "HOST" THEN "INPUT" ELSE IF zones.ingress = "HOST" THEN "OUTPUT" ELSE "FORWARD"

RichMatches(translation, packet) ==
    LET e == translation.element
    IN  /\ packet.way = Way(translation.zones) /\ packet.family = translation.family
        /\ \A a \in translation.source : Covers(a, packet.family, packet.source)
        /\ \A a \in translation.destination : Covers(a, packet.family, packet.destination)
        /\ e.kind # "none" => packet.protocol = e.protocol
        /\ e.kind = "port" => packet.dport \in e.ports
        /\ e.kind = "source-port" => packet.sport \in e.ports
=============================================================================
