------------------------------- MODULE Explain -------------------------------
(***************************************************************************)
(* "Explain this traffic" (src/domain/explain.rs): which zone an address   *)
(* falls into and what the zone makes of a port, computed from one         *)
(* snapshot, address by address and bit by bit.                            *)
(*                                                                         *)
(* An address is a family and a sequence of octets of OctetBits bits.  The *)
(* text of a rich rule is the record of the attributes that are found in   *)
(* it; priorities and the ingress interface are ignored, as in the code.   *)
(***************************************************************************)
EXTENDS Integers, Sequences, SequencesExt

CONSTANT OctetBits      \* 8

ASSUME ExplainAssumption == OctetBits \in Nat \ {0}

-----------------------------------------------------------------------------
(* Addresses *)

(* Faulty variant of Masked: the mask keeps the low bits. *)
MaskedLow(octet, bits) == octet % 2^bits

(* octet & (0xff << (8 - bits)), as the value of the bits that are kept *)
Masked(octet, bits) == octet \div 2^(OctetBits - bits)

(* The loop over the octets: bits that remain to compare; the answer, if found. *)
Compare(progress, pair) ==
    IF progress.answer # {} THEN progress
    ELSE IF progress.remaining = 0 THEN [progress EXCEPT !.answer = {TRUE}]
    ELSE IF progress.remaining >= OctetBits
         THEN IF pair[1] # pair[2] THEN [progress EXCEPT !.answer = {FALSE}]
              ELSE [progress EXCEPT !.remaining = @ - OctetBits]
    ELSE [progress EXCEPT !.answer =
            {Masked(pair[1], progress.remaining) = Masked(pair[2], progress.remaining)}]

MaskedEq(net, ip, prefix) ==
    FALSE \notin FoldLeft(Compare, [remaining |-> prefix, answer |-> {}], Zip(net, ip)).answer

CidrContains(net, prefix, ip) == net.family = ip.family /\ MaskedEq(net.octets, ip.octets, prefix)

(* entry_matches: an entry of an ipset, or the source of a rich rule *)
EntryMatches(entry, ip) ==
    CASE entry.kind = "ip" -> entry.addr = ip
      [] entry.kind = "cidr" -> CidrContains(entry.addr, entry.prefix, ip)
      [] OTHER -> FALSE

SourceMatches(binding, ip, ipsets) ==
    IF binding.kind = "ipset"
    THEN binding.name \in DOMAIN ipsets /\ \E entry \in ipsets[binding.name] : EntryMatches(entry, ip)
    ELSE EntryMatches(binding, ip)

(* zone_for_source_ip: the first zone, by name, that has a binding of the address *)
ZonesFor(s, ip) ==
    SelectSeq(s.zoneOrder, LAMBDA zone :
        \E binding \in s.zones[zone].sources : SourceMatches(binding, ip, s.ipsets))

-----------------------------------------------------------------------------
(* Ports *)

SelectorCovers(rule, query) == rule.first <= query.first /\ query.last <= rule.last

PortCovers(rule, query) == rule.protocol = query.protocol /\ SelectorCovers(rule, query)

ServiceOpens(s, service, query) ==
    service \in DOMAIN s.definitions /\ \E port \in s.definitions[service] : PortCovers(port, query)

(* A rule without a source matches nothing; a port goes before a service. *)
RichRuleMatches(s, rule, ip, query) ==
    /\ rule.family \subseteq {ip.family}
    /\ \E source \in rule.source : EntryMatches(source, ip)
    /\ \A port \in rule.port : PortCovers(port, query)
    /\ rule.port = {} => \A service \in rule.service : ServiceOpens(s, service, query)

-----------------------------------------------------------------------------
(* Verdicts *)

Unmatched == [ACCEPT |-> "accept", DROP |-> "drop", REJECT |-> "reject", default |-> "reject"]

(* evaluate_zone: the first stage that decides *)
EvaluateZone(s, zone, ip, query) ==
    LET rules == SelectSeq(zone.richRules, LAMBDA rule : RichRuleMatches(s, rule, ip, query))
    IN  IF rules # <<>> THEN Head(rules).action
        ELSE IF \E service \in zone.services : ServiceOpens(s, service, query) THEN "accept"
        ELSE IF \E port \in zone.ports : PortCovers(port, query) THEN "accept"
        ELSE Unmatched[zone.target]

(* explain: the zone of the source, else the default zone if it is known *)
Explanation(s, ip, query) ==
    LET bySource == ZonesFor(s, ip)
    IN  IF bySource # <<>> THEN EvaluateZone(s, s.zones[Head(bySource)], ip, query)
        ELSE IF s.default \in DOMAIN s.zones THEN EvaluateZone(s, s.zones[s.default], ip, query)
        ELSE "unknown zone"
=============================================================================
