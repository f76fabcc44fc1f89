------------------------------ MODULE MCScreen ------------------------------
(* Instances of the screen: two zones, two values; one scenario for each group
   of views, so that their rows are seen with everything around them. *)
EXTENDS ScreenProperties

Public == <<"zone", "public">>
Work == <<"zone", "work">>
Block == <<"ipset", "block">>
Allow == <<"ipset", "allow">>
Guard == <<"policy", "guard">>

MCObject == {Public, Work, Block, Allow, Guard}
MCObjectOrder == <<Allow, Block, Guard, Public, Work>>
MCValue == {"a", "b"}
MCValueOrder == <<"a", "b">>
MCCreatable == {Work, Allow}

Fw(run, disk, bound, direct) ==
    [runtime |-> run, permanent |-> disk, active |-> bound, direct |-> direct, default |-> Public,
     incomplete |-> {}, policySets |-> "Supported", panic |-> FALSE, logDenied |-> "off"]

Has(field, values) == {<<field, v>> : v \in values}

(* Ports: an entry in one scope or both, and a zone that comes and goes. *)
PortsBoth == Fw(Public :> Has("port", {"a", "b"}), Public :> Has("port", {"b"}), <<>>, <<>>)
PortsMoved ==
    Fw(Public :> Has("port", {"b"}),
             (Public :> Has("port", {"a", "b"})) @@ (Work :> Has("port", {"a"})), <<>>, <<>>)

Session(views, firewalls, words, forms, depth, stage) ==
    [views |-> views, firewalls |-> firewalls, words |-> words, forms |-> forms, flows |-> {},
     switches |-> {}, depth |-> depth, staged |-> stage, readOnly |-> FALSE, confirm |-> TRUE,
     target |-> Both]

OfPorts == Session({"Ports"}, {"ports_both", "ports_moved"}, {"b"}, {"port"}, 1, 1)
OfTheZones ==
    [Session({"Zones", "Ports"}, {"ports_both", "ports_moved"}, {}, {}, 1, 0) EXCEPT
        !.switches = {"Panic", "LogDenied", "RuntimeToPermanent"}]
ReadOnly == [OfTheZones EXCEPT !.readOnly = TRUE]
Unconfirmed == [OfPorts EXCEPT !.confirm = FALSE]

(* Bindings and address sets. *)
Bound1 ==
    Fw((Public :> Has("source", {"a"})) @@ (Block :> Has("entry", {"a"})),
             (Public :> Has("source", {"a", "b"})) @@ (Block :> {}) @@ (Allow :> {}),
             Public :> Has("source", {"a"}), <<>>)
Bound2 ==
    Fw((Public :> Has("source", {"b"})) @@ (Allow :> {}),
             (Public :> Has("source", {"b"})) @@ (Allow :> {}),
             Public :> Has("source", {"b"}), <<>>)
OfBindings == Session({"Sources", "IpSets"}, {"bound_1", "bound_2"}, {}, {"entry"}, 2, 0)

(* Log lines and direct rules. *)
Denied == [source |-> "s1", denied |-> TRUE, interface |-> "a", rule |-> "a"]
Accepted == [source |-> "s2", denied |-> FALSE, interface |-> "b", rule |-> "b"]
Direct1 == Fw(Public :> {}, Public :> {}, Public :> Has("interface", {"a"}), <<"a", "b">>)
Direct2 == Fw(Public :> {}, Public :> Has("rich_rule", {"a"}), <<>>, <<"b">>)
OfLogs ==
    [Session({"Logs", "Direct"}, {"direct_1", "direct_2"}, {}, {"migrate"}, 1, 0) EXCEPT
        !.flows = {Denied, Accepted}]

MCFirewall ==
    [ports_both |-> PortsBoth, ports_moved |-> PortsMoved, bound_1 |-> Bound1, bound_2 |-> Bound2,
     direct_1 |-> Direct1, direct_2 |-> Direct2]
MCScenario == {OfPorts, OfTheZones, ReadOnly, Unconfirmed, OfBindings, OfLogs}
=============================================================================
