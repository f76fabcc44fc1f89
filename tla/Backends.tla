------------------------------ MODULE Backends -------------------------------
(***************************************************************************)
(* How the two backends read the whole firewall and carry out an operation *)
(* (src/infrastructure/firewalld): the default one runs firewall-cmd and   *)
(* parses what it prints (parse.rs, errors.rs), the other one calls        *)
(* firewalld over D-Bus (dbus.rs).                                         *)
(*                                                                         *)
(* A firewalld newer than the program may know names, values and fields    *)
(* that the program's own types reject: they are strange.  A listing is    *)
(* what a backend makes of a firewall: its objects in both scopes, the     *)
(* active zones, the direct rules, and the sections it declares            *)
(* incomplete.  An answer holds a listing, or none and an error.           *)
(***************************************************************************)
EXTENDS Operations

CONSTANT Strange        \* names and values that no constructor accepts

Odd(elements) == {e \in elements : e[2] \in Strange}

Retaining(elements, object) ==
    elements \cup (IF \E e \in elements : e[1] = "target" THEN {} ELSE Blank(object))

SectionOf(object) ==
    CASE Type(object) = "zone" -> "Zones"
      [] Type(object) = "policy" -> "Policies"
      [] Type(object) = "ipset" -> "IpSets"
      [] Type(object) = "service" -> "ServiceDefinitions"

-----------------------------------------------------------------------------
(* The text of firewall-cmd *)

(* Faulty variant of ZoneBlock: what it does not accept it leaves out. *)
ZoneBlockLenient(zone, elements) ==
    {{e \in elements : e[1] \in Flag \cup Collection \cup {"target"}} \ Odd(elements)}

(* parse_zone_block: an unknown key is ignored, an unknown value is an error. *)
ZoneBlock(zone, elements) ==
    LET known == {e \in elements : e[1] \in Flag \cup Collection \cup {"target"}}
    IN  IF zone[2] \in Strange \/ Odd(known) # {} THEN {} ELSE {known}

(* parse_policy_info: the zones of a policy are taken verbatim, and an unknown
   target is passed over. *)
Items == {"service", "port", "protocol", "forward_port", "source_port", "icmp_block", "rich_rule"}
Verbatim == {"ingress", "egress", "disabled", "masquerade"}

PolicyInfo(policy, elements) ==
    LET items == {e \in elements : e[1] \in Items}
        others == {e \in elements : e[1] \in Verbatim}
        target == {e \in elements : e[1] = "target" /\ e[2] \notin Strange}
    IN  IF policy[2] \in Strange \/ Odd(items) # {} THEN {}
        ELSE {Retaining(items \cup others \cup target, policy)}

(* parse_service_info: malformed ports are skipped. *)
ServiceInfo(elements) ==
    {e \in elements : e[1] = "protocol" \/ (e[1] = "port" /\ e[2] \notin Strange)}

(* parse_ipset_info: entries are taken verbatim. *)
IpSetInfo(elements) == {e \in elements : e[1] = "entry"}

(* What is read of an object; nothing if it cannot be read. *)
CliObject(object, elements) ==
    CASE Type(object) = "zone" -> ZoneBlock(object, elements)
      [] Type(object) = "policy" -> PolicyInfo(object, elements)
      [] Type(object) = "service" -> {ServiceInfo(elements)}
      [] Type(object) = "ipset" -> {IpSetInfo(elements)}

(* parse_policy_names, parse_ipset_names: one bad name and none is known; zones
   come in one listing, in which a bad block is left out. *)
Listed(configuration) ==
    {o \in DOMAIN configuration :
        \/ Type(o) = "zone"
        \/ \A p \in DOMAIN configuration : Type(p) = Type(o) => p[2] \notin Strange}

ReadBy(configuration) ==
    {o \in Listed(configuration) : CliObject(o, configuration[o]) # {}}

CliScope(configuration) ==
    [o \in ReadBy(configuration) |-> UNION CliObject(o, configuration[o])]

CliGaps(fw) ==
    UNION {{<<SectionOf(o), scope>> : o \in DOMAIN fw[scope] \ ReadBy(fw[scope])} : scope \in Both}

(* parse_active_zones: one bad name or binding and nothing is known. *)
Bindings(elements) == {e \in elements : e[1] \in {"interface", "source"}}

Actively(configuration) ==
    {o \in DOMAIN configuration : Type(o) = "zone" /\ Bindings(configuration[o]) # {}}

ActiveZones(configuration) ==
    LET active == Actively(configuration)
    IN  IF \E o \in active : o[2] \in Strange \/ Odd(Bindings(configuration[o])) # {} THEN {}
        ELSE {[o \in active |-> Bindings(configuration[o])]}

-----------------------------------------------------------------------------
(* What can go wrong with a command or a call *)

(* What running firewall-cmd comes to, by the condition of the system. *)
FirewallCmd(condition) ==
    CASE condition = "well" -> [process |-> "exited", code |-> 0]
      [] condition = "stopped" -> [process |-> "exited", code |-> 252]
      [] condition = "denied" -> [process |-> "exited", code |-> 253]
      [] condition = "refusing" -> [process |-> "exited", code |-> 1]
      [] condition = "hung" -> [process |-> "timeout", code |-> 0]
      [] condition = "missing" -> [process |-> "not found", code |-> 0]

MapProcessError(process) ==
    CASE process = "not found" -> "NotInstalled"
      [] process = "timeout" -> "Timeout"

MapFailure(code) ==
    CASE code = 253 -> "PermissionDenied"
      [] code = 252 -> "DaemonNotRunning"
      [] OTHER -> "CommandFailed"

(* run_ok *)
CommandError(condition) ==
    LET run == FirewallCmd(condition)
    IN  CASE run.process # "exited" -> {MapProcessError(run.process)}
          [] run.process = "exited" /\ run.code # 0 -> {MapFailure(run.code)}
          [] OTHER -> {}

(* What firewalld or the bus replies to a call: a named error, perhaps with a
   detail, or no usable reply. *)
DbusReply(condition) ==
    CASE condition = "stopped" -> [name |-> "ServiceUnknown", detail |-> ""]
      [] condition = "denied" -> [name |-> "Exception", detail |-> "NOT_AUTHORIZED"]
      [] condition = "refusing" -> [name |-> "Exception", detail |-> "INVALID_ZONE"]
      [] OTHER -> [name |-> "", detail |-> ""]

(* map_method_error, and dbus_err for what has no name. *)
MapMethodError(name, detail) ==
    IF name \in {"AccessDenied", "NotAuthorized"} \/ detail = "NOT_AUTHORIZED" THEN "PermissionDenied"
    ELSE IF name \in {"ServiceUnknown", "NameHasNoOwner"} THEN "DaemonNotRunning"
    ELSE "Process"

CallError(condition) ==
    LET reply == DbusReply(condition)
    IN  IF condition \in {"well", "missing"} THEN {} ELSE {MapMethodError(reply.name, reply.detail)}

-----------------------------------------------------------------------------
(* Reading the firewall *)

NoListing(error) == [listing |-> {}, error |-> error]

CliListing(fw) ==
    [runtime |-> CliScope(fw.runtime), permanent |-> CliScope(fw.permanent),
     active |-> CHOOSE active \in ActiveZones(fw.runtime) : TRUE, direct |-> fw.direct, incomplete |-> CliGaps(fw)]

(* The default zone and the log setting are read with the status. *)
StrangeStatus(fw) == fw.default[2] \in Strange \/ fw.logDenied \in Strange

CliSnapshot(fw, condition) ==
    IF CommandError(condition) # {} THEN NoListing(CommandError(condition))
    ELSE IF StrangeStatus(fw) \/ ActiveZones(fw.runtime) = {} THEN NoListing({"Parse"})
    ELSE [listing |-> {CliListing(fw)}, error |-> {}]

(* runtime_zone and permanent_zone read these, value by value: parsed drops what
   it does not accept, and an unknown target is the default one. *)
Getters ==
    {"target", "service", "port", "forward_port", "rich_rule", "interface", "source",
     "icmp_block", "masquerade"}

DbusZone(zone, elements) ==
    Retaining({e \in elements : e[1] \in Getters} \ Odd(elements), zone)

DbusZones(configuration) ==
    [o \in {o \in DOMAIN configuration : Type(o) = "zone" /\ o[2] \notin Strange} |->
        DbusZone(o, configuration[o])]

(* Declared degraded; what no getter reads of a zone is not. *)
NotFetched ==
    {"IpSets", "Policies", "ServiceDefinitions"} \X Both \cup {<<"DirectRules", "runtime">>}

DbusListing(fw) ==
    LET zones == DbusZones(fw.runtime)
    IN  [runtime |-> zones, permanent |-> DbusZones(fw.permanent),
         active |-> [o \in Actively(fw.runtime) \cap DOMAIN zones |-> Bindings(zones[o])],
         direct |-> {}, incomplete |-> NotFetched]

(* A getter that fails makes the whole snapshot fail. *)
DbusSnapshot(fw, condition, failing) ==
    IF CallError(condition) # {} THEN NoListing(CallError(condition))
    ELSE IF StrangeStatus(fw) THEN NoListing({"Parse"})
    ELSE IF failing \cap Getters # {} /\ \E scope \in Both : DOMAIN DbusZones(fw[scope]) # {}
    THEN NoListing(CallError("refusing"))
    ELSE [listing |-> {DbusListing(fw)}, error |-> {}]

-----------------------------------------------------------------------------
(* Carrying out an operation over D-Bus *)

(* runtime_only *)
RuntimeOnly(target) == target = Runtime

(* dispatch: the calls that are made for an operation; none if it is refused.
   firewalld's zone methods change the runtime. *)
DbusCalls(op) ==
    CASE op.kind \in {"Reload", "DefaultZone", "LogDenied"} -> <<Step("global", op)>>
      [] op.kind = "RuntimeToPermanent" -> <<Step("permanent", op)>>
      [] op.kind = "Panic" -> <<Step("runtime", op)>>
      [] op.kind = "Edit" /\ op.element[1] \in {"service", "port", "masquerade"}
         /\ Type(op.object) = "zone" /\ RuntimeOnly(op.target) -> <<Step("runtime", op)>>
      [] OTHER -> <<>>
=============================================================================
