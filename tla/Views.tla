-------------------------------- MODULE Views --------------------------------
(***************************************************************************)
(* The rows of the main table (src/ui/views.rs): what each view shows of a *)
(* firewall, in which order, and what a row says of itself, on which its   *)
(* removal is built (src/ui/update/rows.rs).                               *)
(*                                                                         *)
(* A row is known by its view, its object and its value; the object of an  *)
(* entry is the zone that owns it.  Its cells are the words a filter can   *)
(* find.  Objects and values come in the order of their names.             *)
(***************************************************************************)
EXTENDS Operations

CONSTANTS
    ObjectOrder,        \* the objects, in the order of their names
    ValueOrder          \* the values, in theirs

ASSUME OrderAssumption ==
    /\ ObjectOrder \in Seq(Object) /\ ToSet(ObjectOrder) = Object
    /\ ValueOrder \in Seq(Value) /\ ToSet(ValueOrder) = Value

(* The field of a zone that a view lists. *)
EntryField ==
    [Services |-> "service", Ports |-> "port", Forwarding |-> "forward_port", RichRules |-> "rich_rule"]
BindingField == [Interfaces |-> "interface", Sources |-> "source"]
NamedType == [Zones |-> "zone", IpSets |-> "ipset", Policies |-> "policy"]

ViewId == DOMAIN EntryField \cup DOMAIN BindingField \cup DOMAIN NamedType \cup {"Direct", "Logs"}

ById(v, object, value) == [view |-> v, object |-> object, value |-> value]

(* A row knows the scopes it is present in, or, for a binding, the one it was
   taken from; the word of the SCOPE column is one of its cells. *)
Row(id, word, scopes, cells) == [id |-> id, scope |-> word, scopes |-> scopes, cells |-> cells]

(* The elements of a sequence that are wanted, in their order: what SelectSeq does,
   said by counting. *)
Kept(seq, wanted) ==
    LET places == {i \in DOMAIN seq : seq[i] \in wanted}
        nth(n) == CHOOSE i \in places : Cardinality(places \cap (1..i)) = n
    IN  [n \in 1..Cardinality(places) |-> seq[nth(n)]]

Named(objects) == Kept(ObjectOrder, objects)
Sorted(values) == Kept(ValueOrder, values)
Rowed(RowOf(_), order) == [i \in DOMAIN order |-> RowOf(order[i])]

(* Every object with every value, by the names of both. *)
PairOrder ==
    [n \in 1..Len(ObjectOrder) * Len(ValueOrder) |->
        <<ObjectOrder[((n - 1) \div Len(ValueOrder)) + 1], ValueOrder[((n - 1) % Len(ValueOrder)) + 1]>>]

-----------------------------------------------------------------------------
(* Entries of a zone: the union of both configurations *)

Held(configuration, object, field) ==
    IF object \in DOMAIN configuration THEN {v \in Value : <<field, v>> \in configuration[object]} ELSE {}

ScopeWord(scopes) ==
    CASE scopes = Both -> "both" [] scopes = Runtime -> "runtime"
      [] scopes = Permanent -> "permanent" [] OTHER -> "none"

ScopesOf(value, run, disk) ==
    (IF value \in run THEN Runtime ELSE {}) \cup (IF value \in disk THEN Permanent ELSE {})

EntryRows(kind, fw, owner) ==
    LET run == Held(fw.runtime, owner, EntryField[kind])
        disk == Held(fw.permanent, owner, EntryField[kind])
        row(v) == LET scopes == ScopesOf(v, run, disk)
                  IN  Row(ById(kind, owner, v), ScopeWord(scopes), scopes, {v, ScopeWord(scopes)})
    IN  Rowed(row, Sorted(run \cup disk))

(* Bindings of one perspective: the permanent ones are those of the zones, the
   others those of the active zones. *)
BindingRows(kind, fw, side) ==
    LET bound == IF side = Permanent THEN fw.permanent ELSE fw.active
        field == BindingField[kind]
        held == {p \in ToSet(PairOrder) : Type(p[1]) = "zone" /\ p[2] \in Held(bound, p[1], field)}
    IN  Rowed(LAMBDA p : Row(ById(kind, p[1], p[2]), "none", side, {p[2], p[1][2]}), Kept(PairOrder, held))

-----------------------------------------------------------------------------
(* Objects *)

OfType(kind, configuration) == {o \in DOMAIN configuration : Type(o) = NamedType[kind]}

ZoneRows(fw) ==
    Rowed(LAMBDA o : Row(ById("Zones", o, o[2]), "none", {}, {o[2]}),
          Named(OfType("Zones", fw.runtime) \cup OfType("Zones", fw.permanent)))

(* An ipset or a policy that differs between the configurations is drifting. *)
ObjectRows(kind, fw) ==
    LET run == OfType(kind, fw.runtime)
        disk == OfType(kind, fw.permanent)
        word(o) == IF o \in run \cap disk /\ fw.runtime[o] # fw.permanent[o] THEN "drift"
                   ELSE ScopeWord(ScopesOf(o, run, disk))
    IN  Rowed(LAMBDA o : Row(ById(kind, o, o[2]), word(o), ScopesOf(o, run, disk), {o[2], word(o)}),
              Named(run \cup disk))

(* Direct rules as they come; the place tells equal ones apart. *)
DirectRows(fw) == [i \in DOMAIN fw.direct |-> Row(ById("Direct", <<"direct", i>>, fw.direct[i]), "none", {}, {fw.direct[i]})]

(* Newest first; a line is known by its number. *)
LogRows(lines) ==
    [i \in DOMAIN lines |-> LET line == lines[Len(lines) + 1 - i]
                           IN  Row(ById("Logs", <<"log", line.number>>, line.flow), "none", {}, {line.flow.source})]

Rows(kind, fw, owner, side) ==
    CASE kind \in DOMAIN EntryField -> EntryRows(kind, fw, owner)
      [] kind \in DOMAIN BindingField -> BindingRows(kind, fw, side)
      [] kind = "Zones" -> ZoneRows(fw)
      [] kind \in {"IpSets", "Policies"} -> ObjectRows(kind, fw)
      [] kind = "Direct" -> DirectRows(fw)

(* The views that an overview can show; the others wait for the snapshot. *)
Previewed == {"Zones", "Ports", "Forwarding", "RichRules"} \cup DOMAIN BindingField

-----------------------------------------------------------------------------
(* The removal of a row *)

(* Faulty variant of TargetOr: the default, wherever the entry is. *)
TargetOrDefault(row, default) == default

(* target_for_scope: never a scope that the entry is not in. *)
TargetOr(row, default) == IF row.scope \in {"runtime", "permanent"} THEN row.scopes ELSE default

(* remove_operation_for_row: no operation for rows that only go one by one. *)
Removal(row, default) ==
    LET edit(field, target) == {Make("Edit", row.id.object, <<field, row.id.value>>, FALSE, target)}
    IN  CASE row.id.view \in DOMAIN EntryField -> edit(EntryField[row.id.view], TargetOr(row, default))
          [] row.id.view = "Sources" -> edit("source", row.scopes)
          [] OTHER -> {}

(* delete_entry, with nothing marked. *)
Deletion(row, default) ==
    CASE row.id.view = "Interfaces" ->
           {Make("Edit", row.id.object, <<"interface", row.id.value>>, FALSE, row.scopes)}
      [] row.id.view \in DOMAIN NamedType -> {Make("Delete", row.id.object, <<>>, FALSE, Permanent)}
      [] OTHER -> Removal(row, default)

(* clone_entry: the form that adds what the row shows; an ipset is cloned to a
   new one of its type. *)
Cloned(row) ==
    CASE row.id.view \in DOMAIN EntryField -> {[form |-> EntryField[row.id.view], value |-> row.id.value]}
      [] row.id.view = "Sources" -> {[form |-> "source", value |-> row.id.value]}
      [] row.id.view = "IpSets" -> {[form |-> "ipset", value |-> row.id.value]}
      [] OTHER -> {}
=============================================================================
