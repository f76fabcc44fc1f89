------------------------------- MODULE Restore -------------------------------
(***************************************************************************)
(* Restoring a saved snapshot, and repairing drift: the operations that    *)
(* turn the firewall as it is into another (src/domain/restore.rs; their   *)
(* use in src/ui/update/plans.rs).  Runtime and permanent configuration    *)
(* are compared each on its own, zone by zone.                             *)
(***************************************************************************)
EXTENDS Operations

CONSTANT ZoneOrder      \* the zones, in the order of their names

ASSUME RestoreAssumption == ToSet(ZoneOrder) = Zones /\ IsInjective(ZoneOrder)

Compared ==
    <<"service", "port", "forward_port", "rich_rule", "source", "icmp_block", "source_port",
      "protocol", "masquerade", "forward", "icmp_block_inversion">>

Of(field, elements) == {e \in elements : e[1] = field}

(* Faulty variant of DiffPairs: what one scope lacks is put into both. *)
DiffPairsBoth(zone, field, current, wanted, scope) ==
    LET edits(elements, adding) ==
            SetToSeq({Make("Edit", zone, e, adding, Both) : e \in Of(field, elements)})
    IN  edits(wanted \ current, TRUE) \o edits(current \ wanted, FALSE)

(* diff_pairs, and a flag as its only element: additions before removals. *)
DiffPairs(zone, field, current, wanted, scope) ==
    LET edits(elements, adding) ==
            SetToSeq({Make("Edit", zone, e, adding, {scope}) : e \in Of(field, elements)})
    IN  edits(wanted \ current, TRUE) \o edits(current \ wanted, FALSE)

(* The zone target exists in the permanent configuration only. *)
DiffTarget(zone, current, wanted, scope) ==
    IF scope = "permanent"
    THEN SetToSeq({Make("SetTarget", zone, e, TRUE, Permanent) : e \in Of("target", wanted \ current)})
    ELSE <<>>

DiffZone(zone, current, wanted, scope) ==
    FlattenSeq([i \in DOMAIN Compared |-> DiffPairs(zone, Compared[i], current, wanted, scope)])
    \o DiffTarget(zone, current, wanted, scope)

(* Zones of both sides only: restoring creates and deletes none. *)
DiffScope(current, wanted, scope) ==
    LET shared == SelectSeq(ZoneOrder, LAMBDA zone : zone \in DOMAIN current[scope] \cap DOMAIN wanted[scope])
    IN  FlattenSeq([i \in DOMAIN shared |->
            DiffZone(shared[i], current[scope][shared[i]], wanted[scope][shared[i]], scope)])

(* restore::plan *)
RestorePlan(current, wanted) ==
    (IF current.default # wanted.default /\ wanted.default \in DOMAIN current.runtime
     THEN <<Make("DefaultZone", wanted.default, <<>>, TRUE, Both)>> ELSE <<>>)
    \o DiffScope(current, wanted, "runtime")
    \o DiffScope(current, wanted, "permanent")

(* stage_drift_sync: the permanent half of a restore of the runtime. *)
DriftRepairs(current) ==
    SelectSeq(RestorePlan(current, [current EXCEPT !.permanent = current.runtime]),
              LAMBDA op : op.target = Permanent)
=============================================================================
