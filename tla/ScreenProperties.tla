-------------------------- MODULE ScreenProperties --------------------------
(* What the screen promises to the person who works on it while the firewall
   is read again underneath. *)
EXTENDS Screen

(* The cursor follows its row: when the engine brings new rows, when the
   perspective changes and while a filter is typed, it stays on the row it was on
   if that row can still be seen, so that the next key means the row that the
   person looks at (reconcile_selection: the identity wins over the stale number).
   When the engine stops the cursor is not looked after. *)
CursorFollows ==
    [][/\ Cursor # {} /\ Cursor \subseteq Ids(Visible')
       /\ ended' = ended /\ view' = view
       /\ <<engine, feed, config>>' # <<engine, feed, config>> \/ (overlays = <<>> /\ mode = "Filter")
       => Cursor' = Cursor]_vars

(* The cursor is on a row whenever there is one, and every mark is on a row that
   is there, visible or filtered out: whatever replaced the rows since, the next
   key never falls outside them, and no mark outlives its row to fall on one that
   comes back and let a bulk deletion take it (update/mod.rs,
   reconcile_selection).  A preview is never there without its refresh.  When the
   engine stops they are not looked after; nothing can be changed any more. *)
SelectionHeld ==
    /\ ended \/ (selected \in 1..Max({1, Len(Visible)}) /\ marked \subseteq Ids(Shown))
    /\ overview # {} => active

(* The operations of the staging area, as they may have been narrowed. *)
FromStaging(op) ==
    \E i \in DOMAIN staged : op = [staged[i] EXCEPT !.target = op.target] /\ op.target \subseteq staged[i].target

(* The person is asked to remove what a visible row shows, and only where the row
   shows it, even while a preview shows more or less than the snapshot that the
   removal is checked against (update/rows.rs, target_for_scope: removing a
   runtime-only entry never issues a doomed permanent call). *)
AsksWhatIsShown ==
    [][\A i \in DOMAIN asked' :
          LET op == asked'[i]
          IN  /\ op.kind = "Edit" /\ ~op.adding /\ ~FromStaging(op)
              /\ op.element[1] \in {"service", "port", "forward_port", "rich_rule", "interface", "source"}
              => \E row \in ToSet(Visible) :
                    /\ row.id.object = op.object /\ row.id.value = op.element[2]
                    /\ op.target \subseteq row.scopes]_vars

(* Whatever way an operation takes to be put forward - a key, the palette, a form,
   a log line, the marks, the staging area - none is put forward to a person who
   may only read, or on data that are known to be old; and who may only read
   stages nothing (blocked_read_only, blocked_stale: "the single read-only gate
   for mutation entry points"). *)
GatesHold ==
    [][/\ settings.readOnly \/ failed => asked' = <<>>
       /\ settings.readOnly => staged' = <<>>]_vars

=============================================================================
