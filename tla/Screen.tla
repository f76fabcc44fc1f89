------------------------------- MODULE Screen -------------------------------
(***************************************************************************)
(* The screen and its one table (src/ui/update/mod.rs with rows.rs,        *)
(* forms.rs, plans.rs; src/ui/state.rs, keymap.rs, palette.rs, search.rs): *)
(* what the keys of the person and the news of the engine do to the cursor,*)
(* the marks and the filter while a refresh replaces the rows under them,  *)
(* and which operations the person can be asked about.                     *)
(*                                                                         *)
(* What happens to an operation once it is put forward is the subject of   *)
(* ReviewedChanges and RollbackSession; the countdowns, undo and restores  *)
(* are left to them.  The place of the cursor, the filter and the marks of *)
(* the views that are not shown are not kept: whoever comes back to a view *)
(* finds no filter and no marks, and the cursor anywhere.                  *)
(***************************************************************************)
EXTENDS Views

CONSTANTS
    Scenario,           \* settings of a session, what it can come across, and its bounds:
                        \* "depth" dialogs on top of each other, "staged" operations
    Firewall,           \* the states of the firewall, by names
    LogCapacity,        \* lines kept (MAX_LOG_ENTRIES)
    MaxLines            \* lines received

ASSUME ScreenAssumption ==
    /\ \A s \in Scenario :
          s.views \subseteq ViewId /\ s.firewalls \subseteq DOMAIN Firewall /\ s.target \in Targets
    /\ \A fw \in DOMAIN Firewall : Firewall[fw].default \in Zones /\ Firewall[fw].direct \in Seq(Value)
    /\ LogCapacity \in Nat \ {0}

VARIABLES
    settings,           \* the scenario
    snapshot,           \* the last complete snapshot, if there is one
    overview,           \* the preview of the active refresh, if it came
    active,             \* a refresh is active
    failed,             \* the last refresh failed, or the engine stopped
    ended,              \* the engine stopped
    logs, received,     \* the ring of log lines; how many came
    view, zone, config, \* the view, the zone chosen for it, the perspective
    mode, filter,       \* typing a filter or not; the filter
    selected, marked,   \* the place of the cursor; the identities marked
    overlays,           \* the dialogs, the topmost last
    staged,             \* the staging area
    asked               \* the operations that the last action put forward

engine == <<snapshot, overview, active, failed, ended>>
feed == <<logs, received>>
place == <<view, zone, config, mode, filter>>
table == <<place, selected, marked>>
vars == <<settings, engine, feed, table, overlays, staged, asked>>

None == "none"
Only(set) == CHOOSE x \in set : TRUE

-----------------------------------------------------------------------------
(* What is shown *)

(* The rows of every view, for every firewall, zone and perspective; the choice of
   the only one makes TLC tabulate them once. *)
RowsOf ==
    LET views == (UNION {s.views : s \in Scenario}) \ {"Logs"}
        rows == [fw \in DOMAIN Firewall |-> [v \in views |-> [z \in Zones |->
                   [c \in {Runtime, Permanent} |-> Rows(v, Firewall[fw], z, c)]]]]
    IN  CHOOSE f \in {rows} : f = f

(* The preview wins over the snapshot where it can; so does its default zone. *)
AllRows(v) ==
    LET source == IF v \in Previewed /\ overview # {} THEN overview ELSE snapshot
        fw == Only(source)
    IN  IF v = "Logs" THEN LogRows(logs)
        ELSE IF source = {} THEN <<>>
        ELSE RowsOf[fw][v][IF zone # {} THEN Only(zone) ELSE Firewall[fw].default][config]

Shown == AllRows(view)
Matching(rows) ==
    IF filter = None THEN rows ELSE Kept(rows, {row \in ToSet(rows) : filter \in row.cells})
Visible == Matching(Shown)

Ids(rows) == {rows[i].id : i \in DOMAIN rows}

Selected == {Visible[i] : i \in {selected} \cap DOMAIN Visible}
Cursor == {row.id : row \in Selected}

EffectiveZone == IF zone # {} THEN zone ELSE {Firewall[fw].default : fw \in snapshot}

(* zone_for_action: in the list of zones, the one under the cursor. *)
ZoneForAction ==
    IF view = "Zones" /\ Selected # {} THEN {row.id.object : row \in Selected} ELSE EffectiveZone

-----------------------------------------------------------------------------
(* The cursor after the rows changed *)

(* Faulty variant of Placed: the number is kept, whatever row has it now. *)
PlacedByNumber(rows, ids, at) == IF rows = <<>> THEN 1 ELSE Min({at, Len(rows)})

(* The row that the cursor was on, if it is still there. *)
Placed(rows, ids, at) ==
    LET same == {i \in DOMAIN rows : rows[i].id \in ids}
    IN  IF same # {} THEN Min(same) ELSE IF rows = <<>> THEN 1 ELSE Min({at, Len(rows)})

(* Faulty variant of Pruned: a mark outlives its row. *)
PrunedNever(marks, rows) == marks

Pruned(marks, rows) == marks \cap Ids(rows)

(* reconcile_selection: the marks first, on all the rows, then the cursor, on the
   visible ones. *)
Reconcile(ids) ==
    /\ marked' = Pruned(marked, Shown')
    /\ selected' = Placed(Visible', ids, selected)

-----------------------------------------------------------------------------
(* News of the engine *)

News == /\ ~ended /\ asked' = <<>>
        /\ UNCHANGED <<settings, place, overlays, staged>>

RefreshStarted ==
    /\ News /\ ~active
    /\ active' = TRUE /\ overview' = {}
    /\ UNCHANGED <<snapshot, failed, ended, feed>>
    /\ Reconcile(Cursor)

OverviewReady ==
    /\ News /\ active /\ overview = {}
    /\ \E fw \in settings.firewalls : overview' = {fw}
    /\ UNCHANGED <<snapshot, active, failed, ended, feed>>
    /\ Reconcile(Cursor)

(* A refresh that failed leaves the old snapshot, and says so. *)
RefreshCompleted ==
    /\ News /\ active
    /\ active' = FALSE /\ overview' = {}
    /\ \/ \E fw \in settings.firewalls : snapshot' = {fw} /\ failed' = FALSE
       \/ failed' = TRUE /\ UNCHANGED snapshot
    /\ UNCHANGED <<ended, feed>>
    /\ Reconcile(Cursor)

RefreshCancelled ==
    /\ News /\ active
    /\ active' = FALSE /\ overview' = {}
    /\ UNCHANGED <<snapshot, failed, ended, feed>>
    /\ Reconcile(Cursor)

LogsReceived ==
    /\ News /\ received < MaxLines
    /\ \E flow \in settings.flows :
          LET line == [number |-> received, flow |-> flow]
          IN  logs' = Append(IF Len(logs) < LogCapacity THEN logs ELSE Tail(logs), line)
    /\ received' = received + 1
    /\ UNCHANGED engine
    /\ IF view = "Logs" THEN Reconcile(Cursor) ELSE UNCHANGED <<selected, marked>>

(* The rows fall back to the snapshot, but neither the cursor nor the marks are
   looked at. *)
EngineStopped ==
    /\ News
    /\ ended' = TRUE /\ failed' = TRUE /\ active' = FALSE /\ overview' = {}
    /\ UNCHANGED <<snapshot, feed, selected, marked>>

(* Lists and reports that were asked for come back whenever they are read. *)
ReportLoaded ==
    /\ asked' = <<>> /\ Len(overlays) < settings.depth
    /\ overlays' = Append(overlays, [kind |-> "Details"])
    /\ UNCHANGED <<settings, engine, feed, table, staged>>

-----------------------------------------------------------------------------
(* Operations are put forward *)

(* Faulty variant of Blocked: it does not matter that the data are old. *)
BlockedEvenIfStale == settings.readOnly \/ snapshot = {}

(* blocked_read_only, blocked_stale, and nothing to check against *)
Blocked == settings.readOnly \/ failed \/ snapshot = {}

Facts ==
    [fw \in DOMAIN Firewall |->
        [Firewall[fw] EXCEPT !.direct = {<<"rich_rule", v>> : v \in ToSet(@)}]]
Current == Facts[Only(snapshot)]

(* A zone that waits for a reload is changed permanently or not at all. *)
Aimed(op, s) ==
    IF /\ op.object \in DOMAIN s.permanent \ DOMAIN s.runtime /\ Type(op.object) = "zone"
       /\ op.kind \in {"Edit", "Temporary", "SetTarget", "DefaultZone"}
       /\ Complete({"Zones"}, Runtime, s) /\ op.target # Permanent
    THEN IF op.kind = "Edit" /\ op.target = Both THEN {[op EXCEPT !.target = Permanent]} ELSE {}
    ELSE {op}

Reviewable(op, s) == {n \in {NarrowedFor(a, s) : a \in Aimed(op, s)} : Valid(n, s)}

Question(ops, plan) == [kind |-> "Confirm", ops |-> ops, plan |-> plan]

(* With confirmations off the operations go straight to the engine. *)
PutForward(ops, plan, rest) ==
    /\ asked' = ops
    /\ overlays' = IF settings.confirm THEN Append(rest, Question(ops, plan)) ELSE rest

Drop(rest) == asked' = <<>> /\ overlays' = rest

(* request_operation *)
RequestOperation(op, rest) ==
    LET fit == IF Blocked THEN {} ELSE Reviewable(op, Current)
    IN  /\ IF fit = {} THEN Drop(rest) ELSE PutForward(<<Only(fit)>>, FALSE, rest)
        /\ UNCHANGED <<settings, engine, feed, table, staged>>

(* OperationError::NothingToDo, where another refusal is Invalid. *)
Satisfied(op, s) ==
    /\ Known(op, s) /\ ~Valid(op, s)
    /\ CASE op.kind \in {"Edit", "Temporary", "SetTarget", "Join"} ->
              \A scope \in op.target : Exists(op, s, scope)
         [] op.kind = "Delete" -> Type(op.object) \in {"ipset", "policy"}
         [] op.kind = "DefaultZone" -> op.object \in DOMAIN s.runtime \cup DOMAIN s.permanent
         [] OTHER -> op.kind \in {"Panic", "LogDenied", "RuntimeToPermanent"}

(* apply_staged_plan, of a staging area that may just have grown: one invalid
   operation keeps all of it there. *)
ApplyPlan(todo, rest) ==
    LET plan == [i \in DOMAIN todo |-> NarrowedFor(todo[i], Current)]
        ops == Kept(plan, {op \in ToSet(plan) : Valid(op, Current)})
    IN  IF Blocked \/ todo = <<>> THEN Drop(rest) /\ staged' = todo
        ELSE IF \E i \in DOMAIN plan : ~Valid(plan[i], Current) /\ ~Satisfied(plan[i], Current)
             THEN Drop(rest) /\ staged' = todo
        ELSE IF ops = <<>> THEN Drop(rest) /\ staged' = <<>>
        ELSE PutForward(ops, TRUE, rest) /\ staged' = IF settings.confirm THEN todo ELSE <<>>

-----------------------------------------------------------------------------
(* What the person can do where no dialog is open, or through the palette: the
   dialogs that stay are in "rest". *)

Person == UNCHANGED <<settings, engine, feed>>
Quiet(rest) == Person /\ Drop(rest) /\ UNCHANGED staged

(* The cursor of another view is where it was left. *)
SwitchView(rest) ==
    /\ Quiet(rest)
    /\ view' \in settings.views /\ mode' = "Normal" /\ filter' = None
    /\ UNCHANGED <<zone, config>>
    /\ marked' = {}
    /\ IF view' = view THEN selected' = Placed(Visible', {}, selected)
       ELSE selected' \in {1} \cup DOMAIN Visible'

ToggleConfigView(rest) ==
    /\ Quiet(rest)
    /\ config' = IF config = Permanent THEN Runtime ELSE Permanent
    /\ UNCHANGED <<view, zone, mode, filter>>
    /\ Reconcile(Cursor)

ClearFilter(rest) ==
    /\ Quiet(rest) /\ filter # None
    /\ filter' = None
    /\ UNCHANGED <<view, zone, config, mode>>
    /\ Reconcile(Cursor)

Open(dialog, rest) ==
    /\ Person /\ asked' = <<>>
    /\ overlays' = Append(rest, dialog)
    /\ UNCHANGED <<table, staged>>

(* The lists, browsers and reports that are made of what is known at once. *)
Inspect(rest) == Open([kind |-> "Details"], rest)

Form(f) == [kind |-> "Form", form |-> f]

Toggle(flag, rest) ==
    \E z \in ZoneForAction : snapshot # {} /\
       LET fw == Current
           on == IF z \in DOMAIN fw.runtime THEN <<flag, "on">> \in fw.runtime[z]
                 ELSE z \in DOMAIN fw.permanent /\ <<flag, "on">> \in fw.permanent[z]
       IN  RequestOperation(Make("Edit", z, <<flag, "on">>, ~on, settings.target), rest)

SetDefaultZone(rest) ==
    \E z \in ZoneForAction : RequestOperation(Make("DefaultZone", z, <<>>, TRUE, Both), rest)

ReloadRequested(rest) == RequestOperation(Make("Reload", NoObject, <<>>, TRUE, Both), rest)

(* bulk_delete: what is marked and visible joins the staging area, and all of
   that is put forward. *)
BulkDelete(rest) ==
    LET removal(row) == Removal(row, settings.target)
        rows == Kept(Visible, {row \in ToSet(Visible) : row.id \in marked /\ removal(row) # {}})
        ops == [i \in DOMAIN rows |-> Only(removal(rows[i]))]
    IN  /\ Person
        /\ UNCHANGED <<place, selected>>
        /\ IF settings.readOnly \/ ops = <<>>
           THEN Drop(rest) /\ UNCHANGED <<staged, marked>>
           ELSE /\ Len(staged \o ops) <= settings.staged
                /\ marked' = {}
                /\ ApplyPlan(staged \o ops, rest)

DeleteEntry(rest) ==
    IF marked # {} THEN BulkDelete(rest)
    ELSE \E row \in Selected : \E op \in Deletion(row, settings.target) : RequestOperation(op, rest)

ApplyStagedPlan(rest) == Person /\ ApplyPlan(staged, rest) /\ UNCHANGED table

DiscardStagedPlan(rest) == Person /\ Drop(rest) /\ staged' = <<>> /\ UNCHANGED table

(* Switches of the whole firewall: to the other side of what the snapshot says. *)
Switches(fw) ==
    {Make("Panic", NoObject, <<>>, ~fw.panic, Runtime),
     Make("LogDenied", NoObject, IF fw.logDenied = "off" THEN "all" ELSE "off", TRUE, Both),
     Make("RuntimeToPermanent", NoObject, <<>>, TRUE, Permanent)}

(* The gate of the palette for what changes something: old data do not close it. *)
Mutable == ~settings.readOnly /\ snapshot # {}

Removable == DOMAIN EntryField \cup DOMAIN BindingField \cup {"Zones", "IpSets"}

(* Commands that the palette offers always, and those that it offers only where
   something could be changed. *)
Command(rest) ==
    \/ SwitchView(rest) \/ ToggleConfigView(rest) \/ ClearFilter(rest)
    \/ Inspect(rest) \/ Open([kind |-> "Search"], rest)
    \/ staged # <<>> /\ DiscardStagedPlan(rest)

Mutation(rest) ==
    \/ \E f \in settings.forms : Open(Form(f), rest)
    \/ \E flag \in {"masquerade", "forward", "icmp_block_inversion"} : Toggle(flag, rest)
    \/ SetDefaultZone(rest) \/ ReloadRequested(rest)
    \/ \E op \in Switches(Current) : op.kind \in settings.switches /\ RequestOperation(op, rest)
    \/ view \in Removable /\ Visible # <<>> /\ DeleteEntry(rest)
    \/ staged # <<>> /\ ApplyStagedPlan(rest)

-----------------------------------------------------------------------------
(* Keys of the table alone *)

MoveSelection ==
    /\ Quiet(overlays) /\ UNCHANGED <<place, marked>>
    /\ \E i \in DOMAIN Visible : selected' = i

EnterFilterMode ==
    /\ Quiet(overlays) /\ mode' = "Filter"
    /\ UNCHANGED <<view, zone, config, filter, selected, marked>>

ToggleMark ==
    /\ Quiet(overlays) /\ UNCHANGED <<place, selected>>
    /\ \E id \in Cursor : marked' = SymDiff(marked, {id})

(* Enter: the zone is chosen, and the details are shown if they are known. *)
ActivateRow ==
    /\ Person /\ asked' = <<>>
    /\ \E row \in Selected :
          LET known ==
                  \E fw \in snapshot :
                     CASE view = "Zones" ->
                            row.id.object \in DOMAIN Firewall[fw].runtime \cup DOMAIN Firewall[fw].permanent
                       [] view = "Logs" -> TRUE
                       [] OTHER ->
                            \E z \in (EffectiveZone \cup {row.id.object}) \cap Zones :
                               row.id \in Ids(RowsOf[fw][view][z][config])
          IN  /\ zone' = IF view = "Zones" THEN {row.id.object} ELSE zone
              /\ overlays' = IF known THEN Append(overlays, [kind |-> "Details"]) ELSE overlays
    /\ UNCHANGED <<view, config, mode, filter, selected, marked, staged>>

(* a: the form of the view.  In the logs, the rule that lets the flow in, in the
   zone of the interface that it came through. *)
ProposeFromLog ==
    \E row \in Selected : snapshot # {} /\
       LET fw == Current
           flow == row.id.value
           bound == {o \in DOMAIN fw.active : <<"interface", flow.interface>> \in fw.active[o]}
           target == IF bound # {} THEN Only(bound) ELSE fw.default
       IN  /\ flow.denied
           /\ RequestOperation(
                 Make("Edit", target, <<"rich_rule", flow.rule>>, TRUE, settings.target), overlays)

AddEntry ==
    CASE view \in DOMAIN EntryField -> Open(Form(EntryField[view]), overlays)
      [] view \in DOMAIN BindingField -> Open(Form(BindingField[view]), overlays)
      [] view = "Zones" -> Open(Form("zone"), overlays)
      [] view = "IpSets" -> Open(Form(IF Visible = <<>> THEN "ipset" ELSE "entry"), overlays)
      [] view = "Policies" -> Open(Form(IF Selected = {} THEN "policy" ELSE "policy_service"), overlays)
      [] view = "Direct" -> Selected # {} /\ Open(Form("migrate"), overlays)
      [] view = "Logs" -> ProposeFromLog

CloneEntry == \E row \in Selected : \E clone \in Cloned(row) : Open(Form(clone.form), overlays)

-----------------------------------------------------------------------------
(* Keys by the topmost dialog *)

Top(kind) == overlays # <<>> /\ Last(overlays).kind = kind
Rest == Front(overlays)

(* The keys of the table work in no dialog. *)
TableKey ==
    /\ overlays = <<>> /\ mode = "Normal"
    /\ \/ MoveSelection \/ EnterFilterMode \/ ToggleMark \/ ActivateRow \/ AddEntry \/ CloneEntry
       \/ SwitchView(overlays) \/ ToggleConfigView(overlays) \/ ClearFilter(overlays)
       \/ DeleteEntry(overlays) \/ Toggle("masquerade", overlays)
       \/ Inspect(overlays) \/ Open([kind |-> "Palette"], overlays)

(* The live filter: the cursor stays on its row, or goes to the first. *)
FilterKey ==
    /\ overlays = <<>> /\ mode = "Filter" /\ Quiet(overlays)
    /\ UNCHANGED <<view, zone, config>>
    /\ \/ /\ \E word \in settings.words \cup {None} : filter' = word
          /\ selected' = Placed(Visible', Cursor, 1)
          /\ UNCHANGED <<mode, marked>>
       \/ mode' = "Normal" /\ UNCHANGED <<filter, selected, marked>>
       \/ mode' = "Normal" /\ filter' = None /\ Reconcile(Cursor)

(* These act in any dialog and while a filter is typed. *)
ControlKey ==
    /\ Len(overlays) < settings.depth
    /\ ReloadRequested(overlays) \/ Open([kind |-> "Search"], overlays)

CloseOverlay ==
    /\ overlays # <<>> /\ Quiet(Rest) /\ UNCHANGED table

(* What the palette offers is worked out anew when it is used. *)
PaletteExecute ==
    /\ Top("Palette")
    /\ Command(Rest) \/ (Mutable /\ Mutation(Rest))

(* execute_global_search: to a row of any view. *)
SearchExecute ==
    /\ Top("Search") /\ Quiet(Rest)
    /\ \E v \in settings.views : \E i \in DOMAIN AllRows(v) :
          /\ view' = v /\ mode' = "Normal" /\ filter' = None
          /\ selected' = i /\ marked' = {}
          /\ UNCHANGED <<zone, config>>

(* What a form asks for: the zone and the row are those of this moment. *)
Submitted(form, rest) ==
    \/ /\ form \in Collection
       /\ \E z \in EffectiveZone, v \in Value :
             RequestOperation(Make("Edit", z, <<form, v>>, TRUE, settings.target), rest)
    \/ \E o \in Creatable :
          /\ form \in {"zone", "ipset", "policy"} /\ Type(o) = form
          /\ RequestOperation(Make("Create", o, <<>>, TRUE, Permanent), rest)
    \/ /\ form = "entry" /\ view = "IpSets"
       /\ \E row \in Selected, v \in Value, adding \in BOOLEAN :
             RequestOperation(Make("Edit", row.id.object, <<"entry", v>>, adding, settings.target), rest)
    \/ /\ form = "policy_service"
       /\ \E o \in Object, v \in Value :
             /\ Type(o) = "policy"
             /\ RequestOperation(Make("Edit", o, <<"service", v>>, TRUE, settings.target), rest)
    \/ /\ form = "migrate" /\ view = "Direct"
       /\ \E row \in Selected, o \in Creatable :
             /\ Type(o) = "policy"
             /\ RequestOperation(Make("Migrate", o, <<"rich_rule", row.id.value>>, TRUE, Permanent), rest)

FormSubmit ==
    Top("Form") /\ EffectiveZone # {} /\ Submitted(Last(overlays).form, Rest)

(* y: the reviewed operations go to the engine; the plan leaves the staging area. *)
ConfirmAccept ==
    /\ Top("Confirm") /\ Person /\ Drop(Rest)
    /\ staged' = IF Last(overlays).plan THEN <<>> ELSE staged
    /\ UNCHANGED table

(* s: a plan is only closed. *)
ConfirmStage ==
    /\ Top("Confirm") /\ Person /\ Drop(Rest)
    /\ IF Last(overlays).plan THEN UNCHANGED staged
       ELSE Len(staged) < settings.staged /\ staged' = staged \o Last(overlays).ops
    /\ UNCHANGED table

-----------------------------------------------------------------------------

Init ==
    /\ settings \in Scenario
    /\ snapshot = {} /\ overview = {} /\ active = FALSE /\ failed = FALSE /\ ended = FALSE
    /\ logs = <<>> /\ received = 0
    /\ view \in settings.views /\ zone = {} /\ config = Runtime
    /\ mode = "Normal" /\ filter = None /\ selected = 1 /\ marked = {}
    /\ overlays = <<>> /\ staged = <<>> /\ asked = <<>>

Next ==
    \/ RefreshStarted \/ OverviewReady \/ RefreshCompleted \/ RefreshCancelled
    \/ LogsReceived \/ EngineStopped \/ ReportLoaded
    \/ TableKey \/ FilterKey \/ ControlKey \/ CloseOverlay
    \/ PaletteExecute \/ SearchExecute \/ FormSubmit \/ ConfirmAccept \/ ConfirmStage

Spec == Init /\ [][Next]_vars
=============================================================================
