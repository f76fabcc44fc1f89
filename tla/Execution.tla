----------------------------- MODULE Execution ------------------------------
(***************************************************************************)
(* The life of one operation: narrowed and validated on what was observed, *)
(* guarded by a watchdog outside of the process, carried out command by    *)
(* command, kept or reverted (src/application/engine.rs, execute_operation,*)
(* prepare_rollback and apply_rollback; src/infrastructure/rollback.rs;    *)
(* CliBackend::apply in src/infrastructure/firewalld/mod.rs).              *)
(*                                                                         *)
(* A tick is the timeout of a command.  The process may die at any moment; *)
(* systemd and firewalld go on.  The queues between the interface and the  *)
(* engine are those of RollbackSession and Engine.                         *)
(***************************************************************************)
EXTENDS Operations

CONSTANTS
    RollbackTicks,      \* rollback_timeout; 0 switches the guard off
    GraceTicks,         \* WATCHDOG_GRACE
    Situations          \* the firewalls that each operation may meet

(* firewalld binds an interface or a source to one zone. *)
OneBinding(configuration) ==
    \A z1, z2 \in DOMAIN configuration : \A e \in configuration[z1] \cap configuration[z2] :
        Type(z1) = "zone" /\ Type(z2) = "zone" /\ e[1] \in {"source", "interface"} => z1 = z2

IsFirewall(fw) ==
    /\ DOMAIN fw =
          {"runtime", "permanent", "default", "panic", "logDenied", "direct", "policySets"}
    /\ fw = [field \in DOMAIN fw |-> fw[field]]
    /\ \A scope \in Both :
          /\ DOMAIN fw[scope] \subseteq Object
          /\ fw[scope] = [object \in DOMAIN fw[scope] |-> fw[scope][object]]
          /\ OneBinding(fw[scope])
    /\ fw.panic \in BOOLEAN

ASSUME ExecutionAssumption ==
    /\ RollbackTicks \in Nat /\ GraceTicks \in Nat
    /\ DOMAIN Situations = Operation
    /\ \A o \in Operation : \A fw \in Situations[o] : IsFirewall(fw)

VARIABLES
    mode, hidden,       \* backend; sections that cannot be read
    firewall,
    op,                 \* the operation, as asked for and later as narrowed
    stage, todo,        \* where the engine is; commands it has still to run
    outcome, reverted,  \* of the operation and of its rollback
    unit, fuse,         \* the timer unit at systemd; ticks until it fires
    known,              \* the process knows the unit
    countdown, patience,\* ticks left to decide; ticks the command may take
    warned, kept,       \* the person was warned of the guard; kept the change
    original            \* history: the firewall before the operation

control == <<stage, todo, outcome, reverted>>
guard == <<unit, fuse, known>>
clock == <<countdown, patience>>
person == <<warned, kept>>
fixed == <<mode, hidden, original>>
vars == <<mode, hidden, firewall, op, control, guard, clock, person, original>>

-----------------------------------------------------------------------------
(* Dispatch *)

(* What is read: nothing of a hidden section, and offline no runtime. *)
SectionOf(object) ==
    CASE Type(object) = "zone" -> "Zones" [] Type(object) = "ipset" -> "IpSets"
      [] Type(object) = "policy" -> "Policies" [] OTHER -> "Services"

Incomplete ==
    hidden \cup (IF mode = "Offline" THEN {"Zones", "IpSets", "Policies"} \X Runtime ELSE {})

Seen(configuration, scope) ==
    [object \in {o \in DOMAIN configuration : <<SectionOf(o), scope>> \notin Incomplete} |->
        configuration[object]]

(* A firewall, and what is not known of it. *)
Snapshot(fw, unknown) ==
    [field \in DOMAIN fw \cup {"incomplete"} |->
        IF field = "incomplete" THEN unknown ELSE fw[field]]

Observed ==
    Snapshot([firewall EXCEPT
                 !.runtime = Seen(IF mode = "Offline" THEN firewall.permanent ELSE @, "runtime"),
                 !.permanent = Seen(@, "permanent"),
                 !.direct = IF <<"DirectRules", "runtime">> \in Incomplete THEN {} ELSE @],
             Incomplete)

NeedsGuard == RollbackTicks > 0 /\ Risky(op) /\ TargetInverse(op) # {}

Dispatch ==
    LET narrowed == NarrowedFor(op, Observed)
    IN  /\ stage = "Asked"
        /\ Valid(narrowed, Observed)
        /\ op' = narrowed
        /\ stage' = "Accepted"
        /\ UNCHANGED <<fixed, firewall, todo, outcome, reverted, guard, clock, person>>

(* Nothing is asked of firewalld, and nothing is guarded. *)
Reject ==
    /\ stage = "Asked"
    /\ ~Valid(NarrowedFor(op, Observed), Observed)
    /\ stage' = "Rejected"
    /\ UNCHANGED <<fixed, firewall, op, todo, outcome, reverted, guard, clock, person>>

-----------------------------------------------------------------------------
(* Arming *)

Begin(next) ==
    /\ stage' = next
    /\ patience' = 1

(* Commands of the operation, or of its inverse. *)
Commands(operation) ==
    /\ todo' = PlanIn(mode, operation)
    /\ Begin(IF operation = op THEN "Applying" ELSE "Reverting")

Unguarded ==
    /\ stage = "Accepted" /\ ~NeedsGuard
    /\ Commands(op)
    /\ UNCHANGED <<fixed, firewall, op, outcome, reverted, guard, countdown, person>>

(* No systemd, or not root: countdown in the process only. *)
WatchdogUnavailable ==
    /\ stage = "Accepted" /\ NeedsGuard
    /\ warned' = TRUE
    /\ Commands(op)
    /\ UNCHANGED <<fixed, firewall, op, outcome, reverted, guard, countdown, kept>>

RunSystemd ==
    /\ stage = "Accepted" /\ NeedsGuard
    /\ Begin("Arming")
    /\ UNCHANGED <<fixed, firewall, op, todo, outcome, reverted, guard, countdown, person>>

(* Faulty variant of Delay: the watchdog waits as long as the countdown. *)
DelayUngraced == RollbackTicks

Delay == RollbackTicks + GraceTicks

UnitStarts ==
    /\ stage = "Arming" /\ unit = "None"
    /\ unit' = "Armed" /\ fuse' = Delay
    /\ UNCHANGED <<fixed, firewall, op, control, known, clock, person>>

(* systemd-run succeeds, or it fails or times out, and the unit it may have
   started is not known. *)
ArmAnswers ==
    /\ stage = "Arming"
    /\ \/ unit = "Armed" /\ known' = TRUE /\ UNCHANGED warned
       \/ known' = FALSE /\ warned' = TRUE
    /\ Commands(op)
    /\ UNCHANGED <<fixed, firewall, op, outcome, reverted, unit, fuse, countdown, kept>>

-----------------------------------------------------------------------------
(* Commands *)

Running == stage \in {"Applying", "Reverting"} /\ todo # <<>>
Untouched == Len(todo) = Len(PlanIn(mode, IF stage = "Applying" THEN op ELSE CHOOSE i \in TargetInverse(op) : TRUE))

(* What follows when the commands came to an end. *)
Concluded(result) ==
    IF stage = "Reverting"
    THEN /\ reverted' = result
         /\ IF result = "Applied" /\ known
            THEN Begin("Disarming") /\ UNCHANGED warned
            ELSE /\ stage' = "Done"
                 /\ warned' = (warned \/ known)
                 /\ UNCHANGED patience
         /\ UNCHANGED <<outcome, countdown>>
    ELSE /\ outcome' = result
         /\ IF NeedsGuard /\ result # "Failed"
            THEN stage' = "Countdown" /\ countdown' = RollbackTicks /\ UNCHANGED patience
            ELSE /\ IF known THEN Begin("Disarming") ELSE stage' = "Done" /\ UNCHANGED patience
                 /\ UNCHANGED countdown
         /\ UNCHANGED <<reverted, warned>>

CommandSucceeds ==
    /\ Running /\ ~Refused(Head(todo), firewall)
    /\ firewall' = Carried(Head(todo), firewall)
    /\ todo' = Tail(todo)
    /\ IF Len(todo) > 1
       THEN patience' = 1 /\ UNCHANGED <<stage, outcome, reverted, countdown, warned>>
       ELSE Concluded("Applied")
    /\ UNCHANGED <<fixed, op, guard, kept>>

(* Faulty variant of CommandFails: a change that was begun counts as none. *)
CommandFailsClean ==
    /\ Running
    /\ todo' = <<>>
    /\ Concluded("Failed")
    /\ UNCHANGED <<fixed, firewall, op, guard, kept>>

CommandFails ==
    /\ Running
    /\ todo' = <<>>
    /\ Concluded(IF Untouched THEN "Failed" ELSE "PartiallyApplied")
    /\ UNCHANGED <<fixed, firewall, op, guard, kept>>

(* The client is killed; firewalld works off its requests in their order, so that
   what it was asked has happened before the next command, or never happens. *)
CommandTimesOut ==
    /\ Running
    /\ firewall' \in {firewall} \cup
          (IF Refused(Head(todo), firewall) THEN {} ELSE {Carried(Head(todo), firewall)})
    /\ todo' = <<>>
    /\ Concluded("Indeterminate")
    /\ UNCHANGED <<fixed, op, guard, kept>>

(* An operation without an offline equivalent. *)
NothingToRun ==
    /\ stage \in {"Applying", "Reverting"} /\ todo = <<>>
    /\ Concluded("Failed")
    /\ UNCHANGED <<fixed, firewall, op, todo, guard, kept>>

-----------------------------------------------------------------------------
(* Keep or revert *)

Keep ==
    /\ stage = "Countdown" /\ countdown > 0
    /\ kept' = TRUE
    /\ IF known THEN Begin("Disarming") ELSE stage' = "Done" /\ UNCHANGED patience
    /\ UNCHANGED <<fixed, firewall, op, todo, outcome, reverted, guard, countdown, warned>>

(* The countdown runs out, or the person does not want to wait.  The inverse waits
   for the engine. *)
FireRollback ==
    /\ stage = "Countdown"
    /\ stage' = "Waiting"
    /\ UNCHANGED <<fixed, firewall, op, todo, outcome, reverted, guard, clock, person>>

ApplyRollback ==
    /\ stage = "Waiting"
    /\ \E inverse \in TargetInverse(op) : Commands(inverse)
    /\ UNCHANGED <<fixed, firewall, op, outcome, reverted, guard, countdown, person>>

(* systemctl stop: done, or refused, or timed out with either effect. *)
Disarm ==
    /\ stage = "Disarming"
    /\ \/ unit = "Armed" /\ unit' = "Stopped" /\ UNCHANGED warned
       \/ unit' \in (IF unit = "Armed" THEN {"Armed", "Stopped"} ELSE {unit}) /\ warned' = TRUE
    /\ stage' = "Done"
    /\ UNCHANGED <<fixed, firewall, op, todo, outcome, reverted, fuse, known, clock, kept>>

-----------------------------------------------------------------------------
(* Time, death and the watchdog *)

Crash ==
    /\ stage \notin {"Asked", "Rejected", "Done", "Crashed"}
    /\ stage' = "Crashed"
    /\ UNCHANGED <<fixed, firewall, op, todo, outcome, reverted, guard, clock, person>>

Down(n) == IF n > 0 THEN n - 1 ELSE 0

(* A command has its timeout, the countdown its end, and a timer its moment. *)
Tick ==
    /\ stage \in {"Arming", "Applying", "Reverting", "Disarming"} => patience > 0
    /\ stage = "Countdown" => countdown > 0
    /\ stage \notin {"Asked", "Accepted"}
    /\ unit = "Armed" /\ fuse > 0
    /\ fuse' = fuse - 1
    /\ countdown' = IF stage = "Countdown" THEN countdown - 1 ELSE countdown
    /\ patience' = Down(patience)
    /\ UNCHANGED <<fixed, firewall, op, control, unit, known, person>>

(* Time of the countdown alone. *)
TickUnwatched ==
    /\ stage = "Countdown" /\ countdown > 0 /\ unit # "Armed"
    /\ countdown' = countdown - 1
    /\ UNCHANGED <<fixed, firewall, op, control, guard, patience, person>>

(* The first command of the inverse in the runtime. *)
WatchdogCommand == Head(Plan(CHOOSE inverse \in InverseRuntime(op) : TRUE))

(* Without a daemon the watchdog's firewall-cmd fails. *)
WatchdogFires ==
    /\ unit = "Armed" /\ fuse = 0
    /\ unit' = "Fired"
    /\ firewall' = IF mode = "Offline" \/ Refused(WatchdogCommand, firewall) THEN firewall
                   ELSE Carried(WatchdogCommand, firewall)
    /\ UNCHANGED <<fixed, op, control, fuse, known, clock, person>>

-----------------------------------------------------------------------------

Sections ==
    {{<<section, scope>>} : section \in {"Zones", "IpSets", "Policies"}, scope \in Both}
    \cup {{"Services"} \X Both, {"DirectRules"} \X Runtime}

Init ==
    /\ mode \in {"Live", "Offline"} /\ hidden \in Sections \cup {{}}
    /\ op \in Operation
    /\ firewall \in Situations[op] /\ original = firewall
    /\ mode = "Offline" => firewall.runtime = firewall.permanent
    /\ stage = "Asked" /\ todo = <<>> /\ outcome = "None" /\ reverted = "None"
    /\ unit = "None" /\ fuse = 0 /\ known = FALSE
    /\ countdown = 0 /\ patience = 0
    /\ warned = FALSE /\ kept = FALSE

Next ==
    \/ Dispatch \/ Reject
    \/ Unguarded \/ WatchdogUnavailable \/ RunSystemd \/ UnitStarts \/ ArmAnswers
    \/ CommandSucceeds \/ CommandFails \/ CommandTimesOut \/ NothingToRun
    \/ Keep \/ FireRollback \/ ApplyRollback \/ Disarm
    \/ Crash \/ Tick \/ TickUnwatched \/ WatchdogFires

Spec == Init /\ [][Next]_vars

=============================================================================
