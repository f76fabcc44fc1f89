------------------------ MODULE ExecutionProperties -------------------------
(* What must hold of one operation and of its guard. *)
EXTENDS Execution

Whole == Snapshot(firewall, {})

Mixed(fw, scope) ==
    SetMatches(TRUE, fw, scope) = {FALSE} /\ SetMatches(FALSE, fw, scope) = {FALSE}

(* The inverse of an operation on a policy set switches all members alike. *)
Uniform == op.kind = "PolicySet" => \A scope \in op.target : ~Mixed(original, scope)

(* Sections that could not be read do not let an operation through: what is
   accepted on a snapshot with gaps would be accepted knowing everything.  Two
   operations look at more than they require: saving the runtime configuration
   and creating a zone. *)
JudgedOnKnown ==
    stage = "Accepted" /\ op.kind # "RuntimeToPermanent"
    /\ ~(op.kind = "Create" /\ op.object \in Zones) => Valid(op, Whole)

(* The reported outcome is what happened to the firewall, whichever command
   failed, timed out or was the last one: a failed operation changed nothing, an
   applied one is visible, a partial one changed something. *)
OutcomeIsTrue ==
    unit # "Fired" /\ stage \in {"Countdown", "Done"} /\ reverted = "None" =>
        /\ outcome = "Failed" => firewall = original
        /\ outcome = "Applied" => Postcondition(op, Whole) # "fails"
        /\ outcome = "PartiallyApplied" => firewall # original

(* A rollback that was applied leaves the firewall as it was before the operation,
   in every scope and whatever the operation's own outcome was; and the watchdog,
   for an operation on the runtime, leaves the runtime as it was. *)
RevertRestores ==
    Uniform /\ ("runtime" \in op.target \/ unit # "Fired") =>
        /\ reverted = "Applied" => firewall = original
        /\ unit = "Fired" /\ stage \in {"Crashed", "Done"} =>
              firewall.runtime = original.runtime /\ firewall.panic = original.panic

(* Without a warning the watchdog acts only for a process that is gone or while
   the process reverts the change itself: not while the change is being made or
   while somebody still may decide, and not behind the back of who kept it. *)
NoUnexpectedRevert ==
    [][unit' = "Fired" /\ unit # "Fired" =>
         \/ warned \/ stage \in {"Crashed", "Waiting", "Reverting", "Disarming"}
         \/ stage = "Countdown" /\ countdown = 0]_vars

(* What was asked for and may have become this operation: a playbook is written from
   the reviewed operations, before they are narrowed. *)
AsAsked ==
    {asked \in {op, [op EXCEPT !.target = Both]} :
        NarrowedFor(asked, Snapshot(original, Incomplete)) = op}

(* The task exported for an operation makes of the same firewall what carrying out
   the operation's commands, narrowed or not, made of it; only a task on a scope that
   does not know the zone and that the operation was narrowed away from is refused. *)
ExportAgrees ==
    mode = "Live" /\ stage \in {"Countdown", "Done"}
    /\ outcome = "Applied" /\ reverted = "None" /\ unit # "Fired" =>
        \A asked \in AsAsked : \A task \in ModuleTask(asked) :
            IF asked.kind = "Edit" /\ \E scope \in asked.target \ op.target : ~Exists(asked, original, scope)
            THEN ModuleRefuses(task, original)
            ELSE ~ModuleRefuses(task, original) /\ Performed(task, original) = firewall

(* "the revert survives a crash": the watchdog leaves the runtime as it was. *)
WatchdogRestoresRuntime ==
    unit = "Fired" /\ stage = "Crashed" /\ Uniform => firewall.runtime = original.runtime

=============================================================================
