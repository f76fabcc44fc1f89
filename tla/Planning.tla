------------------------------ MODULE Planning -------------------------------
(***************************************************************************)
(* The functions that answer from a snapshot, each asked one question at a *)
(* time: restore a saved snapshot or repair drift, and then carry the plan *)
(* out, operation by operation (Restore); translate a direct rule          *)
(* (DirectMigration); explain a packet (Explain); show the differences     *)
(* between the scopes, and what depends on what (Details); and, of either  *)
(* backend, read the firewall or carry out an operation on it (Backends).  *)
(***************************************************************************)
EXTENDS Restore, DirectMigration, Explain, Details, Backends

CONSTANTS
    Restorations,       \* sets of [task, firewall, wanted]: restore, or repair drift
    Migrations,         \* sets of direct rules
    Explanations,       \* sets of [snapshot, ip, query]
    Comparisons,        \* sets of snapshots whose scopes are compared
    Listings,           \* sets of [backend, firewall, condition, failing]
    Dispatches          \* sets of [firewall, op]: over D-Bus

VARIABLES
    question,           \* one of the above, under "asks"
    answer,             \* of a migration or an explanation
    firewall, todo,     \* of a restoration: the operations not yet done
    progress            \* "asked", "staged", "applying", "answered", "rejected" or "halted"

vars == <<question, answer, firewall, todo, progress>>

Asks(what) == question.asks = what /\ progress = "asked"

(* snapshot_loaded and stage_drift_sync: the plan is staged and reviewed. *)
Stage ==
    /\ Asks("restore")
    /\ todo' = IF question.of.task = "drift" THEN DriftRepairs(firewall)
               ELSE RestorePlan(firewall, question.of.wanted)
    /\ progress' = "staged"
    /\ UNCHANGED <<question, answer, firewall>>

(* The whole plan is validated before its first operation is executed. *)
Begin ==
    /\ progress = "staged"
    /\ progress' = IF \A i \in DOMAIN todo : Valid(todo[i], firewall) THEN "applying" ELSE "rejected"
    /\ UNCHANGED <<question, answer, firewall, todo>>

(* Each is one command. *)
Command == Head(Plan(Head(todo)))

ApplyNext ==
    /\ progress = "applying" /\ todo # <<>> /\ ~Refused(Command, firewall)
    /\ firewall' = Carried(Command, firewall)
    /\ todo' = Tail(todo)
    /\ UNCHANGED <<question, answer, progress>>

Halt ==
    /\ progress = "applying" /\ todo # <<>> /\ Refused(Command, firewall)
    /\ progress' = "halted"
    /\ UNCHANGED <<question, answer, firewall, todo>>

Finish ==
    /\ progress = "applying" /\ todo = <<>>
    /\ progress' = "answered"
    /\ UNCHANGED <<question, answer, firewall, todo>>

AnswerMigration ==
    /\ Asks("migrate")
    /\ answer' = Translate(question.of)
    /\ progress' = "answered"
    /\ UNCHANGED <<question, firewall, todo>>

AnswerExplanation ==
    /\ Asks("explain")
    /\ answer' = Explanation(question.of.snapshot, question.of.ip, question.of.query)
    /\ progress' = "answered"
    /\ UNCHANGED <<question, firewall, todo>>

AnswerComparison ==
    /\ Asks("compare")
    /\ answer' = [workspace |-> DriftWorkspace(question.of),
                  overview |-> [zone \in InBoth(question.of) |-> ForZone(zone, question.of)],
                  graph |-> PolicyGraph(question.of)]
    /\ progress' = "answered"
    /\ UNCHANGED <<question, firewall, todo>>

AnswerListing ==
    /\ Asks("list")
    /\ answer' = IF question.of.backend = "CLI" THEN CliSnapshot(firewall, question.of.condition)
                 ELSE DbusSnapshot(firewall, question.of.condition, question.of.failing)
    /\ progress' = "answered"
    /\ UNCHANGED <<question, firewall, todo>>

Dispatch ==
    /\ Asks("dispatch")
    /\ firewall' = AllCarried(DbusCalls(question.of.op), firewall)
    /\ answer' = DbusCalls(question.of.op)
    /\ progress' = "answered"
    /\ UNCHANGED <<question, todo>>

Init ==
    /\ \/ \E batch \in Restorations : \E r \in batch :
            question = [asks |-> "restore", of |-> r] /\ firewall = r.firewall
       \/ \E batch \in Migrations : \E m \in batch :
            question = [asks |-> "migrate", of |-> m] /\ firewall = <<>>
       \/ \E batch \in Explanations : \E e \in batch :
            question = [asks |-> "explain", of |-> e] /\ firewall = <<>>
       \/ \E batch \in Comparisons : \E s \in batch :
            question = [asks |-> "compare", of |-> s] /\ firewall = <<>>
       \/ \E batch \in Listings : \E l \in batch :
            question = [asks |-> "list", of |-> l] /\ firewall = l.firewall
       \/ \E batch \in Dispatches : \E d \in batch :
            question = [asks |-> "dispatch", of |-> d] /\ firewall = d.firewall
    /\ answer = <<>> /\ todo = <<>> /\ progress = "asked"

Next ==
    \/ Stage \/ Begin \/ ApplyNext \/ Halt \/ Finish
    \/ AnswerMigration \/ AnswerExplanation
    \/ AnswerComparison \/ AnswerListing \/ Dispatch

Spec == Init /\ [][Next]_vars
=============================================================================
