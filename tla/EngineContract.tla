--------------------------- MODULE EngineContract ---------------------------
(***************************************************************************)
(* What the engine task promises about the firewall, whatever its lanes,   *)
(* timers and events do: one thing happens at a time, every mutation is    *)
(* followed by a complete authoritative read before the next requested     *)
(* mutation, and only a rollback may come between the two.                 *)
(*                                                                         *)
(* `activity` is what the engine is doing to the backend; `unreconciled`   *)
(* says that the firewall was touched since the last complete read.        *)
(***************************************************************************)
VARIABLES activity, unreconciled

vars == <<activity, unreconciled>>

Reads == {"Initial", "Periodic", "Manual", "PostMutation"}
Mutations == {"Normal", "Rollback"}

Init ==
    /\ activity = "None"
    /\ unreconciled = FALSE

(* A requested mutation needs a reconciled view, a rollback does not. *)
BeginMutation(kind) ==
    /\ activity = "None"
    /\ kind = "Normal" => ~unreconciled
    /\ activity' = kind
    /\ unreconciled' = TRUE

EndMutation ==
    /\ activity \in Mutations
    /\ activity' = "None"
    /\ UNCHANGED unreconciled

(* The read that follows a mutation is the mandatory one, and no other is. *)
BeginRead(trigger) ==
    /\ activity = "None"
    /\ unreconciled <=> trigger = "PostMutation"
    /\ activity' = trigger
    /\ UNCHANGED unreconciled

CompleteRead ==
    /\ activity \in Reads
    /\ activity' = "None"
    /\ unreconciled' = FALSE

CancelRead ==
    /\ activity \in Reads
    /\ activity' = "None"
    /\ UNCHANGED unreconciled

Halt ==
    /\ activity # "Halted"
    /\ activity' = "Halted"
    /\ UNCHANGED unreconciled

Next ==
    \/ \E kind \in Mutations : BeginMutation(kind)
    \/ EndMutation
    \/ \E trigger \in Reads : BeginRead(trigger)
    \/ CompleteRead
    \/ CancelRead
    \/ Halt

Spec == Init /\ [][Next]_vars

=============================================================================
