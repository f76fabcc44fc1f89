--------------------------- MODULE RollbackSwitch ---------------------------
(***************************************************************************)
(* The promise of the in-process dead man's switch, one registration at a  *)
(* time: a risky change that reached the firewall is armed; then either a  *)
(* person keeps it, or it is fired and its inverse runs, once.  Nothing    *)
(* is forgotten while the session is open.                                 *)
(***************************************************************************)
CONSTANT Registration

VARIABLES
    status,     \* what became of each registration
    open        \* the session has not ended

vars == <<status, open>>

Init ==
    /\ status = [r \in Registration |-> "none"]
    /\ open = TRUE

Move(R, from, to) ==
    /\ R # {} /\ \A r \in R : status[r] = from
    /\ status' = [r \in Registration |-> IF r \in R THEN to ELSE status[r]]
    /\ UNCHANGED open

Arm(r) == open /\ Move({r}, "none", "armed")

(* One key keeps every change on countdown; several may fire together. *)
Keep(R) == open /\ Move(R, "armed", "kept")
Fire(R) == open /\ Move(R, "armed", "fired")

Revert(r) == Move({r}, "fired", "reverted")

Close ==
    /\ open
    /\ open' = FALSE
    /\ UNCHANGED status

Next ==
    \/ \E r \in Registration : Arm(r) \/ Revert(r)
    \/ \E R \in SUBSET Registration : Keep(R) \/ Fire(R)
    \/ Close

Spec == Init /\ [][Next]_vars

=============================================================================
