-------------------------- MODULE RefreshScheduler --------------------------
(***************************************************************************)
(* The single-flight refresh scheduler of                                  *)
(* src/application/refresh_scheduler.rs, as operators on a record.  A      *)
(* method that mutates `self` is an operator from the old scheduler to the *)
(* new one; a method that can refuse has a separate predicate that says    *)
(* when it does, and the caller branches on it as the code does.           *)
(***************************************************************************)
EXTENDS Naturals

CONSTANTS
    MaxId,      \* largest refresh id before `next_id` wraps (u64::MAX in the code)
    MaxCount    \* largest merged demand count (u64::MAX in the code)

ASSUME SchedulerAssumption ==
    /\ MaxId \in Nat \ {0}
    /\ MaxCount \in Nat \ {0}

-----------------------------------------------------------------------------

Trigger == {"Initial", "Periodic", "Manual", "PostMutation"}

IsPreemptible(trigger) == trigger # "PostMutation"

(* Option<u64> of `pending_manual_start`: one value above every count is None. *)
NoCount == MaxCount + 1

(* Option<ActiveRefresh>: id 0 is never minted, so it marks None. *)
NoRefresh == [id |-> 0, trigger |-> "None", merged |-> 0, ticks |-> 0]

ActiveRefresh ==
    [id : 1..MaxId, trigger : Trigger, merged : 0..MaxCount, ticks : 0..MaxCount]

Scheduler ==
    [nextId : 1..MaxId, active : ActiveRefresh \cup {NoRefresh},
     pendingStart : 0..NoCount, trailing : BOOLEAN]

NewScheduler ==
    [nextId |-> 1, active |-> NoRefresh, pendingStart |-> NoCount, trailing |-> FALSE]

-----------------------------------------------------------------------------

(* `start` refuses while a refresh is active. *)
CanStart(s) == s.active = NoRefresh

(* wrapping_add(1).max(1): the id after the largest one is 1, never 0. *)
IdAfter(id) == IF id = MaxId THEN 1 ELSE id + 1

(* A manual start takes over the demand counted while the engine was idle. *)
Start(s, trigger) ==
    LET takesDemand == trigger = "Manual"
    IN  [s EXCEPT
            !.nextId = IdAfter(s.nextId),
            !.active = [id      |-> s.nextId,
                        trigger |-> trigger,
                        merged  |-> IF takesDemand /\ s.pendingStart # NoCount
                                    THEN s.pendingStart ELSE 0,
                        ticks   |-> 0],
            !.pendingStart = IF takesDemand THEN NoCount ELSE @]

-----------------------------------------------------------------------------

(* The checked_add of a batch of n demands does not overflow. *)
BatchFits(s, n) ==
    IF s.active # NoRefresh
    THEN s.active.merged + n <= MaxCount
    ELSE s.pendingStart # NoCount => s.pendingStart + n <= MaxCount

(* What record_manual_batch answers for a batch that fits. *)
ManualDemand(s) ==
    IF s.active # NoRefresh
    THEN IF s.trailing THEN "Coalesced" ELSE "Trailing"
    ELSE IF s.pendingStart # NoCount THEN "Coalesced" ELSE "StartNow"

RecordManual(s, n) ==
    IF s.active # NoRefresh
    THEN [s EXCEPT !.active.merged = @ + n, !.trailing = TRUE]
    ELSE [s EXCEPT !.pendingStart = IF @ = NoCount THEN n - 1 ELSE @ + n]

(* Demand that the active refresh itself will satisfy: counted, no trailing. *)
AbsorbManual(s, n) ==
    IF s.active # NoRefresh THEN [s EXCEPT !.active.merged = @ + n] ELSE s

(* saturating_add on the ticks; an idle scheduler answers StartNow instead. *)
PeriodicDemand(s) == IF s.active # NoRefresh THEN "Coalesced" ELSE "StartNow"

RecordPeriodic(s) ==
    IF s.active # NoRefresh
    THEN [s EXCEPT !.active.ticks = IF @ = MaxCount THEN @ ELSE @ + 1]
    ELSE s

-----------------------------------------------------------------------------

CanCancelForMutation(s) ==
    s.active # NoRefresh /\ IsPreemptible(s.active.trigger)

CanCancelForRollback(s) == s.active # NoRefresh

CanFinish(s, id) == s.active # NoRefresh /\ s.active.id = id

(* Faulty variant of Retire: the retired refresh stays active. *)
RetireKeepsActive(s) == [s EXCEPT !.trailing = FALSE]

(* cancel_for_mutation drops the trailing flag, cancel_for_rollback and finish
   hand it to their caller; all three leave the scheduler idle. *)
Retire(s) == [s EXCEPT !.active = NoRefresh, !.trailing = FALSE]

=============================================================================
