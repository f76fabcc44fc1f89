----------------------- MODULE LocalStateProperties -------------------------
(* What may never happen to the files that FWDeck keeps for its user. *)
EXTENDS LocalState

(***************************************************************************)
(* Whatever other processes save, pin and prune meanwhile, a snapshot is   *)
(* removed only while min_keep newer ones remain, and a pinned one only by *)
(* a read-only session, which prunes after a save without the lock that    *)
(* pinning takes (retention.rs, plan_files and apply_plan).                *)
(***************************************************************************)
Spared(s) ==
    /\ Cardinality(Newer(snapshots, s)) >= MinKeep
    /\ s \in pins => \E p \in Process : step[p] = "Removing" /\ mine[p] = s /\ holder # p

RemovesOnlySurplus == [][\A s \in snapshots \ snapshots' : Spared(s)]_vars

(***************************************************************************)
(* Rotation, retention and crashes forget audit lines from the oldest on:  *)
(* what is on disk has no gap and ends with the last line written          *)
(* (audit.rs, record; state_file.rs, move_atomic_unique).                  *)
(***************************************************************************)
OnDisk ==
    UNION {contents[f] : f \in {archives[a] : a \in DOMAIN archives} \cup ({active} \ {NoFile})}

AuditHasNoGap ==
    /\ records > 0 => records \in OnDisk
    /\ \A line \in OnDisk : line..records \subseteq OnDisk
=============================================================================
