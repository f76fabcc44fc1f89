----------------------------- MODULE LocalState -----------------------------
(***************************************************************************)
(* The private files that FWDeck processes of one user share: the instance *)
(* lock (src/main.rs, src/bootstrap.rs), the saved snapshots and their     *)
(* pins (snapshot_store.rs), the audit log and its archives (audit.rs) and *)
(* the retention that prunes both (retention.rs, state_file.rs).           *)
(*                                                                         *)
(* Snapshots and archives are numbered in the order of their modification  *)
(* times, audit lines in the order they are written.  A process may end at *)
(* any step: the system then frees its lock and leaves its files.  Files   *)
(* are never out of order by a clock set back, and no removal fails.       *)
(***************************************************************************)
EXTENDS Integers, FiniteSets, Sequences, Functions

CONSTANTS
    Process, NoProcess,
    MinKeep, MaxCount,          \* retention.snapshots
    MaxFiles, LinesPerFile,     \* retention.audit, the size as lines
    MaxSaves, MaxRecords, MaxArchives       \* bounds of the instance

ASSUME LocalStateAssumption ==
    /\ NoProcess \notin Process
    /\ MinKeep \in Nat /\ MaxCount \in Nat \ {0} /\ MinKeep <= MaxCount
    /\ MaxFiles \in Nat \ {0, 1} /\ LinesPerFile \in Nat \ {0}
    /\ MaxSaves \in Nat /\ MaxRecords \in Nat /\ MaxArchives \in Nat

VARIABLES
    holder,             \* of the instance lock
    snapshots, pins,    \* published files, and those with a pin marker
    saves, expired,     \* snapshots written; the newest one over max_age
    active, archives,   \* file behind each name of the audit log
    contents, records,  \* lines of each audit file; lines written
    linked,             \* archive names given out
    step, command,      \* of each process; it is a command, not a session
    scope, listed,      \* of its retention run: what is to plan, names read
    doomed, spare,      \* snapshots and archives it has still to remove
    mine, file          \* its snapshot; its open audit file

snapshotFiles == <<snapshots, pins, saves, expired>>
auditFiles == <<active, archives, contents, records, linked>>
pruning == <<scope, listed, doomed, spare>>
vars == <<holder, snapshotFiles, auditFiles, step, command, pruning, mine, file>>

NoFile == 0

To(p, next) == step' = [step EXCEPT ![p] = next]

Freed(p) == IF holder = p THEN NoProcess ELSE holder

-----------------------------------------------------------------------------
(* Processes *)

StartPruning(p, what) ==
    /\ To(p, "Listing")
    /\ scope' = [scope EXCEPT ![p] = what]

Snapshots == {"Snapshots"}
Audit == {"Audit"}
All == Snapshots \cup Audit

(* A session that gets the lock enforces retention before it opens. *)
StartSession(p) ==
    /\ step[p] = "Off" /\ holder = NoProcess
    /\ holder' = p
    /\ command' = [command EXCEPT ![p] = FALSE]
    /\ StartPruning(p, All)
    /\ UNCHANGED <<snapshotFiles, auditFiles, listed, doomed, spare, mine, file>>

(* Without the lock, or when it was configured so, a session is read-only. *)
StartReadOnly(p) ==
    /\ step[p] = "Off"
    /\ command' = [command EXCEPT ![p] = FALSE]
    /\ To(p, "Idle")
    /\ UNCHANGED <<holder, snapshotFiles, auditFiles, pruning, mine, file>>

MayMutate(p) == step[p] = "Off" /\ holder = NoProcess

StartCommand(p) ==
    /\ MayMutate(p)
    /\ holder' = p
    /\ command' = [command EXCEPT ![p] = TRUE]

RunPrune(p) ==
    /\ StartCommand(p)
    /\ StartPruning(p, All)
    /\ UNCHANGED <<snapshotFiles, auditFiles, listed, doomed, spare, mine, file>>

RunSnapshotCommand(p, snapshot, next) ==
    /\ StartCommand(p)
    /\ snapshot \in snapshots
    /\ mine' = [mine EXCEPT ![p] = snapshot]
    /\ To(p, next)
    /\ UNCHANGED <<snapshotFiles, auditFiles, pruning, file>>

(* Quit, the end of a command, or a crash. *)
End(p) ==
    /\ step[p] # "Off"
    /\ To(p, "Off")
    /\ holder' = Freed(p)
    /\ scope' = [scope EXCEPT ![p] = {}]
    /\ listed' = [listed EXCEPT ![p] = {}]
    /\ doomed' = [doomed EXCEPT ![p] = {}]
    /\ spare' = [spare EXCEPT ![p] = {}]
    /\ mine' = [mine EXCEPT ![p] = 0]
    /\ file' = [file EXCEPT ![p] = NoFile]
    /\ UNCHANGED <<snapshotFiles, auditFiles, command>>

-----------------------------------------------------------------------------
(* Snapshots *)

(* The complete file is written under a name that nobody reads. *)
WriteTemp(p) ==
    /\ step[p] = "Idle" /\ saves < MaxSaves
    /\ saves' = saves + 1
    /\ mine' = [mine EXCEPT ![p] = saves + 1]
    /\ To(p, "Publishing")
    /\ UNCHANGED <<holder, snapshots, pins, expired, auditFiles, command, pruning, file>>

Publish(p) ==
    /\ step[p] = "Publishing"
    /\ snapshots' = snapshots \cup {mine[p]}
    /\ mine' = [mine EXCEPT ![p] = 0]
    /\ StartPruning(p, Snapshots)
    /\ UNCHANGED <<holder, pins, saves, expired, auditFiles, command, listed, doomed, spare, file>>

(* The marker is renamed into place, or removed; then the command ends. *)
SetPinned(p) ==
    /\ step[p] \in {"Pinning", "Unpinning"}
    /\ pins' = IF step[p] = "Pinning" THEN pins \cup {mine[p]} ELSE pins \ {mine[p]}
    /\ To(p, "Off")
    /\ holder' = Freed(p)
    /\ mine' = [mine EXCEPT ![p] = 0]
    /\ UNCHANGED <<snapshots, saves, expired, auditFiles, command, pruning, file>>

(* Time passes: one more snapshot is over max_age. *)
Age ==
    /\ expired < saves
    /\ expired' = expired + 1
    /\ UNCHANGED <<holder, snapshots, pins, saves, auditFiles, step, command, pruning, mine, file>>

-----------------------------------------------------------------------------
(* Audit log *)

(* Faulty variant of MayRecord: a session records without the lock. *)
MayRecordUnlocked(p) == step[p] = "Idle"

(* An outcome is recorded by the session that ran it, hence may mutate. *)
MayRecord(p) == step[p] = "Idle" /\ holder = p

TooLarge == active # NoFile /\ Cardinality(contents[active]) >= LinesPerFile

Measure(p) ==
    /\ MayRecord(p)
    /\ records < MaxRecords /\ linked < MaxArchives
    /\ To(p, IF TooLarge THEN "Linking" ELSE "Opening")
    /\ UNCHANGED <<holder, snapshotFiles, auditFiles, command, pruning, mine, file>>

(* Only the holder of the lock gets here: the log cannot have gone meanwhile. *)
LinkArchive(p) ==
    /\ step[p] = "Linking" /\ active # NoFile
    /\ linked' = linked + 1
    /\ archives' = [a \in DOMAIN archives \cup {linked + 1} |->
                        IF a = linked + 1 THEN active ELSE archives[a]]
    /\ To(p, "Unlinking")
    /\ UNCHANGED <<holder, snapshotFiles, active, contents, records, command, pruning, mine, file>>

UnlinkActive(p) ==
    /\ step[p] = "Unlinking" /\ active # NoFile
    /\ active' = NoFile
    /\ To(p, "Opening")
    /\ UNCHANGED <<holder, snapshotFiles, archives, contents, records, linked, command, pruning,
                   mine, file>>

OpenLog(p) ==
    /\ step[p] = "Opening"
    /\ active' = IF active = NoFile THEN Len(contents) + 1 ELSE active
    /\ contents' = IF active = NoFile THEN Append(contents, {}) ELSE contents
    /\ file' = [file EXCEPT ![p] = active']
    /\ To(p, "Appending")
    /\ UNCHANGED <<holder, snapshotFiles, archives, records, linked, command, pruning, mine>>

AppendLine(p) ==
    /\ step[p] = "Appending"
    /\ records' = records + 1
    /\ contents' = [contents EXCEPT ![file[p]] = @ \cup {records + 1}]
    /\ file' = [file EXCEPT ![p] = NoFile]
    /\ StartPruning(p, Audit)
    /\ UNCHANGED <<holder, snapshotFiles, active, archives, linked, command, listed, doomed, spare,
                   mine>>

-----------------------------------------------------------------------------
(* Retention *)

Newer(files, one) == {other \in files : other > one}

(* Faulty variant of Floor: nothing is kept of what is too old. *)
FloorForgotten == 0

Floor == MinKeep

(* Rank among the unpinned: the floor first, then the count and the age. *)
Surplus(unpinned) ==
    {one \in unpinned :
        LET rank == Cardinality(Newer(unpinned, one))
        IN  rank >= Floor /\ (rank >= MaxCount \/ one <= expired)}

(* The active log counts, and is never removed. *)
SurplusArchives ==
    LET kept == MaxFiles - (IF active = NoFile THEN 0 ELSE 1)
    IN  {a \in DOMAIN archives : Cardinality(Newer(DOMAIN archives, a)) >= kept}

List(p) ==
    /\ step[p] = "Listing"
    /\ listed' = [listed EXCEPT ![p] = IF scope[p] = Audit THEN {} ELSE snapshots]
    /\ To(p, "Inspecting")
    /\ UNCHANGED <<holder, snapshotFiles, auditFiles, command, scope, doomed, spare, mine, file>>

(* The end of a retention run is the end of a command. *)
Pruned(p) ==
    /\ To(p, IF command[p] THEN "Off" ELSE "Idle")
    /\ holder' = IF command[p] THEN Freed(p) ELSE holder

(* A listed file has gone: no plan, nothing is removed. *)
PlanFails(p) ==
    /\ step[p] = "Inspecting" /\ ~(listed[p] \subseteq snapshots)
    /\ scope' = [scope EXCEPT ![p] = {}]
    /\ listed' = [listed EXCEPT ![p] = {}]
    /\ Pruned(p)
    /\ UNCHANGED <<snapshotFiles, auditFiles, command, doomed, spare, mine, file>>

Plan(p) ==
    /\ step[p] = "Inspecting" /\ listed[p] \subseteq snapshots
    /\ doomed' = [doomed EXCEPT ![p] = Surplus(listed[p] \ pins)]
    /\ spare' = [spare EXCEPT ![p] = IF scope[p] = Snapshots THEN {} ELSE SurplusArchives]
    /\ scope' = [scope EXCEPT ![p] = {}]
    /\ listed' = [listed EXCEPT ![p] = {}]
    /\ To(p, "Pruning")
    /\ UNCHANGED <<holder, snapshotFiles, auditFiles, command, mine, file>>

(* The oldest candidate goes first. *)
IsFirst(one, files) == \A other \in files : one <= other

(* Pinned since it was planned: preserved. *)
Preserve(p, s) ==
    /\ step[p] = "Pruning" /\ IsFirst(s, doomed[p])
    /\ s \in pins
    /\ doomed' = [doomed EXCEPT ![p] = @ \ {s}]
    /\ UNCHANGED <<holder, snapshotFiles, auditFiles, step, command, scope, listed, spare, mine,
                   file>>

CheckPin(p, s) ==
    /\ step[p] = "Pruning" /\ IsFirst(s, doomed[p])
    /\ s \notin pins
    /\ mine' = [mine EXCEPT ![p] = s]
    /\ To(p, "Removing")
    /\ UNCHANGED <<holder, snapshotFiles, auditFiles, command, pruning, file>>

(* One that has gone meanwhile is passed over. *)
Remove(p) ==
    /\ step[p] = "Removing"
    /\ snapshots' = snapshots \ {mine[p]}
    /\ doomed' = [doomed EXCEPT ![p] = @ \ {mine[p]}]
    /\ mine' = [mine EXCEPT ![p] = 0]
    /\ To(p, "Pruning")
    /\ UNCHANGED <<holder, pins, saves, expired, auditFiles, command, scope, listed, spare, file>>

RemoveArchive(p, a) ==
    /\ step[p] = "Pruning" /\ doomed[p] = {} /\ IsFirst(a, spare[p])
    /\ archives' = Restrict(archives, DOMAIN archives \ {a})
    /\ spare' = [spare EXCEPT ![p] = @ \ {a}]
    /\ UNCHANGED <<holder, snapshotFiles, active, contents, records, linked, step, command, scope,
                   listed, doomed, mine, file>>

EndPruning(p) ==
    /\ step[p] = "Pruning" /\ doomed[p] = {} /\ spare[p] = {}
    /\ Pruned(p)
    /\ UNCHANGED <<snapshotFiles, auditFiles, command, pruning, mine, file>>

-----------------------------------------------------------------------------
Init ==
    /\ holder = NoProcess
    /\ snapshots = {} /\ pins = {} /\ saves = 0 /\ expired = 0
    /\ active = NoFile /\ archives = <<>> /\ contents = <<>> /\ records = 0 /\ linked = 0
    /\ step = [p \in Process |-> "Off"]
    /\ command = [p \in Process |-> FALSE]
    /\ scope = [p \in Process |-> {}]
    /\ listed = [p \in Process |-> {}]
    /\ doomed = [p \in Process |-> {}]
    /\ spare = [p \in Process |-> {}]
    /\ mine = [p \in Process |-> 0]
    /\ file = [p \in Process |-> NoFile]

Next ==
    \/ Age
    \/ \E p \in Process :
        \/ StartSession(p) \/ StartReadOnly(p) \/ RunPrune(p) \/ End(p)
        \/ \E s \in snapshots, next \in {"Pinning", "Unpinning"} : RunSnapshotCommand(p, s, next)
        \/ WriteTemp(p) \/ Publish(p) \/ SetPinned(p)
        \/ Measure(p) \/ LinkArchive(p) \/ UnlinkActive(p)
        \/ OpenLog(p) \/ AppendLine(p)
        \/ List(p) \/ PlanFails(p) \/ Plan(p)
        \/ \E s \in doomed[p] : Preserve(p, s) \/ CheckPin(p, s)
        \/ Remove(p) \/ (\E a \in spare[p] : RemoveArchive(p, a)) \/ EndPruning(p)

Spec == Init /\ [][Next]_vars
=============================================================================
