-------------------------- MODULE LocalStateProofs --------------------------
(***************************************************************************)
(* That retention spares the floor and the pinned snapshots, and that the  *)
(* audit log has no gap, for any number of processes and every retention   *)
(* policy.                                                                 *)
(*                                                                         *)
(* What a process is about to remove was surplus when it planned; the      *)
(* files that made it surplus may be removed by others meanwhile.  The     *)
(* invariant says that enough newer ones remain all the same, since the    *)
(* newest that were ever seen are a candidate of nobody.                   *)
(***************************************************************************)
EXTENDS LocalStateProperties, FiniteSetTheorems, SequenceTheorems, TLAPS

FilesOK ==
    /\ saves \in Nat /\ snapshots \subseteq Nat /\ IsFiniteSet(snapshots)
    /\ doomed \in [Process -> SUBSET Nat]
    /\ mine \in [Process -> Nat]

ProcessesOK ==
    /\ holder \in Process \cup {NoProcess}
    /\ DOMAIN step = Process

(* Enough newer files remain of every candidate. *)
FloorStands ==
    \A p \in Process : \A s \in doomed[p] : Cardinality(Newer(snapshots, s)) >= MinKeep

(* What is being removed was planned, and is not pinned under our lock. *)
RemovalChecked ==
    \A p \in Process : step[p] = "Removing" =>
        /\ mine[p] \in doomed[p]
        /\ holder = p => mine[p] \notin pins

PinningLocked ==
    \A p \in Process : step[p] \in {"Pinning", "Unpinning"} => holder = p

RetentionInv == FilesOK /\ ProcessesOK /\ FloorStands /\ RemovalChecked /\ PinningLocked

-----------------------------------------------------------------------------
(* The newer files of a larger set are at least as many. *)
LEMMA NewerGrows ==
    ASSUME NEW S, IsFiniteSet(S), S \subseteq Nat, NEW T, T \subseteq S, NEW s \in Nat
    PROVE  /\ Cardinality(Newer(S, s)) \in Nat /\ Cardinality(Newer(T, s)) \in Nat
           /\ Cardinality(Newer(T, s)) <= Cardinality(Newer(S, s))
<1>1. IsFiniteSet(Newer(S, s)) /\ Newer(T, s) \subseteq Newer(S, s)
  BY FS_Subset DEF Newer
<1>2. IsFiniteSet(Newer(T, s))
  BY <1>1, FS_Subset
<1> QED
  BY <1>1, <1>2, FS_Subset, FS_CardinalityType

(* Surplus files have the floor above them, in any larger set of files. *)
LEMMA SurplusHasFloor ==
    ASSUME NEW S, IsFiniteSet(S), S \subseteq Nat, NEW T, T \subseteq S, NEW s \in Surplus(T)
    PROVE  s \in Nat /\ Cardinality(Newer(S, s)) >= MinKeep
<1>1. s \in T /\ Cardinality(Newer(T, s)) >= MinKeep
  BY DEF Surplus, Floor
<1>2. s \in Nat
  BY <1>1
<1>3. /\ Cardinality(Newer(S, s)) \in Nat /\ Cardinality(Newer(T, s)) \in Nat
      /\ Cardinality(Newer(T, s)) <= Cardinality(Newer(S, s))
  BY <1>2, NewerGrows
<1> QED
  BY <1>1, <1>2, <1>3, LocalStateAssumption DEF LocalStateAssumption

(* Removing a file that has the floor above it leaves the floor above the others. *)
LEMMA RemovalKeepsFloor ==
    ASSUME NEW S, IsFiniteSet(S), S \subseteq Nat, NEW m \in Nat, NEW s \in Nat,
           Cardinality(Newer(S, m)) >= MinKeep, Cardinality(Newer(S, s)) >= MinKeep
    PROVE  Cardinality(Newer(S \ {m}, s)) >= MinKeep
<1>1. CASE s < m
  <2>1. Newer(S, m) \subseteq Newer(S \ {m}, s)
    <3> SUFFICES ASSUME NEW o \in S, o > m PROVE o > s /\ o # m
      BY DEF Newer
    <3>1. o \in Nat
      OBVIOUS
    <3> QED
      BY <1>1, <3>1
  <2>2. IsFiniteSet(Newer(S \ {m}, s))
    BY FS_Subset DEF Newer
  <2>3. Cardinality(Newer(S, m)) <= Cardinality(Newer(S \ {m}, s))
    BY <2>1, <2>2, FS_Subset
  <2>4. Cardinality(Newer(S \ {m}, s)) \in Nat /\ Cardinality(Newer(S, m)) \in Nat
    BY <2>1, <2>2, FS_Subset, FS_CardinalityType
  <2> QED
    BY <2>3, <2>4, LocalStateAssumption DEF LocalStateAssumption
<1>2. CASE ~(s < m)
  <2>1. Newer(S \ {m}, s) = Newer(S, s)
    BY <1>2 DEF Newer
  <2> QED
    BY <2>1
<1> QED
  BY <1>1, <1>2

-----------------------------------------------------------------------------
LEMMA RetentionInit == Init => RetentionInv
<1> SUFFICES ASSUME Init PROVE RetentionInv
  OBVIOUS
<1>1. FilesOK
  BY FS_EmptySet DEF Init, FilesOK
<1> QED
  BY <1>1 DEF Init, RetentionInv, ProcessesOK, FloorStands, RemovalChecked, PinningLocked

(* Steps that move one process and leave the snapshots and the plans alone. *)
LEMMA QuietStep ==
    ASSUME RetentionInv, NEW p \in Process,
           UNCHANGED <<snapshots, pins, saves>>,
           \/ doomed' = doomed
           \/ doomed' = [doomed EXCEPT ![p] = {}],
           mine' \in [Process -> Nat],
           \A q \in Process \ {p} : mine'[q] = mine[q],
           NEW next, step' = [step EXCEPT ![p] = next],
           next # "Removing",
           next \in {"Pinning", "Unpinning"} => holder' = p,
           holder' \in Process \cup {NoProcess},
           \A q \in Process \ {p} : holder' = q <=> holder = q
    PROVE  RetentionInv'
<1> USE DEF RetentionInv
<1>1. FilesOK'
  BY DEF FilesOK
<1>2. ProcessesOK'
  BY DEF ProcessesOK
<1>3. FloorStands'
  BY DEF FloorStands, FilesOK
<1>4. RemovalChecked'
  <2> SUFFICES ASSUME NEW q \in Process, step'[q] = "Removing"
               PROVE  mine'[q] \in doomed'[q] /\ (holder' = q => mine'[q] \notin pins')
    BY DEF RemovalChecked
  <2>1. q # p /\ step[q] = "Removing"
    BY DEF ProcessesOK
  <2>2. doomed'[q] = doomed[q] /\ mine'[q] = mine[q] /\ (holder' = q <=> holder = q)
    BY <2>1 DEF FilesOK
  <2> QED
    BY <2>1, <2>2 DEF RemovalChecked
<1>5. PinningLocked'
  <2> SUFFICES ASSUME NEW q \in Process, step'[q] \in {"Pinning", "Unpinning"}
               PROVE  holder' = q
    BY DEF PinningLocked
  <2>1. CASE q = p
    BY <2>1 DEF ProcessesOK
  <2>2. CASE q # p
    BY <2>2 DEF ProcessesOK, PinningLocked
  <2> QED
    BY <2>1, <2>2
<1> QED
  BY <1>1, <1>2, <1>3, <1>4, <1>5

-----------------------------------------------------------------------------
(* One step per action that touches the snapshots, the pins or the plans. *)
LEMMA WriteTempStep ==
    ASSUME RetentionInv, NEW p \in Process, WriteTemp(p) PROVE RetentionInv'
<1> USE DEF RetentionInv, WriteTemp, To, snapshotFiles, pruning
<1>1. FilesOK'
  BY DEF FilesOK
<1>2. ProcessesOK' /\ FloorStands'
  BY DEF ProcessesOK, FloorStands
<1>3. RemovalChecked'
  BY DEF RemovalChecked, ProcessesOK, FilesOK
<1>4. PinningLocked'
  BY DEF PinningLocked, ProcessesOK
<1> QED
  BY <1>1, <1>2, <1>3, <1>4

LEMMA PublishStep ==
    ASSUME RetentionInv, NEW p \in Process, Publish(p) PROVE RetentionInv'
<1> USE DEF RetentionInv, Publish, To, StartPruning
<1>1. FilesOK'
  BY FS_AddElement DEF FilesOK
<1>2. ProcessesOK'
  BY DEF ProcessesOK
<1>3. FloorStands'
  <2> SUFFICES ASSUME NEW q \in Process, NEW s \in doomed[q]
               PROVE  Cardinality(Newer(snapshots', s)) >= MinKeep
    BY DEF FloorStands
  <2>1. s \in Nat /\ snapshots \subseteq snapshots' /\ Cardinality(Newer(snapshots, s)) >= MinKeep
    BY DEF FilesOK, FloorStands
  <2>2. IsFiniteSet(snapshots') /\ snapshots' \subseteq Nat
    BY <1>1 DEF FilesOK
  <2>3. /\ Cardinality(Newer(snapshots', s)) \in Nat /\ Cardinality(Newer(snapshots, s)) \in Nat
        /\ Cardinality(Newer(snapshots, s)) <= Cardinality(Newer(snapshots', s))
    BY <2>1, <2>2, NewerGrows
  <2> QED
    BY <2>1, <2>3, LocalStateAssumption DEF LocalStateAssumption
<1>4. RemovalChecked'
  BY DEF RemovalChecked, ProcessesOK, FilesOK
<1>5. PinningLocked'
  BY DEF PinningLocked, ProcessesOK
<1> QED
  BY <1>1, <1>2, <1>3, <1>4, <1>5

(* Whoever removes under the lock excludes the command that pins. *)
LEMMA SetPinnedStep ==
    ASSUME RetentionInv, NEW p \in Process, SetPinned(p) PROVE RetentionInv'
<1> USE DEF RetentionInv, SetPinned, To, pruning, Freed
<1>1. FilesOK'
  BY DEF FilesOK
<1>2. ProcessesOK' /\ FloorStands'
  BY DEF ProcessesOK, FloorStands
<1>3. holder = p /\ holder' = NoProcess
  BY DEF PinningLocked
<1>4. RemovalChecked'
  BY <1>3, LocalStateAssumption DEF RemovalChecked, ProcessesOK, FilesOK, LocalStateAssumption
<1>5. PinningLocked'
  BY <1>3 DEF PinningLocked, ProcessesOK
<1> QED
  BY <1>1, <1>2, <1>4, <1>5

LEMMA PlanStep ==
    ASSUME RetentionInv, NEW p \in Process, Plan(p) PROVE RetentionInv'
<1> USE DEF RetentionInv, Plan, To, snapshotFiles
<1> DEFINE plan == Surplus(listed[p] \ pins)
<1>0. \A s \in plan : s \in Nat /\ Cardinality(Newer(snapshots, s)) >= MinKeep
  BY SurplusHasFloor DEF FilesOK
<1> HIDE DEF plan
<1>1. doomed' = [doomed EXCEPT ![p] = plan]
  BY DEF plan
<1>2. FilesOK'
  BY <1>0, <1>1 DEF FilesOK
<1>3. ProcessesOK'
  BY DEF ProcessesOK
<1>4. FloorStands'
  BY <1>0, <1>1 DEF FloorStands, FilesOK
<1>5. RemovalChecked'
  BY <1>1 DEF RemovalChecked, ProcessesOK, FilesOK
<1>6. PinningLocked'
  BY DEF PinningLocked, ProcessesOK
<1> QED
  BY <1>2, <1>3, <1>4, <1>5, <1>6

LEMMA PreserveStep ==
    ASSUME RetentionInv, NEW p \in Process, NEW o \in doomed[p], Preserve(p, o) PROVE RetentionInv'
<1> USE DEF RetentionInv, Preserve, snapshotFiles
<1>1. FilesOK' /\ ProcessesOK' /\ FloorStands' /\ PinningLocked'
  BY DEF FilesOK, ProcessesOK, FloorStands, PinningLocked
<1>2. RemovalChecked'
  <2> SUFFICES ASSUME NEW q \in Process, step[q] = "Removing"
               PROVE  mine[q] \in doomed'[q] /\ (holder = q => mine[q] \notin pins)
    BY DEF RemovalChecked
  <2>1. q # p
    OBVIOUS
  <2> QED
    BY <2>1 DEF RemovalChecked, FilesOK
<1> QED
  BY <1>1, <1>2

LEMMA CheckPinStep ==
    ASSUME RetentionInv, NEW p \in Process, NEW o \in doomed[p], CheckPin(p, o) PROVE RetentionInv'
<1> USE DEF RetentionInv, CheckPin, To, snapshotFiles, pruning
<1>1. o \in Nat
  BY DEF FilesOK
<1>2. FilesOK' /\ ProcessesOK' /\ FloorStands'
  BY <1>1 DEF FilesOK, ProcessesOK, FloorStands
<1>3. RemovalChecked'
  BY <1>1 DEF RemovalChecked, ProcessesOK, FilesOK
<1>4. PinningLocked'
  BY DEF PinningLocked, ProcessesOK
<1> QED
  BY <1>2, <1>3, <1>4

LEMMA RemoveStep ==
    ASSUME RetentionInv, NEW p \in Process, Remove(p) PROVE RetentionInv'
<1> USE DEF RetentionInv, Remove, To
<1>1. /\ mine[p] \in doomed[p] /\ mine[p] \in Nat
      /\ Cardinality(Newer(snapshots, mine[p])) >= MinKeep
  BY DEF RemovalChecked, FloorStands, FilesOK
<1>2. FilesOK'
  BY FS_Subset DEF FilesOK
<1>3. ProcessesOK'
  BY DEF ProcessesOK
<1>4. FloorStands'
  <2> SUFFICES ASSUME NEW q \in Process, NEW s \in doomed'[q]
               PROVE  Cardinality(Newer(snapshots', s)) >= MinKeep
    BY DEF FloorStands
  <2>1. s \in doomed[q] /\ s \in Nat /\ Cardinality(Newer(snapshots, s)) >= MinKeep
    BY DEF FilesOK, FloorStands
  <2> QED
    BY <1>1, <2>1, RemovalKeepsFloor DEF FilesOK
<1>5. RemovalChecked'
  <2> SUFFICES ASSUME NEW q \in Process, step'[q] = "Removing"
               PROVE  mine'[q] \in doomed'[q] /\ (holder' = q => mine'[q] \notin pins')
    BY DEF RemovalChecked
  <2>1. q # p /\ step[q] = "Removing"
    BY DEF ProcessesOK
  <2> QED
    BY <2>1 DEF RemovalChecked, FilesOK
<1>6. PinningLocked'
  BY DEF PinningLocked, ProcessesOK
<1> QED
  BY <1>2, <1>3, <1>4, <1>5, <1>6

-----------------------------------------------------------------------------
(* The other steps of a process, one after the other, are quiet. *)
LEMMA ProcessStep ==
    ASSUME RetentionInv, NEW p \in Process,
           \/ StartSession(p) \/ StartReadOnly(p) \/ RunPrune(p) \/ End(p)
           \/ \E s \in snapshots, next \in {"Pinning", "Unpinning"} : RunSnapshotCommand(p, s, next)
           \/ Measure(p) \/ LinkArchive(p) \/ UnlinkActive(p) \/ OpenLog(p) \/ AppendLine(p)
           \/ List(p) \/ PlanFails(p) \/ EndPruning(p)
    PROVE  RetentionInv'
<1> USE DEF To, StartPruning, StartCommand, MayMutate, snapshotFiles, pruning
<1>0. /\ mine \in [Process -> Nat] /\ snapshots \subseteq Nat
      /\ holder \in Process \cup {NoProcess} /\ NoProcess \notin Process
  BY LocalStateAssumption DEF RetentionInv, FilesOK, ProcessesOK, LocalStateAssumption
<1>1. CASE StartSession(p)
  BY <1>0, <1>1, QuietStep DEF StartSession
<1>2. CASE StartReadOnly(p)
  BY <1>0, <1>2, QuietStep DEF StartReadOnly
<1>3. CASE RunPrune(p)
  BY <1>0, <1>3, QuietStep DEF RunPrune
<1>4. CASE End(p)
  BY <1>0, <1>4, QuietStep DEF End, Freed
<1>5. ASSUME NEW s \in snapshots, NEW next \in {"Pinning", "Unpinning"},
             RunSnapshotCommand(p, s, next)
      PROVE  RetentionInv'
  <2>1. mine' \in [Process -> Nat] /\ \A q \in Process \ {p} : mine'[q] = mine[q]
    BY <1>0, <1>5 DEF RunSnapshotCommand
  <2> QED
    BY <1>0, <1>5, <2>1, QuietStep DEF RunSnapshotCommand
<1>6. CASE Measure(p)
  <2>1. CASE TooLarge
    BY <1>0, <1>6, <2>1, QuietStep DEF Measure
  <2>2. CASE ~TooLarge
    BY <1>0, <1>6, <2>2, QuietStep DEF Measure
  <2> QED
    BY <2>1, <2>2
<1>7. CASE LinkArchive(p)
  BY <1>0, <1>7, QuietStep DEF LinkArchive
<1>8. CASE UnlinkActive(p)
  BY <1>0, <1>8, QuietStep DEF UnlinkActive
<1>9. CASE OpenLog(p)
  BY <1>0, <1>9, QuietStep DEF OpenLog
<1>10. CASE AppendLine(p)
  BY <1>0, <1>10, QuietStep DEF AppendLine
<1>11. CASE List(p)
  BY <1>0, <1>11, QuietStep DEF List
<1>12. CASE PlanFails(p)
  BY <1>0, <1>12, QuietStep DEF PlanFails, Pruned, Freed
<1>13. CASE EndPruning(p)
  BY <1>0, <1>13, QuietStep DEF EndPruning, Pruned, Freed
<1> QED
  BY <1>1, <1>2, <1>3, <1>4, <1>5, <1>6, <1>7, <1>8, <1>9, <1>10, <1>11, <1>12, <1>13

LEMMA RetentionNext == RetentionInv /\ [Next]_vars => RetentionInv'
<1> SUFFICES ASSUME RetentionInv, [Next]_vars PROVE RetentionInv'
  OBVIOUS
<1>1. CASE Age
  BY <1>1 DEF Age, RetentionInv, FilesOK, ProcessesOK, FloorStands, RemovalChecked, PinningLocked,
             pruning
<1>2. CASE UNCHANGED vars
  BY <1>2 DEF vars, snapshotFiles, pruning, RetentionInv, FilesOK, ProcessesOK, FloorStands,
             RemovalChecked, PinningLocked
<1>3. ASSUME NEW p \in Process, NEW a \in spare[p], RemoveArchive(p, a)
      PROVE  RetentionInv'
  BY <1>3 DEF RemoveArchive, snapshotFiles, RetentionInv, FilesOK, ProcessesOK, FloorStands,
             RemovalChecked, PinningLocked
<1> QED
  BY <1>1, <1>2, <1>3, ProcessStep, WriteTempStep, PublishStep, SetPinnedStep, PlanStep,
     PreserveStep, CheckPinStep, RemoveStep DEF Next

-----------------------------------------------------------------------------
(***************************************************************************)
(* The theorem: at every removal the floor stands above what is removed,   *)
(* and what is removed under the lock is not pinned.                       *)
(***************************************************************************)
LEMMA RetentionInvariant == Spec => []RetentionInv
<1> QED
  BY RetentionInit, RetentionNext, PTL DEF Spec

LEMMA SparedStep ==
    ASSUME RetentionInv, [Next]_vars PROVE \A s \in snapshots \ snapshots' : Spared(s)
<1> SUFFICES ASSUME NEW s \in snapshots, s \notin snapshots' PROVE Spared(s)
  OBVIOUS
<1>1. PICK p \in Process : Remove(p)
  <2>1. \A p \in Process :
          \/ StartSession(p) \/ StartReadOnly(p) \/ RunPrune(p) \/ End(p)
          \/ \E o \in snapshots, next \in {"Pinning", "Unpinning"} : RunSnapshotCommand(p, o, next)
          => snapshots' = snapshots
    BY DEF StartSession, StartReadOnly, RunPrune, End, RunSnapshotCommand, snapshotFiles
  <2>2. \A p \in Process :
          \/ WriteTemp(p) \/ Publish(p) \/ SetPinned(p)
          \/ Measure(p) \/ LinkArchive(p) \/ UnlinkActive(p) \/ OpenLog(p) \/ AppendLine(p)
          => snapshots \subseteq snapshots'
    BY DEF WriteTemp, Publish, SetPinned, Measure, LinkArchive, UnlinkActive, OpenLog, AppendLine,
           snapshotFiles
  <2>3. \A p \in Process :
          \/ List(p) \/ PlanFails(p) \/ Plan(p)
          \/ \E o \in doomed[p] : Preserve(p, o) \/ CheckPin(p, o)
          \/ \E a \in spare[p] : RemoveArchive(p, a)
          \/ EndPruning(p)
          => snapshots' = snapshots
    BY DEF List, PlanFails, Plan, Preserve, CheckPin, RemoveArchive, EndPruning, snapshotFiles
  <2>4. Age \/ UNCHANGED vars => snapshots' = snapshots
    BY DEF Age, vars, snapshotFiles
  <2> QED
    BY <2>1, <2>2, <2>3, <2>4 DEF Next
<1>2. step[p] = "Removing" /\ mine[p] = s
  BY <1>1 DEF Remove
<1> QED
  BY <1>2 DEF RetentionInv, RemovalChecked, FloorStands, Spared

THEOREM RetentionSpares == Spec => RemovesOnlySurplus
<1>1. RetentionInv /\ [Next]_vars => [\A s \in snapshots \ snapshots' : Spared(s)]_vars
  BY SparedStep
<1> QED
  BY <1>1, RetentionInvariant, PTL DEF Spec, RemovesOnlySurplus

-----------------------------------------------------------------------------
(***************************************************************************)
(* That the audit log has no gap, for any number of processes, any number  *)
(* of files kept and any size of one.                                      *)
(*                                                                         *)
(* The lines on disk are closed upwards because archives go oldest first,  *)
(* and the last one is on disk because an archive is surplus only when a   *)
(* newer one, which has lines, stays.  Both need that nobody rotates or    *)
(* removes an archive without the lock.                                    *)
(***************************************************************************)
LogOK ==
    /\ records \in Nat /\ linked \in Nat
    /\ contents \in Seq(SUBSET (1..records))
    /\ active \in {NoFile, Len(contents)}
    /\ DOMAIN archives \subseteq 1..linked
    /\ \A a \in DOMAIN archives : archives[a] \in DOMAIN contents /\ contents[archives[a]] # {}

StepsOK ==
    /\ holder \in Process \cup {NoProcess}
    /\ DOMAIN step = Process /\ DOMAIN scope = Process /\ DOMAIN spare = Process
    /\ DOMAIN file = Process

(* A newer file has only later lines, a newer name no older file. *)
InOrder ==
    /\ \A f, g \in DOMAIN contents : f < g => \A l \in contents[f], m \in contents[g] : l < m
    /\ \A a, b \in DOMAIN archives : a <= b => archives[a] <= archives[b]

(* Whoever rotates or writes has the lock, and what it saw is still so. *)
Writing(p) ==
    /\ step[p] \in {"Linking", "Unlinking", "Opening", "Appending"} => holder = p
    /\ step[p] = "Linking" /\ active # NoFile => contents[active] # {}
    /\ step[p] = "Unlinking" => active \in {archives[a] : a \in DOMAIN archives}
    /\ step[p] = "Appending" => file[p] = active /\ active # NoFile

(* Whoever is to remove archives has the lock; it takes the oldest, never the last. *)
Retaining(p) ==
    /\ step[p] \in {"Listing", "Inspecting"} => scope[p] = Snapshots \/ holder = p
    /\ spare[p] # {} => holder = p /\ step[p] \in {"Pruning", "Removing"}
    /\ \A a \in spare[p] :
        /\ a \in DOMAIN archives
        /\ \E b \in DOMAIN archives : b > a
        /\ \A b \in DOMAIN archives : b <= a => b \in spare[p]

AuditInv ==
    /\ LogOK /\ StepsOK /\ InOrder
    /\ \A p \in Process : Writing(p) /\ Retaining(p)
    /\ AuditHasNoGap

-----------------------------------------------------------------------------
(* What a step of one process leaves alone of the others. *)
Moves(p) ==
    /\ StepsOK'
    /\ \A q \in Process \ {p} :
        /\ step'[q] = step[q] /\ scope'[q] = scope[q] /\ spare'[q] = spare[q]
        /\ file'[q] = file[q]
        /\ holder' = q <=> holder = q

LEMMA OthersFollow ==
    ASSUME AuditInv, NEW p \in Process, Moves(p), UNCHANGED auditFiles
    PROVE  \A q \in Process \ {p} : Writing(q)' /\ Retaining(q)'
<1> SUFFICES ASSUME NEW q \in Process, q # p PROVE Writing(q)' /\ Retaining(q)'
  OBVIOUS
<1>1. /\ step'[q] = step[q] /\ scope'[q] = scope[q] /\ spare'[q] = spare[q]
      /\ file'[q] = file[q]
      /\ holder' = q <=> holder = q
  BY DEF Moves
<1>2. Writing(q) /\ Retaining(q)
  BY DEF AuditInv
<1>3. active' = active /\ archives' = archives /\ contents' = contents
  BY DEF auditFiles
<1>4. Writing(q)'
  BY <1>1, <1>2, <1>3 DEF Writing
<1>5. Retaining(q)'
  BY <1>1, <1>2, <1>3 DEF Retaining
<1> QED
  BY <1>4, <1>5

(* The log changes in the hands of the lock's holder: the others have no part in it. *)
LEMMA OthersWait ==
    ASSUME AuditInv, NEW p \in Process, Moves(p), holder = p
    PROVE  \A q \in Process \ {p} : Writing(q)' /\ Retaining(q)'
<1> SUFFICES ASSUME NEW q \in Process, q # p PROVE Writing(q)' /\ Retaining(q)'
  OBVIOUS
<1>1. /\ step'[q] = step[q] /\ scope'[q] = scope[q] /\ spare'[q] = spare[q]
      /\ file'[q] = file[q]
      /\ holder' = q <=> holder = q
  BY DEF Moves
<1>2. Writing(q) /\ Retaining(q)
  BY DEF AuditInv
<1>3. /\ step[q] \notin {"Linking", "Unlinking", "Opening", "Appending"}
      /\ spare[q] = {}
      /\ step[q] \in {"Listing", "Inspecting"} => scope[q] = Snapshots
  BY <1>2 DEF Writing, Retaining
<1>4. Writing(q)'
  BY <1>1, <1>3 DEF Writing
<1>5. Retaining(q)'
  BY <1>1, <1>3 DEF Retaining
<1> QED
  BY <1>4, <1>5

LEMMA LogStands ==
    ASSUME AuditInv, NEW p \in Process, Moves(p), UNCHANGED auditFiles,
           Writing(p)', Retaining(p)'
    PROVE  AuditInv'
<1>0. /\ active' = active /\ archives' = archives /\ contents' = contents
      /\ records' = records /\ linked' = linked
  BY DEF auditFiles
<1>1. LogOK' /\ InOrder' /\ AuditHasNoGap'
  <2>1. LogOK'
    BY <1>0 DEF AuditInv, LogOK
  <2>2. InOrder'
    BY <1>0 DEF AuditInv, InOrder
  <2>3. OnDisk' = OnDisk
    BY <1>0 DEF OnDisk
  <2>4. AuditHasNoGap'
    BY <1>0, <2>3 DEF AuditInv, AuditHasNoGap
  <2> QED
    BY <2>1, <2>2, <2>4
<1>2. StepsOK'
  BY DEF Moves
<1>3. \A q \in Process : Writing(q)' /\ Retaining(q)'
  BY OthersFollow
<1> QED
  BY <1>1, <1>2, <1>3 DEF AuditInv

LEMMA AuditInit == Init => AuditInv
<1> SUFFICES ASSUME Init PROVE AuditInv
  OBVIOUS
<1>1. LogOK
  BY DEF Init, LogOK, NoFile
<1>2. StepsOK
  BY DEF Init, StepsOK
<1>3. InOrder
  BY DEF Init, InOrder
<1>4. \A p \in Process : Writing(p) /\ Retaining(p)
  BY DEF Init, Writing, Retaining
<1>5. AuditHasNoGap
  <2>1. OnDisk = {}
    BY DEF Init, OnDisk, NoFile
  <2> QED
    BY <2>1 DEF Init, AuditHasNoGap
<1> QED
  BY <1>1, <1>2, <1>3, <1>4, <1>5 DEF AuditInv
-----------------------------------------------------------------------------
(* Steps that leave the log alone. *)
LEMMA ProcessesStand ==
    ASSUME AuditInv, NEW p \in Process,
           \/ StartSession(p) \/ StartReadOnly(p) \/ RunPrune(p) \/ End(p)
           \/ \E s \in snapshots, next \in {"Pinning", "Unpinning"} : RunSnapshotCommand(p, s, next)
           \/ WriteTemp(p) \/ Publish(p) \/ SetPinned(p)
    PROVE  AuditInv'
<1> USE DEF To, StartPruning, StartCommand, MayMutate, auditFiles, pruning
<1>0. StepsOK /\ Writing(p) /\ Retaining(p) /\ NoProcess \notin Process
  BY LocalStateAssumption DEF AuditInv, LocalStateAssumption
<1>1. CASE StartSession(p)
  <2>1. Moves(p)
    BY <1>0, <1>1 DEF StartSession, Moves, StepsOK
  <2>2. Writing(p)' /\ Retaining(p)'
    BY <1>0, <1>1 DEF StartSession, StepsOK, Writing, Retaining
  <2> QED
    BY <1>1, <2>1, <2>2, LogStands DEF StartSession
<1>2. CASE StartReadOnly(p)
  <2>1. Moves(p)
    BY <1>0, <1>2 DEF StartReadOnly, Moves, StepsOK
  <2>2. Writing(p)' /\ Retaining(p)'
    BY <1>0, <1>2 DEF StartReadOnly, StepsOK, Writing, Retaining
  <2> QED
    BY <1>2, <2>1, <2>2, LogStands DEF StartReadOnly
<1>3. CASE RunPrune(p)
  <2>1. Moves(p)
    BY <1>0, <1>3 DEF RunPrune, Moves, StepsOK
  <2>2. Writing(p)' /\ Retaining(p)'
    BY <1>0, <1>3 DEF RunPrune, StepsOK, Writing, Retaining
  <2> QED
    BY <1>3, <2>1, <2>2, LogStands DEF RunPrune
<1>4. CASE End(p)
  <2>1. Moves(p)
    BY <1>0, <1>4 DEF End, Freed, Moves, StepsOK
  <2>2. Writing(p)' /\ Retaining(p)'
    BY <1>0, <1>4 DEF End, StepsOK, Writing, Retaining
  <2> QED
    BY <1>4, <2>1, <2>2, LogStands DEF End
<1>5. ASSUME NEW s \in snapshots, NEW next \in {"Pinning", "Unpinning"},
             RunSnapshotCommand(p, s, next)
      PROVE  AuditInv'
  <2>1. Moves(p)
    BY <1>0, <1>5 DEF RunSnapshotCommand, Moves, StepsOK
  <2>2. Writing(p)' /\ Retaining(p)'
    BY <1>0, <1>5 DEF RunSnapshotCommand, StepsOK, Writing, Retaining
  <2> QED
    BY <1>5, <2>1, <2>2, LogStands DEF RunSnapshotCommand
<1>6. CASE WriteTemp(p)
  <2>1. Moves(p)
    BY <1>0, <1>6 DEF WriteTemp, Moves, StepsOK
  <2>2. Writing(p)' /\ Retaining(p)'
    BY <1>0, <1>6 DEF WriteTemp, StepsOK, Writing, Retaining
  <2> QED
    BY <1>6, <2>1, <2>2, LogStands DEF WriteTemp
<1>7. CASE Publish(p)
  <2>1. Moves(p)
    BY <1>0, <1>7 DEF Publish, Moves, StepsOK
  <2>2. Writing(p)' /\ Retaining(p)'
    BY <1>0, <1>7 DEF Publish, StepsOK, Writing, Retaining
  <2> QED
    BY <1>7, <2>1, <2>2, LogStands DEF Publish
<1>8. CASE SetPinned(p)
  <2>1. Moves(p)
    BY <1>0, <1>8 DEF SetPinned, Freed, Moves, StepsOK
  <2>2. Writing(p)' /\ Retaining(p)'
    BY <1>0, <1>8 DEF SetPinned, StepsOK, Writing, Retaining
  <2> QED
    BY <1>8, <2>1, <2>2, LogStands DEF SetPinned
<1> QED
  BY <1>1, <1>2, <1>3, <1>4, <1>5, <1>6, <1>7, <1>8

LEMMA MeasureStands ==
    ASSUME AuditInv, NEW p \in Process, Measure(p)
    PROVE  AuditInv'
<1> USE DEF To, Measure, MayRecord, pruning
<1>0. StepsOK /\ Writing(p) /\ Retaining(p) /\ LogOK
  BY DEF AuditInv
<1>1. Moves(p)
  BY <1>0 DEF Moves, StepsOK
<1>2. active # NoFile /\ TooLarge => contents[active] # {}
  BY FS_EmptySet, LocalStateAssumption DEF TooLarge, LocalStateAssumption
<1>3. Writing(p)'
  <2>1. CASE TooLarge
    BY <1>0, <1>2, <2>1 DEF StepsOK, Writing, auditFiles
  <2>2. CASE ~TooLarge
    BY <1>0, <2>2 DEF StepsOK, Writing, auditFiles
  <2> QED
    BY <2>1, <2>2
<1>4. Retaining(p)'
  BY <1>0 DEF StepsOK, Retaining, auditFiles
<1> QED
  BY <1>1, <1>3, <1>4, LogStands

(* What is surplus among the archives is the oldest of them, never the newest. *)
LEMMA OldestAreSurplus ==
    ASSUME LogOK, NEW a \in SurplusArchives
    PROVE  /\ a \in DOMAIN archives
           /\ \E b \in DOMAIN archives : b > a
           /\ \A b \in DOMAIN archives : b <= a => b \in SurplusArchives
<1> DEFINE D == DOMAIN archives
           kept == MaxFiles - (IF active = NoFile THEN 0 ELSE 1)
<1>1. IsFiniteSet(D) /\ D \subseteq Nat
  <2>1. linked \in Nat /\ D \subseteq 1..linked
    BY DEF LogOK
  <2>2. IsFiniteSet(1..linked)
    BY <2>1, FS_Interval
  <2> QED
    BY <2>1, <2>2, FS_Subset
<1>2. kept \in Nat /\ kept >= 1
  BY LocalStateAssumption DEF LocalStateAssumption
<1>3. SurplusArchives = {b \in D : Cardinality(Newer(D, b)) >= kept}
  BY DEF SurplusArchives
<1> HIDE DEF kept, D
<1>4. a \in D /\ Cardinality(Newer(D, a)) >= kept
  BY <1>3
<1>5. \E b \in D : b > a
  <2>1. Newer(D, a) # {}
    BY <1>2, <1>4, FS_EmptySet
  <2> QED
    BY <2>1 DEF Newer
<1>6. ASSUME NEW b \in D, b <= a PROVE b \in SurplusArchives
  <2>1. Newer(D, a) \subseteq Newer(D, b)
    <3> SUFFICES ASSUME NEW o \in D, o > a PROVE o > b
      BY DEF Newer
    <3>1. o \in Nat /\ a \in Nat /\ b \in Nat
      BY <1>1, <1>4
    <3> QED
      BY <3>1, <1>6
  <2>2. IsFiniteSet(Newer(D, b))
    BY <1>1, FS_Subset DEF Newer
  <2>3. /\ Cardinality(Newer(D, a)) <= Cardinality(Newer(D, b))
        /\ Cardinality(Newer(D, a)) \in Nat /\ Cardinality(Newer(D, b)) \in Nat
    BY <2>1, <2>2, FS_Subset, FS_CardinalityType
  <2>4. Cardinality(Newer(D, b)) >= kept
    BY <1>2, <1>4, <2>3
  <2> QED
    BY <1>3, <2>4
<1> QED
  BY <1>4, <1>5, <1>6 DEF D

LEMMA RetentionStands ==
    ASSUME AuditInv, NEW p \in Process,
           \/ List(p) \/ PlanFails(p) \/ Plan(p)
           \/ \E s \in doomed[p] : Preserve(p, s) \/ CheckPin(p, s)
           \/ Remove(p) \/ EndPruning(p)
    PROVE  AuditInv'
<1> USE DEF To, auditFiles, pruning
<1>0. StepsOK /\ Writing(p) /\ Retaining(p) /\ LogOK /\ NoProcess \notin Process
  BY LocalStateAssumption DEF AuditInv, LocalStateAssumption
<1>1. CASE List(p)
  <2>1. Moves(p)
    BY <1>0, <1>1 DEF List, Moves, StepsOK
  <2>2. Writing(p)' /\ Retaining(p)'
    BY <1>0, <1>1 DEF List, StepsOK, Writing, Retaining
  <2> QED
    BY <1>1, <2>1, <2>2, LogStands DEF List
<1>2. CASE PlanFails(p)
  <2>1. Moves(p)
    BY <1>0, <1>2 DEF PlanFails, Pruned, Freed, Moves, StepsOK
  <2>2. Writing(p)'
    BY <1>0, <1>2 DEF PlanFails, Pruned, StepsOK, Writing
  <2>3. Retaining(p)'
    <3>1. spare[p] = {}
      BY <1>0, <1>2 DEF PlanFails, Retaining
    <3> QED
      BY <1>0, <1>2, <3>1 DEF PlanFails, Pruned, StepsOK, Retaining
  <2> QED
    BY <1>2, <2>1, <2>2, <2>3, LogStands DEF PlanFails
<1>3. CASE Plan(p)
  <2>1. Moves(p)
    BY <1>0, <1>3 DEF Plan, Moves, StepsOK
  <2>2. Writing(p)'
    BY <1>0, <1>3 DEF Plan, StepsOK, Writing
  <2>3. Retaining(p)'
    <3> DEFINE surplus == SurplusArchives
    <3>1. \A a \in surplus :
            /\ a \in DOMAIN archives
            /\ \E b \in DOMAIN archives : b > a
            /\ \A b \in DOMAIN archives : b <= a => b \in surplus
      BY <1>0, OldestAreSurplus
    <3>2. spare'[p] = IF scope[p] = Snapshots THEN {} ELSE surplus
      BY <1>0, <1>3 DEF Plan, StepsOK
    <3> HIDE DEF surplus
    <3>3. /\ step[p] = "Inspecting" /\ step'[p] = "Pruning" /\ holder' = holder
          /\ archives' = archives
      BY <1>0, <1>3 DEF Plan, StepsOK
    <3>4. CASE scope[p] = Snapshots
      BY <3>2, <3>3, <3>4 DEF Retaining
    <3>5. CASE scope[p] # Snapshots
      <4>1. spare'[p] = surplus /\ holder = p
        BY <1>0, <3>2, <3>3, <3>5 DEF Retaining
      <4> QED
        BY <3>1, <3>3, <4>1 DEF Retaining
    <3> QED
      BY <3>4, <3>5
  <2> QED
    BY <1>3, <2>1, <2>2, <2>3, LogStands DEF Plan
<1>4. ASSUME NEW s \in doomed[p], Preserve(p, s) PROVE AuditInv'
  <2>1. Moves(p)
    BY <1>0, <1>4 DEF Preserve, Moves, StepsOK
  <2>2. Writing(p)' /\ Retaining(p)'
    BY <1>0, <1>4 DEF Preserve, StepsOK, Writing, Retaining
  <2> QED
    BY <1>4, <2>1, <2>2, LogStands DEF Preserve
<1>5. ASSUME NEW s \in doomed[p], CheckPin(p, s) PROVE AuditInv'
  <2>1. Moves(p)
    BY <1>0, <1>5 DEF CheckPin, Moves, StepsOK
  <2>2. Writing(p)' /\ Retaining(p)'
    BY <1>0, <1>5 DEF CheckPin, StepsOK, Writing, Retaining
  <2> QED
    BY <1>5, <2>1, <2>2, LogStands DEF CheckPin
<1>6. CASE Remove(p)
  <2>1. Moves(p)
    BY <1>0, <1>6 DEF Remove, Moves, StepsOK
  <2>2. Writing(p)' /\ Retaining(p)'
    BY <1>0, <1>6 DEF Remove, StepsOK, Writing, Retaining
  <2> QED
    BY <1>6, <2>1, <2>2, LogStands DEF Remove
<1>7. CASE EndPruning(p)
  <2>1. Moves(p)
    BY <1>0, <1>7 DEF EndPruning, Pruned, Freed, Moves, StepsOK
  <2>2. Writing(p)' /\ Retaining(p)'
    BY <1>0, <1>7 DEF EndPruning, Pruned, StepsOK, Writing, Retaining
  <2> QED
    BY <1>7, <2>1, <2>2, LogStands DEF EndPruning
<1> QED
  BY <1>1, <1>2, <1>3, <1>4, <1>5, <1>6, <1>7

-----------------------------------------------------------------------------
(* Steps that change the log. *)
LEMMA LogMoves ==
    ASSUME AuditInv, NEW p \in Process, Moves(p), holder = p,
           LogOK', InOrder', AuditHasNoGap', Writing(p)', Retaining(p)'
    PROVE  AuditInv'
<1>1. StepsOK'
  BY DEF Moves
<1>2. \A q \in Process : Writing(q)' /\ Retaining(q)'
  BY OthersWait
<1> QED
  BY <1>1, <1>2 DEF AuditInv

(* What a gap depends on is what is on disk and which line was the last. *)
LEMMA SameLines ==
    ASSUME AuditHasNoGap, OnDisk' = OnDisk, records' = records
    PROVE  AuditHasNoGap'
BY DEF AuditHasNoGap

LEMMA LinkStands ==
    ASSUME AuditInv, NEW p \in Process, LinkArchive(p)
    PROVE  AuditInv'
<1> USE DEF To, LinkArchive, pruning
<1>0. StepsOK /\ Writing(p) /\ Retaining(p) /\ LogOK /\ InOrder /\ AuditHasNoGap
  BY DEF AuditInv
<1>1. Moves(p) /\ holder = p
  BY <1>0 DEF Moves, StepsOK, Writing
<1>2. /\ linked \in Nat /\ records \in Nat /\ linked' = linked + 1
      /\ contents' = contents /\ active' = active /\ records' = records
      /\ active = Len(contents) /\ active \in DOMAIN contents /\ contents[active] # {}
      /\ contents \in Seq(SUBSET (1..records))
  BY <1>0 DEF LogOK, Writing, NoFile
<1>3. /\ DOMAIN archives' = DOMAIN archives \cup {linked'}
      /\ archives'[linked'] = active
      /\ \A a \in DOMAIN archives : a \in 1..linked /\ archives'[a] = archives[a]
  BY <1>0, <1>2 DEF LogOK
<1>4. LogOK'
  <2>1. DOMAIN archives' \subseteq 1..linked'
    <3>1. 1..linked \subseteq 1..linked' /\ linked' \in 1..linked'
      BY <1>2
    <3>2. DOMAIN archives \subseteq 1..linked
      BY <1>3
    <3> QED
      BY <1>3, <3>1, <3>2
  <2>2. \A a \in DOMAIN archives' : archives'[a] \in DOMAIN contents /\ contents[archives'[a]] # {}
    BY <1>0, <1>2, <1>3 DEF LogOK
  <2>3. /\ records' \in Nat /\ linked' \in Nat
        /\ contents' \in Seq(SUBSET (1..records')) /\ active' \in {NoFile, Len(contents')}
    BY <1>2
  <2>4. \A a \in DOMAIN archives' : archives'[a] \in DOMAIN contents' /\ contents'[archives'[a]] # {}
    BY <1>2, <2>2
  <2> QED
    BY <2>1, <2>3, <2>4 DEF LogOK
<1>5. InOrder'
  <2>1. ASSUME NEW a \in DOMAIN archives', NEW b \in DOMAIN archives', a <= b
        PROVE  archives'[a] <= archives'[b]
    <3>1. CASE b = linked'
      <4>1. archives'[a] \in DOMAIN contents
        BY <1>2, <1>4 DEF LogOK
      <4> QED
        BY <1>2, <1>3, <3>1, <4>1
    <3>2. CASE b # linked'
      <4>1. b \in DOMAIN archives /\ a \in DOMAIN archives
        BY <1>2, <1>3, <2>1, <3>2
      <4> QED
        BY <1>0, <1>3, <2>1, <4>1 DEF InOrder
    <3> QED
      BY <3>1, <3>2
  <2>2. \A f, g \in DOMAIN contents' : f < g => \A l \in contents'[f], m \in contents'[g] : l < m
    BY <1>0, <1>2 DEF InOrder
  <2> QED
    BY <2>1, <2>2 DEF InOrder
<1>6. AuditHasNoGap'
  <2>1. {archives'[a] : a \in DOMAIN archives'} \cup ({active} \ {NoFile})
            = {archives[a] : a \in DOMAIN archives} \cup ({active} \ {NoFile})
    <3>1. {archives'[a] : a \in DOMAIN archives'} = {archives[a] : a \in DOMAIN archives} \cup {active}
      BY <1>3
    <3>2. active # NoFile
      OBVIOUS
    <3> QED
      BY <3>1, <3>2
  <2>2. OnDisk' = OnDisk
    BY <1>2, <2>1 DEF OnDisk
  <2> QED
    BY <1>0, <1>2, <2>2, SameLines
<1>7. Writing(p)'
  BY <1>0, <1>1, <1>2, <1>3 DEF Writing, StepsOK
<1>8. Retaining(p)'
  BY <1>0 DEF Retaining, StepsOK
<1> QED
  BY <1>1, <1>4, <1>5, <1>6, <1>7, <1>8, LogMoves

LEMMA UnlinkStands ==
    ASSUME AuditInv, NEW p \in Process, UnlinkActive(p)
    PROVE  AuditInv'
<1> USE DEF To, UnlinkActive, pruning
<1>0. StepsOK /\ Writing(p) /\ Retaining(p) /\ LogOK /\ InOrder /\ AuditHasNoGap
  BY DEF AuditInv
<1>1. Moves(p) /\ holder = p
  BY <1>0 DEF Moves, StepsOK, Writing
<1>2. /\ contents' = contents /\ active' = NoFile /\ records' = records
      /\ archives' = archives /\ linked' = linked
  OBVIOUS
<1>3. LogOK' /\ InOrder'
  BY <1>0, <1>2 DEF LogOK, InOrder
<1>4. AuditHasNoGap'
  <2>1. active \in {archives[a] : a \in DOMAIN archives}
    BY <1>0 DEF Writing
  <2>2. {archives[a] : a \in DOMAIN archives} \cup ({active'} \ {NoFile})
            = {archives[a] : a \in DOMAIN archives} \cup ({active} \ {NoFile})
    BY <1>2, <2>1
  <2>3. OnDisk' = OnDisk
    BY <1>2, <2>2 DEF OnDisk
  <2> QED
    BY <1>0, <1>2, <2>3, SameLines
<1>5. Writing(p)' /\ Retaining(p)'
  BY <1>0, <1>1 DEF Writing, Retaining, StepsOK
<1> QED
  BY <1>1, <1>3, <1>4, <1>5, LogMoves

LEMMA OpenStands ==
    ASSUME AuditInv, NEW p \in Process, OpenLog(p)
    PROVE  AuditInv'
<1> USE DEF To, OpenLog, pruning
<1>0. StepsOK /\ Writing(p) /\ Retaining(p) /\ LogOK /\ InOrder /\ AuditHasNoGap
  BY DEF AuditInv
<1>1. Moves(p) /\ holder = p
  BY <1>0 DEF Moves, StepsOK, Writing
<1>2. /\ records' = records /\ archives' = archives /\ linked' = linked /\ records \in Nat
      /\ contents \in Seq(SUBSET (1..records))
  BY <1>0 DEF LogOK
<1>3. Retaining(p)'
  BY <1>0 DEF Retaining, StepsOK
<1>4. CASE active # NoFile
  <2>1. contents' = contents /\ active' = active /\ file'[p] = active'
    BY <1>0, <1>4 DEF StepsOK
  <2>2. LogOK' /\ InOrder'
    BY <1>0, <1>2, <2>1 DEF LogOK, InOrder
  <2>3. Writing(p)'
    BY <1>0, <1>1, <1>4, <2>1 DEF Writing, StepsOK
  <2>4. OnDisk' = OnDisk
    BY <1>2, <2>1 DEF OnDisk
  <2>5. AuditHasNoGap'
    BY <1>0, <1>2, <2>4, SameLines
  <2> QED
    BY <1>1, <1>3, <2>2, <2>3, <2>5, LogMoves
<1>5. CASE active = NoFile
  <2> DEFINE new == Len(contents) + 1
  <2>1. /\ contents' = Append(contents, {}) /\ active' = new /\ file'[p] = new
        /\ new \in Nat /\ new # NoFile
    BY <1>0, <1>2, <1>5 DEF StepsOK, NoFile
  <2>2. /\ contents' \in Seq(SUBSET (1..records)) /\ Len(contents') = new
        /\ DOMAIN contents' = DOMAIN contents \cup {new}
        /\ contents'[new] = {}
        /\ \A f \in DOMAIN contents : contents'[f] = contents[f]
    BY <1>2, <2>1
  <2>3. LogOK'
    BY <1>0, <1>2, <2>1, <2>2 DEF LogOK
  <2>4. InOrder'
    <3>1. ASSUME NEW f \in DOMAIN contents', NEW g \in DOMAIN contents', f < g,
                 NEW l \in contents'[f], NEW m \in contents'[g]
          PROVE  l < m
      <4>1. f \in DOMAIN contents /\ g \in DOMAIN contents
        BY <2>2, <3>1
      <4> QED
        BY <1>0, <2>2, <3>1, <4>1 DEF InOrder
    <3> QED
      BY <1>0, <1>2, <3>1 DEF InOrder
  <2>5. Writing(p)'
    BY <1>0, <1>1, <2>1 DEF Writing, StepsOK
  <2>6. AuditHasNoGap'
    <3>1. \A a \in DOMAIN archives : archives[a] \in DOMAIN contents
      BY <1>0 DEF LogOK
    <3>2. OnDisk = UNION {contents[f] : f \in {archives[a] : a \in DOMAIN archives}}
      BY <1>5 DEF OnDisk
    <3>3. OnDisk' = UNION {contents'[f] : f \in {archives[a] : a \in DOMAIN archives} \cup {new}}
      BY <1>2, <2>1 DEF OnDisk
    <3> HIDE DEF new
    <3>4. OnDisk' = OnDisk
      BY <2>2, <3>1, <3>2, <3>3
    <3> QED
      BY <1>0, <1>2, <3>4, SameLines
  <2> QED
    BY <1>1, <1>3, <2>3, <2>4, <2>5, <2>6, LogMoves
<1> QED
  BY <1>4, <1>5

LEMMA AppendStands ==
    ASSUME AuditInv, NEW p \in Process, AppendLine(p)
    PROVE  AuditInv'
<1> USE DEF To, StartPruning, AppendLine
<1>0. StepsOK /\ Writing(p) /\ Retaining(p) /\ LogOK /\ InOrder /\ AuditHasNoGap
  BY DEF AuditInv
<1>1. Moves(p) /\ holder = p
  BY <1>0 DEF Moves, StepsOK, Writing
<1> DEFINE new == records + 1
<1>2. /\ active' = active /\ archives' = archives /\ linked' = linked /\ records' = new
      /\ records \in Nat /\ new \in Nat
      /\ file[p] = active /\ active = Len(contents) /\ active \in DOMAIN contents
      /\ active # NoFile
      /\ contents \in Seq(SUBSET (1..records))
  BY <1>0 DEF LogOK, Writing, NoFile
<1>3. /\ Len(contents') = Len(contents) /\ DOMAIN contents' = DOMAIN contents
      /\ contents'[active] = contents[active] \cup {new}
      /\ \A f \in DOMAIN contents : f # active => contents'[f] = contents[f]
  BY <1>2
<1>4. contents' \in Seq(SUBSET (1..new))
  <2>1. \A f \in DOMAIN contents : contents[f] \in SUBSET (1..new)
    BY <1>2
  <2>2. contents[active] \cup {new} \in SUBSET (1..new)
    BY <1>2, <2>1
  <2>3. contents \in Seq(SUBSET (1..new))
    BY <1>2, <2>1
  <2> HIDE DEF new
  <2> QED
    BY <1>2, <2>2, <2>3
<1>5. \A f \in DOMAIN contents : \A l \in contents[f] : l \in 1..records
  BY <1>2
<1> HIDE DEF new
<1>6. LogOK'
  <2>1. \A a \in DOMAIN archives' : archives'[a] \in DOMAIN contents' /\ contents'[archives'[a]] # {}
    BY <1>0, <1>2, <1>3 DEF LogOK
  <2> QED
    BY <1>0, <1>2, <1>3, <1>4, <2>1 DEF LogOK
<1>7. InOrder'
  <2>1. ASSUME NEW f \in DOMAIN contents, NEW g \in DOMAIN contents, f < g,
               NEW l \in contents'[f], NEW m \in contents'[g]
        PROVE  l < m
    <3>1. f # active /\ l \in contents[f] /\ l \in 1..records
      BY <1>2, <1>3, <1>5, <2>1
    <3>2. CASE m = new
      BY <1>2, <3>1, <3>2 DEF new
    <3>3. CASE m # new
      <4>1. m \in contents[g]
        BY <1>3, <2>1, <3>3
      <4> QED
        BY <1>0, <2>1, <3>1, <4>1 DEF InOrder
    <3> QED
      BY <3>2, <3>3
  <2> QED
    BY <1>0, <1>2, <1>3, <2>1 DEF InOrder
<1>8. AuditHasNoGap'
  <2> DEFINE kept == {archives[a] : a \in DOMAIN archives} \cup ({active} \ {NoFile})
  <2>1. kept \subseteq DOMAIN contents /\ active \in kept
    BY <1>0, <1>2 DEF LogOK
  <2>2. OnDisk = UNION {contents[f] : f \in kept} /\ OnDisk' = UNION {contents'[f] : f \in kept}
    BY <1>2 DEF OnDisk
  <2> HIDE DEF kept
  <2>3. OnDisk' = OnDisk \cup {new}
    <3>1. \A f \in kept : contents'[f] \subseteq contents[f] \cup {new} /\ contents[f] \subseteq contents'[f]
      BY <1>3, <2>1
    <3>2. new \in contents'[active]
      BY <1>3
    <3> QED
      BY <2>1, <2>2, <3>1, <3>2
  <2>4. OnDisk \subseteq 1..records
    BY <1>5, <2>1, <2>2
  <2>5. ASSUME NEW line \in OnDisk', NEW l \in line..new PROVE l \in OnDisk'
    <3>1. CASE l = new
      BY <2>3, <3>1
    <3>2. CASE l # new
      <4>1. line \in OnDisk /\ l \in line..records
        BY <1>2, <2>3, <2>4, <2>5, <3>2 DEF new
      <4> QED
        BY <1>0, <2>3, <4>1 DEF AuditHasNoGap
    <3> QED
      BY <3>1, <3>2
  <2> QED
    BY <1>2, <2>3, <2>5 DEF AuditHasNoGap
<1>9. Writing(p)' /\ Retaining(p)'
  BY <1>0, <1>1 DEF Writing, Retaining, StepsOK
<1> QED
  BY <1>1, <1>6, <1>7, <1>8, <1>9, LogMoves

LEMMA RemoveArchiveStands ==
    ASSUME AuditInv, NEW p \in Process, NEW a \in spare[p], RemoveArchive(p, a)
    PROVE  AuditInv'
<1> USE DEF RemoveArchive, snapshotFiles
<1>0. StepsOK /\ Writing(p) /\ Retaining(p) /\ LogOK /\ InOrder /\ AuditHasNoGap
  BY DEF AuditInv
<1>1. Moves(p) /\ holder = p
  BY <1>0 DEF Moves, StepsOK, Retaining
<1>2. /\ active' = active /\ contents' = contents /\ linked' = linked /\ records' = records
      /\ DOMAIN archives' = DOMAIN archives \ {a}
      /\ \A b \in DOMAIN archives' : archives'[b] = archives[b]
      /\ spare'[p] = spare[p] \ {a} /\ holder' = p /\ step'[p] = step[p]
  BY <1>0, <1>1 DEF Restrict, StepsOK
<1>3. DOMAIN archives \subseteq Nat /\ DOMAIN contents \subseteq Nat
  BY <1>0 DEF LogOK
<1>4. /\ a \in DOMAIN archives
      /\ \A b \in DOMAIN archives' : b > a
  <2>1. \A b \in DOMAIN archives : b <= a => b \in spare[p]
    BY <1>0 DEF Retaining
  <2>2. \A b \in spare[p] : a <= b
    BY DEF IsFirst
  <2>3. a \in DOMAIN archives
    BY <1>0 DEF Retaining
  <2> QED
    BY <1>2, <1>3, <2>1, <2>2, <2>3
<1>5. PICK next \in DOMAIN archives' : next > a
  BY <1>0, <1>2, <1>3 DEF Retaining
<1>6. LogOK' /\ InOrder'
  BY <1>0, <1>2 DEF LogOK, InOrder
<1>7. Writing(p)'
  BY <1>0 DEF Writing, Retaining
<1>8. Retaining(p)'
  <2>1. ASSUME NEW b \in spare'[p]
        PROVE  /\ b \in DOMAIN archives'
               /\ \E c \in DOMAIN archives' : c > b
               /\ \A c \in DOMAIN archives' : c <= b => c \in spare'[p]
    <3>1. /\ b \in spare[p] /\ b \in DOMAIN archives'
          /\ \A c \in DOMAIN archives : c <= b => c \in spare[p]
      BY <1>0, <1>2 DEF Retaining
    <3>2. PICK c \in DOMAIN archives : c > b
      BY <1>0, <3>1 DEF Retaining
    <3>3. c \in DOMAIN archives'
      BY <1>2, <1>3, <1>4, <3>1, <3>2
    <3> QED
      BY <1>2, <3>1, <3>2, <3>3
  <2>2. /\ step'[p] \in {"Listing", "Inspecting"} => scope'[p] = Snapshots \/ holder' = p
        /\ spare'[p] # {} => holder' = p /\ step'[p] \in {"Pruning", "Removing"}
    BY <1>0, <1>2
  <2> QED
    BY <2>1, <2>2 DEF Retaining
<1>9. AuditHasNoGap'
  <2> DEFINE old == {archives[b] : b \in DOMAIN archives} \cup ({active} \ {NoFile})
             kept == {archives'[b] : b \in DOMAIN archives'} \cup ({active} \ {NoFile})
             gone == archives[a]
  <2>1. OnDisk = UNION {contents[f] : f \in old} /\ OnDisk' = UNION {contents[f] : f \in kept}
    BY <1>2 DEF OnDisk
  <2>2. kept \subseteq old /\ old \subseteq kept \cup {gone}
    BY <1>2, <1>4
  <2>3. /\ old \subseteq DOMAIN contents /\ gone \in DOMAIN contents
        /\ \A f \in kept : gone <= f
    <3>1. old \subseteq DOMAIN contents /\ gone \in DOMAIN contents
      BY <1>0, <1>4 DEF LogOK, NoFile
    <3>2. ASSUME NEW b \in DOMAIN archives' PROVE gone <= archives'[b]
      <4>1. b \in DOMAIN archives /\ a \in DOMAIN archives /\ a <= b /\ archives'[b] = archives[b]
        BY <1>2, <1>3, <1>4
      <4> QED
        BY <1>0, <4>1 DEF InOrder
    <3>3. active # NoFile => gone <= active
      BY <1>0, <3>1 DEF LogOK
    <3> QED
      BY <3>1, <3>2, <3>3
  <2>4. archives[next] \in kept /\ contents[archives[next]] # {}
    BY <1>0, <1>2 DEF LogOK
  <2> HIDE DEF old, kept, gone
  <2>5. \A f \in DOMAIN contents : \A l \in contents[f] : l \in 1..records
    BY <1>0 DEF LogOK
  <2>6. OnDisk' \subseteq OnDisk
    BY <2>1, <2>2
  (* What is lost comes before every line that stays. *)
  <2>7. ASSUME NEW l \in OnDisk, l \notin OnDisk', NEW m \in OnDisk' PROVE l < m
    <3>1. l \in contents[gone] /\ gone \notin kept
      BY <2>1, <2>2, <2>7
    <3>2. PICK f \in kept : m \in contents[f]
      BY <2>1
    <3>3. f \in DOMAIN contents /\ gone < f
      BY <1>3, <2>2, <2>3, <3>1
    <3> QED
      BY <1>0, <2>3, <3>1, <3>2, <3>3 DEF InOrder
  <2>8. PICK m \in OnDisk' : m \in 1..records
    BY <2>1, <2>2, <2>3, <2>4, <2>5
  <2>9. records > 0 => records \in OnDisk'
    BY <1>0, <2>7, <2>8 DEF AuditHasNoGap, LogOK
  <2>10. ASSUME NEW line \in OnDisk', NEW l \in line..records PROVE l \in OnDisk'
    <3>1. line \in OnDisk /\ line \in 1..records /\ l \in OnDisk
      BY <1>0, <2>1, <2>2, <2>3, <2>5, <2>6 DEF AuditHasNoGap
    <3> QED
      BY <2>7, <3>1
  <2> QED
    BY <1>2, <2>9, <2>10 DEF AuditHasNoGap
<1> QED
  BY <1>1, <1>6, <1>7, <1>8, <1>9, LogMoves

LEMMA AuditNext == AuditInv /\ [Next]_vars => AuditInv'
<1> SUFFICES ASSUME AuditInv, [Next]_vars PROVE AuditInv'
  OBVIOUS
<1>1. CASE Age \/ UNCHANGED vars
  <2>1. UNCHANGED <<holder, auditFiles, step, pruning, file>>
    BY <1>1 DEF Age, vars
  <2>2. /\ holder' = holder /\ step' = step /\ scope' = scope /\ spare' = spare /\ file' = file
        /\ active' = active /\ archives' = archives /\ contents' = contents
        /\ records' = records /\ linked' = linked
    BY <2>1 DEF auditFiles, pruning
  <2>3. LogOK' /\ StepsOK' /\ InOrder'
    BY <2>2 DEF AuditInv, LogOK, StepsOK, InOrder
  <2>4. \A p \in Process : Writing(p)' /\ Retaining(p)'
    BY <2>2 DEF AuditInv, Writing, Retaining
  <2>5. OnDisk' = OnDisk
    BY <2>2 DEF OnDisk
  <2> QED
    BY <2>2, <2>3, <2>4, <2>5, SameLines DEF AuditInv
<1> QED
  BY <1>1, ProcessesStand, MeasureStands, RetentionStands, LinkStands, UnlinkStands, OpenStands,
     AppendStands, RemoveArchiveStands DEF Next

(***************************************************************************)
(* The theorem: whatever rotates, prunes or crashes, what is on disk of    *)
(* the audit log is without a gap up to the last line written (audit.rs,   *)
(* record; retention.rs, apply_plan).                                      *)
(***************************************************************************)
THEOREM AuditIsContiguous == Spec => []AuditHasNoGap
<1>1. AuditInv => AuditHasNoGap
  BY DEF AuditInv
<1> QED
  BY <1>1, AuditInit, AuditNext, PTL DEF Spec

=============================================================================
