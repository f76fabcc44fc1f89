--------------------------- MODULE SnapshotReads ----------------------------
(***************************************************************************)
(* How the firewall-cmd backend reads the firewall                         *)
(* (src/infrastructure/firewalld/mod.rs): the staged read that is shown,   *)
(* the complete read a mutation is checked against, the cache of slow      *)
(* sections that lasts for some reads, the cache of service definitions,   *)
(* and the record of what could not be read.                               *)
(*                                                                         *)
(* What firewalld holds is a version for each part that is read by a       *)
(* command of its own; other programs change parts and make them           *)
(* unreadable.  The engine runs one read or mutation at a time.            *)
(***************************************************************************)
EXTENDS Integers, SequencesExt

CONSTANTS
    Service, Policy,
    Referenced,     \* the services that each version of the zones refers to
    Listed,         \* the policies in each version of their list
    Offline,        \* firewall-offline-cmd: there is no runtime configuration
    HeavyEvery,     \* HEAVY_SECTION_EVERY
    DetailLimit,    \* details fetched at once
    MaxChanges      \* bound: changes of the firewall

Single == {"Zones", "Services", "IpSets", "DirectRules", "PolicyNames"}
Part == Single \cup Service \cup Policy

ASSUME ReadAssumption ==
    /\ Referenced \in [0..MaxChanges -> SUBSET Service]
    /\ Listed \in [0..MaxChanges -> SUBSET Policy]
    /\ Offline \in BOOLEAN
    /\ HeavyEvery \in Nat \ {0} /\ DetailLimit \in Nat \ {0} /\ MaxChanges \in Nat
    /\ IsFiniteSet(Service) /\ IsFiniteSet(Policy)
    /\ Single \cap (Service \cup Policy) = {} /\ Service \cap Policy = {}

VARIABLES
    firewalld, failing,     \* version of each part; parts that cannot be read
    heavy, definitions,     \* the two caches
    read,                   \* the read that is under way
    shown,                  \* the snapshot on the screen
    verdict, observed,      \* of the last precondition, and what it read
    changes,                \* history: changes so far
    asOf, quiet, counted,   \* history: firewalld when the precondition began;
                            \* reads completed since the last change
    own                     \* history: versions set by this program

caches == <<heavy, definitions>>
outcome == <<verdict, observed>>
history == <<changes, asOf, quiet, counted, own>>
vars == <<firewalld, failing, caches, read, shown, outcome, history>>

-----------------------------------------------------------------------------
(* What a command answers *)

Nothing == -1
Empty == [x \in {} |-> Nothing]

Answer(part) == IF part \in failing THEN Nothing ELSE firewalld[part]

(* DegradedSection: what could not be read, and what offline mode never has. *)
Failed(part) == IF part \in failing THEN <<<<part, "failed">>>> ELSE <<>>
Unavailable(part) == IF Offline THEN <<<<part, "offline">>>> ELSE <<>>

Details(parts) == [part \in parts \ failing |-> firewalld[part]]

(* Details are fetched side by side: their failures come in any order. *)
DetailFailures(parts) ==
    {[i \in 1..Len(order) |-> <<order[i], "failed">>] : order \in SetToSeqs(parts \cap failing)}

-----------------------------------------------------------------------------
(* A read *)

NoRead ==
    [kind |-> "None", todo |-> <<>>, reused |-> FALSE,
     zones |-> Nothing, services |-> Nothing, ipsets |-> Nothing, direct |-> Nothing,
     names |-> {}, policies |-> Empty, fetched |-> Empty, queue |-> {},
     notes |-> [x \in {"Zones", "Services", "IpSets", "DirectRules", "PolicyNames",
                       "Policies", "Definitions"} |-> <<>>]]

NoSnapshot ==
    [zones |-> Nothing, services |-> Nothing, ipsets |-> Nothing, direct |-> Nothing,
     policies |-> Empty, definitions |-> Empty, degraded |-> <<>>]

Staged == read.kind = "Staged"
Next1 == Head(read.todo)
Doing(step) == read.todo # <<>> /\ Next1 = step

(* The read with its first step done and that step's note taken. *)
Done(step, note) == [read EXCEPT !.todo = Tail(@), !.notes[step] = @ \o note]

Restricted(f, S) == [x \in S \cap DOMAIN f |-> f[x]]

(* BTreeMap::extend: what is in the map already is replaced. *)
Extended(map, more) ==
    [x \in DOMAIN map \cup DOMAIN more |-> IF x \in DOMAIN more THEN more[x] ELSE map[x]]

(* What a completed read stores in the cache of slow sections. *)
HeavyNotes ==
    read.notes.IpSets \o read.notes.DirectRules
        \o (IF Staged THEN <<>> ELSE read.notes.PolicyNames) \o read.notes.Policies

Fetched ==
    IF read.reused THEN heavy
    ELSE [age |-> 1, ipsets |-> read.ipsets, direct |-> read.direct,
          policies |-> read.policies, degraded |-> HeavyNotes]

(* hydrate_overview and snapshot put the sections together alike, but list what
   is degraded in different orders. *)
Snapshot ==
    LET zones == read.notes.Zones
        services == read.notes.Services
        service == read.notes.Definitions
        known == Extended(definitions, read.fetched)
    IN  [zones |-> read.zones, services |-> read.services,
         ipsets |-> Fetched.ipsets, direct |-> Fetched.direct, policies |-> Fetched.policies,
         definitions |-> Restricted(known, Referenced[read.zones]),
         degraded |-> Fetched.degraded \o
                      (IF Staged THEN service \o zones \o services \o read.notes.PolicyNames
                                 ELSE services \o zones \o service)]

-----------------------------------------------------------------------------
(* The engine's reads *)

(* An ordinary or mandatory refresh: snapshot_overview, then snapshot_hydrated. *)
BeginRefresh ==
    /\ read = NoRead
    /\ read' = [NoRead EXCEPT !.kind = "Staged",
                              !.todo = <<"Zones", "Services", "PolicyNames", "Heavy">>]
    /\ verdict' = "None" /\ observed' = NoSnapshot
    /\ counted' = TRUE
    /\ UNCHANGED <<firewalld, failing, caches, shown, changes, asOf, quiet, own>>

(* Faulty variant of BeginPrecondition: the slow sections may be cached. *)
BeginPreconditionCached ==
    /\ read = NoRead
    /\ read' = [NoRead EXCEPT !.kind = "Fresh", !.todo = <<"Zones", "Heavy">>]
    /\ verdict' = "None" /\ observed' = NoSnapshot
    /\ asOf' = firewalld
    /\ UNCHANGED <<firewalld, failing, caches, shown, changes, quiet, counted, own>>

(* mutation_precondition: snapshot_fresh makes the next read fetch everything. *)
BeginPrecondition ==
    /\ read = NoRead
    /\ read' = [NoRead EXCEPT !.kind = "Fresh", !.todo = <<"Zones", "Heavy">>]
    /\ heavy' = [heavy EXCEPT !.age = 0]
    /\ verdict' = "None" /\ observed' = NoSnapshot
    /\ asOf' = firewalld
    /\ UNCHANGED <<firewalld, failing, definitions, shown, changes, quiet, counted, own>>

ReadZones ==
    /\ Doing("Zones")
    /\ read' = [Done("Zones", Failed("Zones") \o Unavailable("Zones"))
                    EXCEPT !.zones = firewalld["Zones"]]
    /\ UNCHANGED <<firewalld, failing, caches, shown, outcome, history>>

ReadServices ==
    /\ Doing("Services")
    /\ read' = [Done("Services", Failed("Services")) EXCEPT !.services = Answer("Services")]
    /\ UNCHANGED <<firewalld, failing, caches, shown, outcome, history>>

ReadPolicyNames ==
    /\ Doing("PolicyNames")
    /\ read' = [Done("PolicyNames", Failed("PolicyNames") \o Unavailable("PolicyNames"))
                    EXCEPT !.names = IF "PolicyNames" \in failing THEN {}
                                     ELSE Listed[firewalld["PolicyNames"]]]
    /\ UNCHANGED <<firewalld, failing, caches, shown, outcome, history>>

ReadIpSets ==
    /\ Doing("IpSets")
    /\ read' = [Done("IpSets", Failed("IpSets") \o Unavailable("IpSets"))
                    EXCEPT !.ipsets = Answer("IpSets")]
    /\ UNCHANGED <<firewalld, failing, caches, shown, outcome, history>>

ReadDirectRules ==
    /\ Doing("DirectRules")
    /\ read' = [Done("DirectRules", Failed("DirectRules")) EXCEPT !.direct = Answer("DirectRules")]
    /\ UNCHANGED <<firewalld, failing, caches, shown, outcome, history>>

(* The slow sections are reused while they are young; a read that reuses them
   makes them older, whether or not it completes. *)
Young == heavy.age \in 1..(HeavyEvery - 1)

AfterReuse == IF Staged THEN <<"Queue">> ELSE <<"Services", "Definitions">>
AfterFetch ==
    IF Staged THEN <<"IpSets", "DirectRules", "Queue">>
    ELSE <<"IpSets", "DirectRules", "Services", "PolicyNames", "Policies", "Definitions">>

(* Faulty variant of DecideHeavy: the cache does not grow older. *)
DecideHeavyAgeless ==
    /\ Doing("Heavy")
    /\ read' = [read EXCEPT !.reused = Young, !.todo = IF Young THEN AfterReuse ELSE AfterFetch]
    /\ UNCHANGED <<firewalld, failing, caches, shown, outcome, history>>

DecideHeavy ==
    /\ Doing("Heavy")
    /\ read' = [read EXCEPT !.reused = Young, !.todo = IF Young THEN AfterReuse ELSE AfterFetch]
    /\ heavy' = IF Young THEN [heavy EXCEPT !.age = @ + 1] ELSE heavy
    /\ UNCHANGED <<firewalld, failing, definitions, shown, outcome, history>>

MissingDefinitions == Referenced[read.zones] \ DOMAIN definitions

(* hydrate_detail_work: what is to be fetched one by one. *)
QueueDetails ==
    /\ Doing("Queue")
    /\ read' = [read EXCEPT
                  !.todo = <<"Details">>,
                  !.queue = MissingDefinitions \cup (IF read.reused THEN {} ELSE read.names)]
    /\ UNCHANGED <<firewalld, failing, caches, shown, outcome, history>>

(* take_batch: what the person looks at goes first, which may be anything. *)
FetchDetails ==
    /\ Doing("Details") /\ read.queue # {}
    /\ \E batch \in SUBSET read.queue :
          /\ Cardinality(batch) = Min({DetailLimit, Cardinality(read.queue)})
          /\ \E policyNote \in DetailFailures(batch \cap Policy),
                serviceNote \in DetailFailures(batch \cap Service) :
                read' = [read EXCEPT
                           !.queue = @ \ batch,
                           !.policies = Extended(@, Details(batch \cap Policy)),
                           !.fetched = Extended(@, Details(batch \cap Service)),
                           !.notes.Policies = @ \o policyNote,
                           !.notes.Definitions = @ \o serviceNote]
    /\ UNCHANGED <<firewalld, failing, caches, shown, outcome, history>>

EndDetails ==
    /\ Doing("Details") /\ read.queue = {}
    /\ read' = [read EXCEPT !.todo = <<>>]
    /\ UNCHANGED <<firewalld, failing, caches, shown, outcome, history>>

(* policies_for and service_definitions, in the read of everything. *)
ReadPolicies ==
    /\ Doing("Policies")
    /\ \E note \in DetailFailures(read.names) :
          read' = [Done("Policies", note) EXCEPT !.policies = Details(read.names)]
    /\ UNCHANGED <<firewalld, failing, caches, shown, outcome, history>>

ReadDefinitions ==
    /\ Doing("Definitions")
    /\ \E note \in DetailFailures(MissingDefinitions) :
          read' = [Done("Definitions", note) EXCEPT !.fetched = Details(MissingDefinitions)]
    /\ UNCHANGED <<firewalld, failing, caches, shown, outcome, history>>

Complete == read.kind # "None" /\ read.todo = <<>>

(* Faulty variant of EndRead: a reused section forgets that it was incomplete. *)
EndReadForgets ==
    /\ Complete
    /\ heavy' = [Fetched EXCEPT !.degraded = <<>>]
    /\ definitions' = Extended(definitions, read.fetched)
    /\ read' = NoRead
    /\ IF Staged
       THEN /\ shown' = Snapshot
            /\ quiet' = IF counted /\ quiet < HeavyEvery THEN quiet + 1 ELSE quiet
            /\ UNCHANGED <<verdict, observed>>
       ELSE /\ observed' = Snapshot
            /\ verdict' = IF Snapshot = shown THEN "Accepted" ELSE "StaleSnapshot"
            /\ UNCHANGED <<shown, quiet>>
    /\ UNCHANGED <<firewalld, failing, changes, asOf, counted, own>>

(* A refresh is shown; a precondition is compared with what is shown. *)
EndRead ==
    /\ Complete
    /\ heavy' = Fetched
    /\ definitions' = Extended(definitions, read.fetched)
    /\ read' = NoRead
    /\ IF Staged
       THEN /\ shown' = Snapshot
            /\ quiet' = IF counted /\ quiet < HeavyEvery THEN quiet + 1 ELSE quiet
            /\ UNCHANGED <<verdict, observed>>
       ELSE /\ observed' = Snapshot
            /\ verdict' = IF Snapshot = shown THEN "Accepted" ELSE "StaleSnapshot"
            /\ UNCHANGED <<shown, quiet>>
    /\ UNCHANGED <<firewalld, failing, changes, asOf, counted, own>>

(* firewalld does not run, or its zones cannot be listed at all. *)
ReadFails ==
    /\ Doing("Zones")
    /\ read' = NoRead
    /\ UNCHANGED <<firewalld, failing, caches, shown, outcome, history>>

(* The engine drops a refresh for something more urgent. *)
DropRefresh ==
    /\ Staged
    /\ read' = NoRead
    /\ UNCHANGED <<firewalld, failing, caches, shown, outcome, history>>

-----------------------------------------------------------------------------
(* Changes *)

Changed(part) ==
    /\ changes < MaxChanges
    /\ changes' = changes + 1
    /\ firewalld' = [firewalld EXCEPT ![part] = @ + 1]

(* Faulty variant of Invalidate: changed services keep their definitions. *)
InvalidateHeavy(part) ==
    /\ heavy' = [heavy EXCEPT !.age = 0]
    /\ UNCHANGED definitions

(* apply forgets the slow sections, and all definitions if it changes a service. *)
Invalidate(part) ==
    /\ heavy' = [heavy EXCEPT !.age = 0]
    /\ definitions' = IF part \in Service THEN Empty ELSE definitions

(* An accepted request or a rollback, which needs no verdict, is executed; its
   command may fail. *)
Apply(part) ==
    /\ read = NoRead
    /\ Invalidate(part)
    /\ verdict' = "None" /\ observed' = NoSnapshot
    /\ \/ Changed(part) /\ own' = [own EXCEPT ![part] = firewalld'[part]]
       \/ UNCHANGED <<firewalld, changes, own>>
    /\ quiet' = 0 /\ counted' = FALSE
    /\ UNCHANGED <<failing, read, shown, asOf>>

ForeignChange(part) ==
    /\ Changed(part)
    /\ quiet' = 0 /\ counted' = FALSE
    /\ UNCHANGED <<failing, caches, read, shown, outcome, asOf, own>>

(* Reading a part starts to fail or works again. *)
Disturbance(part) ==
    /\ changes < MaxChanges
    /\ changes' = changes + 1
    /\ failing' = IF part \in failing THEN failing \ {part} ELSE failing \cup {part}
    /\ quiet' = 0 /\ counted' = FALSE
    /\ UNCHANGED <<firewalld, caches, read, shown, outcome, asOf, own>>

-----------------------------------------------------------------------------

Init ==
    /\ firewalld = [part \in Part |-> 0] /\ failing = {}
    /\ heavy = [age |-> 0, ipsets |-> Nothing, direct |-> Nothing, policies |-> Empty,
                degraded |-> <<>>]
    /\ definitions = Empty
    /\ read = NoRead /\ shown = NoSnapshot
    /\ verdict = "None" /\ observed = NoSnapshot
    /\ changes = 0 /\ asOf = firewalld /\ quiet = 0 /\ counted = FALSE
    /\ own = firewalld

Backend ==
    \/ ReadZones \/ ReadServices \/ ReadPolicyNames \/ ReadIpSets \/ ReadDirectRules
    \/ DecideHeavy \/ QueueDetails \/ FetchDetails \/ EndDetails
    \/ ReadPolicies \/ ReadDefinitions \/ EndRead

Next ==
    \/ BeginRefresh \/ BeginPrecondition \/ Backend
    \/ ReadFails \/ DropRefresh
    \/ \E part \in Part \ {"Services"} : Apply(part)
    \/ \E part \in Part : ForeignChange(part) \/ Disturbance(part)

Spec == Init /\ [][Next]_vars

=============================================================================
