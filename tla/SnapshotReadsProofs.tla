------------------------ MODULE SnapshotReadsProofs --------------------------
(***************************************************************************)
(* That what a mutation is checked against is fresh, that what a snapshot  *)
(* lacks is in its list of degraded sections, and that a refresh shows the *)
(* changes made before it: for every firewall, any lifetime of the cache   *)
(* and any number of details fetched at once.                              *)
(*                                                                         *)
(* A precondition works off its steps in a fixed order.  The invariant     *)
(* says of each section that its step is still ahead or that what was read *)
(* of it is not older than the precondition; and that the cache, which is  *)
(* older, is not used.                                                     *)
(***************************************************************************)
EXTENDS SnapshotReadsProperties, SequenceFacts

(* The steps of a precondition, by their place in it. *)
Place ==
    [Zones |-> 1, Heavy |-> 2, IpSets |-> 3, DirectRules |-> 4, Services |-> 5,
     PolicyNames |-> 6, Policies |-> 7, Definitions |-> 8]

Step == DOMAIN Place \cup {"Queue", "Details"}

Ahead(step) == \E i \in DOMAIN read.todo : read.todo[i] = step

Fields ==
    {"kind", "todo", "reused", "zones", "services", "ipsets", "direct", "names",
     "policies", "fetched", "queue", "notes"}

Versions ==
    /\ firewalld \in [Part -> Nat] /\ asOf \in [Part -> Nat]
    /\ \A part \in Part : asOf[part] <= firewalld[part]

ReadOK ==
    /\ read = [field \in Fields |-> read[field]]
    /\ read.kind \in {"None", "Staged", "Fresh"}
    /\ read.todo \in Seq(Step)
    /\ DOMAIN heavy = {"age", "ipsets", "direct", "policies", "degraded"}

(* A precondition has its steps ahead of it in order, and reuses nothing. *)
InOrder ==
    read.kind = "Fresh" =>
        /\ ~read.reused
        /\ Ahead("Heavy") => heavy.age = 0
        /\ \A i \in DOMAIN read.todo : read.todo[i] \in DOMAIN Place
        /\ \A i, j \in DOMAIN read.todo : i < j => Place[read.todo[i]] < Place[read.todo[j]]

(* The policies were on a list of the time. *)
OnAList(policies) ==
    \E list \in asOf["PolicyNames"]..firewalld["PolicyNames"] : policies \subseteq Listed[list]

ReadFresh ==
    read.kind = "Fresh" =>
        /\ Ahead("Zones") \/ Since(read.zones, asOf["Zones"])
        /\ Ahead("Heavy") \/ Ahead("Services") \/ Since(read.services, asOf["Services"])
        /\ Ahead("Heavy") \/ Ahead("IpSets") \/ Since(read.ipsets, asOf["IpSets"])
        /\ Ahead("Heavy") \/ Ahead("DirectRules") \/ Since(read.direct, asOf["DirectRules"])
        /\ Ahead("Heavy") \/ Ahead("PolicyNames") \/ (read.names \subseteq Policy /\ OnAList(read.names))
        /\ \/ Ahead("Heavy") \/ Ahead("Policies")
           \/ /\ OnAList(DOMAIN read.policies)
              /\ \A policy \in DOMAIN read.policies : Since(read.policies[policy], asOf[policy])

ObservedFresh ==
    verdict # "None" =>
        /\ Since(observed.zones, asOf["Zones"])
        /\ Since(observed.services, asOf["Services"])
        /\ Since(observed.ipsets, asOf["IpSets"])
        /\ Since(observed.direct, asOf["DirectRules"])
        /\ \A policy \in DOMAIN observed.policies : Since(observed.policies[policy], asOf[policy])
        /\ OnAList(DOMAIN observed.policies)

Bounded == changes \in 0..MaxChanges /\ \A part \in Part : firewalld[part] <= changes

FreshInv == Versions /\ Bounded /\ ReadOK /\ InOrder /\ ReadFresh /\ ObservedFresh

-----------------------------------------------------------------------------
LEMMA TailKeeps ==
    ASSUME NEW s \in Seq(Step), s # <<>>
    PROVE  /\ Tail(s) \in Seq(Step)
           /\ Len(Tail(s)) = Len(s) - 1
           /\ \A i \in DOMAIN Tail(s) : i + 1 \in DOMAIN s /\ Tail(s)[i] = s[i + 1]
           /\ \A i \in DOMAIN s : i # 1 => i - 1 \in DOMAIN Tail(s) /\ Tail(s)[i - 1] = s[i]
  OBVIOUS

(* A step that is done leaves the others ahead, in their order. *)
LEMMA StepDone ==
    ASSUME ReadOK, InOrder, NEW step, Doing(step), read'.todo = Tail(read.todo),
           read'.kind = read.kind, read'.reused = read.reused, heavy' = heavy
    PROVE  /\ read'.todo \in Seq(Step)
           /\ InOrder'
           /\ \A other : Ahead(other) /\ other # step => Ahead(other)'
           /\ \A other : Ahead(other)' => Ahead(other)
<1>1. read.todo \in Seq(Step) /\ read.todo # <<>> /\ Head(read.todo) = step
  BY DEF ReadOK, Doing, Next1
<1>2. read.todo[1] = step
  BY <1>1
<1>3. /\ read'.todo \in Seq(Step)
      /\ \A i \in DOMAIN read'.todo : i + 1 \in DOMAIN read.todo /\ read'.todo[i] = read.todo[i + 1]
      /\ \A i \in DOMAIN read.todo : i # 1 => i - 1 \in DOMAIN read'.todo /\ read'.todo[i - 1] = read.todo[i]
  BY <1>1, TailKeeps
<1>4. \A other : Ahead(other) /\ other # step => Ahead(other)'
  BY <1>2, <1>3 DEF Ahead
<1>5. \A other : Ahead(other)' => Ahead(other)
  BY <1>3 DEF Ahead
<1>6. InOrder'
  <2> SUFFICES ASSUME read.kind = "Fresh" PROVE InOrder'
    BY DEF InOrder
  <2>1. DOMAIN read.todo \subseteq Int /\ DOMAIN read'.todo \subseteq Int
    BY <1>1, <1>3
  <2>2. \A i, j \in DOMAIN read'.todo : i < j => Place[read'.todo[i]] < Place[read'.todo[j]]
    BY <1>3, <2>1 DEF InOrder
  <2> QED
    BY <1>3, <1>5, <2>2 DEF InOrder
<1> QED
  BY <1>3, <1>4, <1>5, <1>6

(* Whoever reads the policies has their names already. *)
LEMMA PoliciesLast ==
    ASSUME ReadOK, InOrder, Doing("Policies"), read.kind = "Fresh"
    PROVE  ~Ahead("Heavy") /\ ~Ahead("PolicyNames")
<1>1. read.todo \in Seq(Step) /\ read.todo # <<>> /\ read.todo[1] = "Policies"
  BY DEF ReadOK, Doing, Next1
<1>2. \A j \in DOMAIN read.todo : j # 1 => Place["Policies"] < Place[read.todo[j]]
  BY <1>1 DEF InOrder
<1>3. Place["Policies"] = 7 /\ Place["Heavy"] = 2 /\ Place["PolicyNames"] = 6
  BY DEF Place
<1> QED
  BY <1>1, <1>2, <1>3 DEF Ahead

(* What is current is not older than the precondition. *)
LEMMA CurrentIsFresh ==
    ASSUME Versions, NEW part \in Part
    PROVE  Since(firewalld[part], asOf[part]) /\ Since(Answer(part), asOf[part])
  BY DEF Versions, Since, Answer

LEMMA PartsNamed ==
    /\ "Zones" \in Part /\ "Services" \in Part /\ "IpSets" \in Part
    /\ "DirectRules" \in Part /\ "PolicyNames" \in Part
    /\ Policy \subseteq Part
  BY DEF Part, Single

LEMMA FreshInit == Init => FreshInv
<1> SUFFICES ASSUME Init PROVE FreshInv
  OBVIOUS
<1>1. Versions
  BY DEF Init, Versions
<1>2. Bounded
  BY ReadAssumption DEF Init, Bounded
<1>3. ReadOK
  <2>1. read.todo \in Seq(Step) /\ read.kind = "None"
    BY DEF Init, NoRead
  <2>2. read = [field \in Fields |-> read[field]]
    BY DEF Init, NoRead, Fields
  <2> QED
    BY <2>1, <2>2 DEF Init, ReadOK
<1>4. InOrder /\ ReadFresh /\ ObservedFresh
  BY DEF Init, InOrder, ReadFresh, ObservedFresh, NoRead
<1> QED
  BY <1>1, <1>2, <1>3, <1>4 DEF FreshInv

-----------------------------------------------------------------------------
(* Reading *)

LEMMA OnlyRead ==
    ASSUME Versions, Bounded, ObservedFresh,
           UNCHANGED <<firewalld, asOf, changes, verdict, observed>>
    PROVE  Versions' /\ Bounded' /\ ObservedFresh'
  BY DEF Versions, Bounded, ObservedFresh, OnAList

LEMMA ReadZonesFresh == FreshInv /\ ReadZones => FreshInv'
<1> SUFFICES ASSUME FreshInv, ReadZones PROVE FreshInv'
  OBVIOUS
<1> USE DEF FreshInv
<1>1. /\ read'.todo = Tail(read.todo) /\ read'.kind = read.kind /\ read'.reused = read.reused
      /\ read'.zones = firewalld["Zones"]
      /\ \A field \in {"services", "ipsets", "direct", "names", "policies"} : read'[field] = read[field]
      /\ read' = [field \in Fields |-> read'[field]]
  BY DEF ReadZones, Done, ReadOK, Fields
<1>2. /\ read'.todo \in Seq(Step) /\ InOrder'
      /\ \A other : Ahead(other) /\ other # "Zones" => Ahead(other)'
  BY <1>1, StepDone DEF ReadZones, caches
<1>3. ReadOK'
  BY <1>1, <1>2 DEF ReadOK, ReadZones, caches
<1>4. Versions' /\ Bounded' /\ ObservedFresh'
  BY OnlyRead DEF ReadZones, outcome, history
<1>5. ReadFresh'
  BY <1>1, <1>2, CurrentIsFresh, PartsNamed DEF ReadFresh, OnAList, ReadZones, history
<1> QED
  BY <1>2, <1>3, <1>4, <1>5

LEMMA ReadServicesFresh == FreshInv /\ ReadServices => FreshInv'
<1> SUFFICES ASSUME FreshInv, ReadServices PROVE FreshInv'
  OBVIOUS
<1> USE DEF FreshInv
<1>1. /\ read'.todo = Tail(read.todo) /\ read'.kind = read.kind /\ read'.reused = read.reused
      /\ read'.services = Answer("Services")
      /\ \A field \in {"zones", "ipsets", "direct", "names", "policies"} : read'[field] = read[field]
      /\ read' = [field \in Fields |-> read'[field]]
  BY DEF ReadServices, Done, ReadOK, Fields
<1>2. /\ read'.todo \in Seq(Step) /\ InOrder'
      /\ \A other : Ahead(other) /\ other # "Services" => Ahead(other)'
  BY <1>1, StepDone DEF ReadServices, caches
<1>3. ReadOK'
  BY <1>1, <1>2 DEF ReadOK, ReadServices, caches
<1>4. Versions' /\ Bounded' /\ ObservedFresh'
  BY OnlyRead DEF ReadServices, outcome, history
<1>5. ReadFresh'
  BY <1>1, <1>2, CurrentIsFresh, PartsNamed DEF ReadFresh, OnAList, ReadServices, history
<1> QED
  BY <1>2, <1>3, <1>4, <1>5

LEMMA ReadIpSetsFresh == FreshInv /\ ReadIpSets => FreshInv'
<1> SUFFICES ASSUME FreshInv, ReadIpSets PROVE FreshInv'
  OBVIOUS
<1> USE DEF FreshInv
<1>1. /\ read'.todo = Tail(read.todo) /\ read'.kind = read.kind /\ read'.reused = read.reused
      /\ read'.ipsets = Answer("IpSets")
      /\ \A field \in {"zones", "services", "direct", "names", "policies"} : read'[field] = read[field]
      /\ read' = [field \in Fields |-> read'[field]]
  BY DEF ReadIpSets, Done, ReadOK, Fields
<1>2. /\ read'.todo \in Seq(Step) /\ InOrder'
      /\ \A other : Ahead(other) /\ other # "IpSets" => Ahead(other)'
  BY <1>1, StepDone DEF ReadIpSets, caches
<1>3. ReadOK'
  BY <1>1, <1>2 DEF ReadOK, ReadIpSets, caches
<1>4. Versions' /\ Bounded' /\ ObservedFresh'
  BY OnlyRead DEF ReadIpSets, outcome, history
<1>5. ReadFresh'
  BY <1>1, <1>2, CurrentIsFresh, PartsNamed DEF ReadFresh, OnAList, ReadIpSets, history
<1> QED
  BY <1>2, <1>3, <1>4, <1>5

LEMMA ReadDirectRulesFresh == FreshInv /\ ReadDirectRules => FreshInv'
<1> SUFFICES ASSUME FreshInv, ReadDirectRules PROVE FreshInv'
  OBVIOUS
<1> USE DEF FreshInv
<1>1. /\ read'.todo = Tail(read.todo) /\ read'.kind = read.kind /\ read'.reused = read.reused
      /\ read'.direct = Answer("DirectRules")
      /\ \A field \in {"zones", "services", "ipsets", "names", "policies"} : read'[field] = read[field]
      /\ read' = [field \in Fields |-> read'[field]]
  BY DEF ReadDirectRules, Done, ReadOK, Fields
<1>2. /\ read'.todo \in Seq(Step) /\ InOrder'
      /\ \A other : Ahead(other) /\ other # "DirectRules" => Ahead(other)'
  BY <1>1, StepDone DEF ReadDirectRules, caches
<1>3. ReadOK'
  BY <1>1, <1>2 DEF ReadOK, ReadDirectRules, caches
<1>4. Versions' /\ Bounded' /\ ObservedFresh'
  BY OnlyRead DEF ReadDirectRules, outcome, history
<1>5. ReadFresh'
  BY <1>1, <1>2, CurrentIsFresh, PartsNamed DEF ReadFresh, OnAList, ReadDirectRules, history
<1> QED
  BY <1>2, <1>3, <1>4, <1>5

LEMMA ReadPolicyNamesFresh == FreshInv /\ ReadPolicyNames => FreshInv'
<1> SUFFICES ASSUME FreshInv, ReadPolicyNames PROVE FreshInv'
  OBVIOUS
<1> USE DEF FreshInv
<1>1. /\ read'.todo = Tail(read.todo) /\ read'.kind = read.kind /\ read'.reused = read.reused
      /\ read'.names \in {{}, Listed[firewalld["PolicyNames"]]}
      /\ \A field \in {"zones", "services", "ipsets", "direct", "policies"} : read'[field] = read[field]
      /\ read' = [field \in Fields |-> read'[field]]
  BY DEF ReadPolicyNames, Done, ReadOK, Fields
<1>2. /\ read'.todo \in Seq(Step) /\ InOrder'
      /\ \A other : Ahead(other) /\ other # "PolicyNames" => Ahead(other)'
  BY <1>1, StepDone DEF ReadPolicyNames, caches
<1>3. ReadOK'
  BY <1>1, <1>2 DEF ReadOK, ReadPolicyNames, caches
<1>4. Versions' /\ Bounded' /\ ObservedFresh'
  BY OnlyRead DEF ReadPolicyNames, outcome, history
<1>5. (read.names \subseteq Policy /\ OnAList(read.names))'
  <2>1. firewalld["PolicyNames"] \in Nat /\ asOf["PolicyNames"] \in Nat
    BY PartsNamed DEF Versions
  <2>2. /\ firewalld["PolicyNames"] \in asOf["PolicyNames"]..firewalld["PolicyNames"]
        /\ firewalld["PolicyNames"] \in 0..MaxChanges
    BY <2>1, PartsNamed, ReadAssumption DEF Versions, Bounded
  <2>3. Listed[firewalld["PolicyNames"]] \subseteq Policy
    BY <2>2, ReadAssumption
  <2>4. read'.names \subseteq Listed[firewalld["PolicyNames"]]
    BY <1>1
  <2> HIDE DEF FreshInv
  <2> QED
    BY <2>2, <2>3, <2>4 DEF OnAList, ReadPolicyNames, history
<1>6. ReadFresh'
  <2>1. asOf' = asOf /\ firewalld' = firewalld
    BY DEF ReadPolicyNames, history
  <2>2. \A policies : OnAList(policies) => OnAList(policies)'
    BY <2>1 DEF OnAList
  <2>3. (Ahead("PolicyNames") \/ (read.names \subseteq Policy /\ OnAList(read.names)))'
    BY <1>5
  <2> QED
    BY <1>1, <1>2, <2>1, <2>2, <2>3 DEF ReadFresh
<1> QED
  BY <1>2, <1>3, <1>4, <1>6

LEMMA ReadPoliciesFresh == FreshInv /\ ReadPolicies => FreshInv'
<1> SUFFICES ASSUME FreshInv, ReadPolicies PROVE FreshInv'
  OBVIOUS
<1> USE DEF FreshInv
<1>1. /\ read'.todo = Tail(read.todo) /\ read'.kind = read.kind /\ read'.reused = read.reused
      /\ read'.policies = Details(read.names)
      /\ \A field \in {"zones", "services", "ipsets", "direct", "names"} : read'[field] = read[field]
      /\ read' = [field \in Fields |-> read'[field]]
  <2>1. PICK note : read' = [Done("Policies", note) EXCEPT !.policies = Details(read.names)]
    BY DEF ReadPolicies
  <2> QED
    BY <2>1 DEF Done, ReadOK, Fields
<1>2. /\ read'.todo \in Seq(Step) /\ InOrder'
      /\ \A other : Ahead(other) /\ other # "Policies" => Ahead(other)'
  BY <1>1, StepDone DEF ReadPolicies, caches
<1>3. ReadOK'
  BY <1>1, <1>2 DEF ReadOK, ReadPolicies, caches
<1>4. Versions' /\ Bounded' /\ ObservedFresh'
  BY OnlyRead DEF ReadPolicies, outcome, history
<1>5. read.kind = "Fresh" =>
        /\ OnAList(DOMAIN read'.policies)
        /\ \A policy \in DOMAIN read'.policies : Since(read'.policies[policy], asOf[policy])
  <2> SUFFICES ASSUME read.kind = "Fresh"
                PROVE  /\ OnAList(DOMAIN read'.policies)
                       /\ \A policy \in DOMAIN read'.policies : Since(read'.policies[policy], asOf[policy])
    OBVIOUS
  <2>1. read.names \subseteq Policy /\ OnAList(read.names)
    BY PoliciesLast DEF ReadFresh, ReadPolicies
  <2>2. /\ DOMAIN read'.policies \subseteq read.names
        /\ \A policy \in DOMAIN read'.policies : read'.policies[policy] = firewalld[policy]
    BY <1>1 DEF Details
  <2> QED
    BY <2>1, <2>2, CurrentIsFresh, PartsNamed DEF OnAList
<1>6. ReadFresh'
  BY <1>1, <1>2, <1>5 DEF ReadFresh, OnAList, ReadPolicies, history
<1> QED
  BY <1>2, <1>3, <1>4, <1>6

LEMMA ReadDefinitionsFresh == FreshInv /\ ReadDefinitions => FreshInv'
<1> SUFFICES ASSUME FreshInv, ReadDefinitions PROVE FreshInv'
  OBVIOUS
<1> USE DEF FreshInv
<1>1. /\ read'.todo = Tail(read.todo) /\ read'.kind = read.kind /\ read'.reused = read.reused
      /\ read'.names = read.names
      /\ \A field \in {"zones", "services", "ipsets", "direct", "names", "policies"} :
            read'[field] = read[field]
      /\ read' = [field \in Fields |-> read'[field]]
  <2>1. PICK note : read' = [Done("Definitions", note) EXCEPT !.fetched = Details(MissingDefinitions)]
    BY DEF ReadDefinitions
  <2> QED
    BY <2>1 DEF Done, ReadOK, Fields
<1>2. /\ read'.todo \in Seq(Step) /\ InOrder'
      /\ \A other : Ahead(other) /\ other # "Definitions" => Ahead(other)'
  BY <1>1, StepDone DEF ReadDefinitions, caches
<1>3. ReadOK'
  BY <1>1, <1>2 DEF ReadOK, ReadDefinitions, caches
<1>4. Versions' /\ Bounded' /\ ObservedFresh'
  BY OnlyRead DEF ReadDefinitions, outcome, history
<1>5. ReadFresh'
  BY <1>1, <1>2, PartsNamed DEF ReadFresh, OnAList, ReadDefinitions, history
<1> QED
  BY <1>2, <1>3, <1>4, <1>5

LEMMA DecideHeavyFresh == FreshInv /\ DecideHeavy => FreshInv'
<1> SUFFICES ASSUME FreshInv, DecideHeavy PROVE FreshInv'
  OBVIOUS
<1> USE DEF FreshInv
<1>1. /\ read'.kind = read.kind /\ read'.reused = Young
      /\ read'.todo = (IF Young THEN AfterReuse ELSE AfterFetch)
      /\ read'.zones = read.zones
      /\ read' = [field \in Fields |-> read'[field]]
  BY DEF DecideHeavy, ReadOK, Fields
<1>2. read'.todo \in Seq(Step)
  <2>1. \A step \in {"IpSets", "DirectRules", "Services", "PolicyNames", "Policies",
                   "Definitions", "Queue"} : step \in Step
    BY DEF Step, Place
  <2>2. /\ <<"Queue">> \in Seq(Step) /\ <<"Services", "Definitions">> \in Seq(Step)
        /\ <<"IpSets", "DirectRules", "Queue">> \in Seq(Step)
    BY <2>1
  <2>3. <<"IpSets", "DirectRules", "Services", "PolicyNames", "Policies", "Definitions">>
            \in Seq(Step)
    BY <2>1
  <2> QED
    BY <1>1, <2>2, <2>3 DEF AfterReuse, AfterFetch
<1>3. ReadOK'
  BY <1>1, <1>2 DEF ReadOK, DecideHeavy
<1>4. Versions' /\ Bounded' /\ ObservedFresh'
  BY OnlyRead DEF DecideHeavy, outcome, history
<1>5. CASE read.kind # "Fresh"
  BY <1>1, <1>3, <1>4, <1>5 DEF InOrder, ReadFresh
<1>6. CASE read.kind = "Fresh"
  <2>1. read.todo \in Seq(Step) /\ read.todo # <<>> /\ read.todo[1] = "Heavy"
    BY DEF ReadOK, DecideHeavy, Doing, Next1
  <2>2. Ahead("Heavy")
    BY <2>1 DEF Ahead
  <2>3. heavy.age = 0
    BY <1>6, <2>2 DEF InOrder
  <2>4. ~Young
    BY <2>3, ReadAssumption DEF Young
  <2>5. read'.todo = <<"IpSets", "DirectRules", "Services", "PolicyNames", "Policies", "Definitions">>
    BY <1>1, <1>6, <2>4 DEF AfterFetch, Staged
  <2>6. /\ read'.todo[1] = "IpSets" /\ read'.todo[2] = "DirectRules" /\ read'.todo[3] = "Services"
        /\ read'.todo[4] = "PolicyNames" /\ read'.todo[5] = "Policies" /\ read'.todo[6] = "Definitions"
        /\ DOMAIN read'.todo = 1..6
    BY <2>5
  <2>7. /\ Ahead("IpSets")' /\ Ahead("DirectRules")' /\ Ahead("Services")'
        /\ Ahead("PolicyNames")' /\ Ahead("Policies")'
    BY <2>6 DEF Ahead
  <2>8. ~Ahead("Heavy")'
    BY <2>6 DEF Ahead
  <2>9. InOrder'
    <3>1. \A i \in DOMAIN read'.todo : read'.todo[i] \in DOMAIN Place /\ Place[read'.todo[i]] = i + 2
      BY <2>6 DEF Place
    <3> QED
      BY <1>1, <1>6, <2>4, <2>6, <2>8, <3>1 DEF InOrder
  <2>10. ~Ahead("Zones")
    <3>1. \A j \in DOMAIN read.todo : j # 1 => Place["Heavy"] < Place[read.todo[j]]
      BY <1>6, <2>1 DEF InOrder
    <3>2. Place["Heavy"] = 2 /\ Place["Zones"] = 1
      BY DEF Place
    <3> QED
      BY <2>1, <3>1, <3>2 DEF Ahead
  <2>11. Since(read.zones, asOf["Zones"])
    BY <1>6, <2>10 DEF ReadFresh
  <2>12. ReadFresh'
    BY <1>1, <2>7, <2>11 DEF ReadFresh, DecideHeavy, history
  <2> QED
    BY <1>3, <1>4, <2>9, <2>12
<1> QED
  BY <1>5, <1>6

(* The steps that only a staged read has. *)
LEMMA DetailsFresh ==
    FreshInv /\ (QueueDetails \/ FetchDetails \/ EndDetails) => FreshInv'
<1> SUFFICES ASSUME FreshInv, QueueDetails \/ FetchDetails \/ EndDetails PROVE FreshInv'
  OBVIOUS
<1> USE DEF FreshInv
<1>1. /\ read' = [field \in Fields |-> read'[field]] /\ read'.kind = read.kind
      /\ heavy' = heavy
  <2>1. CASE QueueDetails
    BY <2>1 DEF QueueDetails, caches, ReadOK, Fields
  <2>2. CASE FetchDetails
    BY <2>2 DEF FetchDetails, caches, ReadOK, Fields
  <2>3. CASE EndDetails
    BY <2>3 DEF EndDetails, caches, ReadOK, Fields
  <2> QED
    BY <2>1, <2>2, <2>3
<1>2. read'.todo \in {<<"Details">>, read.todo, <<>>}
  <2>1. CASE QueueDetails
    BY <2>1 DEF QueueDetails, ReadOK, Fields
  <2>2. CASE FetchDetails
    BY <2>2 DEF FetchDetails, ReadOK, Fields
  <2>3. CASE EndDetails
    BY <2>3 DEF EndDetails, ReadOK, Fields
  <2> QED
    BY <2>1, <2>2, <2>3
<1>3. read'.todo \in Seq(Step)
  <2>1. <<"Details">> \in Seq(Step) /\ <<>> \in Seq(Step) /\ read.todo \in Seq(Step)
    BY DEF ReadOK, Step
  <2> QED
    BY <1>2, <2>1
<1>4. read.kind # "Fresh"
  <2>1. /\ read.todo \in Seq(Step) /\ read.todo # <<>>
        /\ Head(read.todo) = "Queue" \/ Head(read.todo) = "Details"
    BY DEF ReadOK, QueueDetails, FetchDetails, EndDetails, Doing, Next1
  <2>2. read.todo[1] \notin DOMAIN Place /\ 1 \in DOMAIN read.todo
    BY <2>1 DEF Place
  <2> QED
    BY <2>2 DEF InOrder
<1>5. ReadOK'
  BY <1>1, <1>3 DEF ReadOK
<1>6. Versions' /\ Bounded' /\ ObservedFresh'
  BY OnlyRead DEF QueueDetails, FetchDetails, EndDetails, outcome, history
<1> QED
  BY <1>1, <1>4, <1>5, <1>6 DEF InOrder, ReadFresh

-----------------------------------------------------------------------------
(* Beginning and ending a read *)

(* Nothing is known of a read that did not begin. *)
LEMMA NoReadOK ==
    ASSUME DOMAIN heavy' = {"age", "ipsets", "direct", "policies", "degraded"}, read' = NoRead
    PROVE  (ReadOK /\ InOrder /\ ReadFresh)'
<1>1. read'.todo = <<>> /\ read'.kind = "None" /\ read'.todo \in Seq(Step)
  BY DEF NoRead
<1>2. read' = [field \in Fields |-> read'[field]]
  BY DEF NoRead, Fields
<1> QED
  BY <1>1, <1>2 DEF ReadOK, InOrder, ReadFresh

LEMMA BeginRefreshFresh == FreshInv /\ BeginRefresh => FreshInv'
<1> SUFFICES ASSUME FreshInv, BeginRefresh PROVE FreshInv'
  OBVIOUS
<1> USE DEF FreshInv
<1>1. /\ read'.kind = "Staged"
      /\ read'.todo = <<"Zones", "Services", "PolicyNames", "Heavy">>
      /\ read' = [field \in Fields |-> read'[field]]
  BY DEF BeginRefresh, NoRead, Fields
<1>2. read'.todo \in Seq(Step)
  BY <1>1 DEF Step, Place
<1>3. ReadOK' /\ InOrder' /\ ReadFresh'
  BY <1>1, <1>2 DEF ReadOK, InOrder, ReadFresh, BeginRefresh, caches
<1>4. Versions' /\ Bounded' /\ ObservedFresh'
  BY DEF Versions, Bounded, ObservedFresh, BeginRefresh
<1> QED
  BY <1>3, <1>4

LEMMA BeginPreconditionFresh == FreshInv /\ BeginPrecondition => FreshInv'
<1> SUFFICES ASSUME FreshInv, BeginPrecondition PROVE FreshInv'
  OBVIOUS
<1> USE DEF FreshInv
<1>1. /\ read'.kind = "Fresh" /\ read'.todo = <<"Zones", "Heavy">> /\ read'.reused = FALSE
      /\ read' = [field \in Fields |-> read'[field]]
  BY DEF BeginPrecondition, NoRead, Fields
<1>2. /\ read'.todo \in Seq(Step) /\ DOMAIN read'.todo = 1..2
      /\ read'.todo[1] = "Zones" /\ read'.todo[2] = "Heavy"
  BY <1>1 DEF Step, Place
<1>3. heavy'.age = 0 /\ DOMAIN heavy' = DOMAIN heavy
  BY DEF BeginPrecondition, ReadOK
<1>4. ReadOK'
  BY <1>1, <1>2, <1>3 DEF ReadOK
<1>5. InOrder'
  <2>1. /\ "Zones" \in DOMAIN Place /\ "Heavy" \in DOMAIN Place
        /\ Place["Zones"] = 1 /\ Place["Heavy"] = 2
    BY DEF Place
  <2> QED
    BY <1>1, <1>2, <1>3, <2>1 DEF InOrder
<1>6. Ahead("Zones")' /\ Ahead("Heavy")'
  BY <1>2 DEF Ahead
<1>7. ReadFresh'
  BY <1>6 DEF ReadFresh
<1>8. Versions' /\ Bounded' /\ ObservedFresh'
  BY DEF Versions, Bounded, ObservedFresh, BeginPrecondition
<1> QED
  BY <1>4, <1>5, <1>7, <1>8

(* A read given up: firewalld cannot be read, or there is something urgent. *)
LEMMA GivenUpFresh == FreshInv /\ (ReadFails \/ DropRefresh) => FreshInv'
<1> SUFFICES ASSUME FreshInv, ReadFails \/ DropRefresh PROVE FreshInv'
  OBVIOUS
<1> USE DEF FreshInv
<1>1. read' = NoRead /\ heavy' = heavy
  BY DEF ReadFails, DropRefresh, caches
<1>2. (ReadOK /\ InOrder /\ ReadFresh)'
  BY <1>1, NoReadOK DEF ReadOK
<1>3. Versions' /\ Bounded' /\ ObservedFresh'
  BY OnlyRead DEF ReadFails, DropRefresh, outcome, history
<1> QED
  BY <1>2, <1>3

(* A precondition that is complete has nothing ahead, so all of it is fresh. *)
LEMMA EndReadFresh == FreshInv /\ EndRead => FreshInv'
<1> SUFFICES ASSUME FreshInv, EndRead PROVE FreshInv'
  OBVIOUS
<1> USE DEF FreshInv
<1>1. read' = NoRead /\ heavy' = Fetched
  BY DEF EndRead
<1>2. DOMAIN heavy' = {"age", "ipsets", "direct", "policies", "degraded"}
  BY <1>1 DEF Fetched, ReadOK
<1>3. (ReadOK /\ InOrder /\ ReadFresh)'
  BY <1>1, <1>2, NoReadOK
<1>4. Versions' /\ Bounded'
  BY DEF Versions, Bounded, EndRead
<1>5. ObservedFresh'
  <2>1. CASE Staged
    BY <2>1 DEF EndRead, ObservedFresh, OnAList
  <2>2. CASE ~Staged
    <3>1. read.kind = "Fresh" /\ read.todo = <<>>
      BY <2>2 DEF EndRead, Complete, Staged, ReadOK
    <3>2. \A step : ~Ahead(step)
      BY <3>1 DEF Ahead
    <3>3. ~read.reused
      BY <3>1 DEF InOrder
    <3>4. observed' = Snapshot
      BY <2>2 DEF EndRead
    <3>5. /\ observed'.zones = read.zones /\ observed'.services = read.services
          /\ observed'.ipsets = read.ipsets /\ observed'.direct = read.direct
          /\ observed'.policies = read.policies
      BY <3>3, <3>4 DEF Snapshot, Fetched
    <3> QED
      BY <3>1, <3>2, <3>5 DEF ReadFresh, ObservedFresh, OnAList, EndRead
  <2> QED
    BY <2>1, <2>2
<1> QED
  BY <1>3, <1>4, <1>5

-----------------------------------------------------------------------------
(* Changes *)

(* What was fresh stays fresh while the firewall changes. *)
LEMMA Grown ==
    ASSUME Versions, Bounded, asOf' = asOf, NEW part \in Part,
           Changed(part) \/ UNCHANGED <<firewalld, changes>>
    PROVE  /\ Versions' /\ Bounded'
           /\ \A policies : OnAList(policies) => OnAList(policies)'
<1>1. \A other \in Part :
         /\ firewalld[other] \in Nat /\ asOf[other] \in Nat
         /\ firewalld'[other] \in {firewalld[other], firewalld[other] + 1}
  BY DEF Versions, Changed
<1>2. Versions'
  BY <1>1 DEF Versions, Changed
<1>3. Bounded'
  BY <1>1, ReadAssumption DEF Bounded, Changed
<1>4. asOf["PolicyNames"]..firewalld["PolicyNames"]
          \subseteq asOf'["PolicyNames"]..firewalld'["PolicyNames"]
  BY <1>1, PartsNamed
<1> QED
  BY <1>2, <1>3, <1>4 DEF OnAList

LEMMA ApplyFresh == ASSUME NEW part \in Part PROVE FreshInv /\ Apply(part) => FreshInv'
<1> SUFFICES ASSUME FreshInv, Apply(part) PROVE FreshInv'
  OBVIOUS
<1> USE DEF FreshInv
<1>1. read' = NoRead /\ DOMAIN heavy' = DOMAIN heavy
  BY DEF Apply, Invalidate
<1>2. (ReadOK /\ InOrder /\ ReadFresh)'
  BY <1>1, NoReadOK DEF ReadOK
<1>3. Versions' /\ Bounded'
  BY Grown DEF Apply
<1>4. ObservedFresh'
  BY DEF Apply, ObservedFresh
<1> QED
  BY <1>2, <1>3, <1>4

LEMMA OthersFresh ==
    ASSUME NEW part \in Part
    PROVE  FreshInv /\ (ForeignChange(part) \/ Disturbance(part)) => FreshInv'
<1> SUFFICES ASSUME FreshInv, ForeignChange(part) \/ Disturbance(part) PROVE FreshInv'
  OBVIOUS
<1> USE DEF FreshInv
<1>1. UNCHANGED <<heavy, read, verdict, observed, asOf>>
  BY DEF ForeignChange, Disturbance, caches, outcome
<1>2. ReadOK' /\ InOrder'
  BY <1>1 DEF ReadOK, InOrder, Ahead
<1>3. Versions' /\ Bounded' /\ \A policies : OnAList(policies) => OnAList(policies)'
  <2>1. CASE ForeignChange(part)
    BY <1>1, <2>1, Grown DEF ForeignChange
  <2>2. CASE Disturbance(part)
    BY <1>1, <2>2, ReadAssumption DEF Disturbance, Versions, Bounded, OnAList
  <2> QED
    BY <2>1, <2>2
<1>4. \A step : Ahead(step) => Ahead(step)'
  BY <1>1 DEF Ahead
<1>5. ReadFresh' /\ ObservedFresh'
  BY <1>1, <1>3, <1>4 DEF ReadFresh, ObservedFresh
<1> QED
  BY <1>2, <1>3, <1>5

-----------------------------------------------------------------------------

LEMMA FreshStep == FreshInv /\ [Next]_vars => FreshInv'
<1> SUFFICES ASSUME FreshInv, [Next]_vars PROVE FreshInv'
  OBVIOUS
<1>1. CASE BeginRefresh
  BY <1>1, BeginRefreshFresh
<1>2. CASE BeginPrecondition
  BY <1>2, BeginPreconditionFresh
<1>3. CASE Backend
  BY <1>3, ReadZonesFresh, ReadServicesFresh, ReadPolicyNamesFresh, ReadIpSetsFresh,
     ReadDirectRulesFresh, DecideHeavyFresh, DetailsFresh, ReadPoliciesFresh,
     ReadDefinitionsFresh, EndReadFresh DEF Backend
<1>4. CASE ReadFails \/ DropRefresh
  BY <1>4, GivenUpFresh
<1>5. ASSUME NEW part \in Part, Apply(part) PROVE FreshInv'
  BY <1>5, ApplyFresh
<1>6. ASSUME NEW part \in Part, ForeignChange(part) \/ Disturbance(part) PROVE FreshInv'
  BY <1>6, OthersFresh
<1>7. CASE UNCHANGED vars
  <2>1. UNCHANGED <<firewalld, asOf, changes, verdict, observed, read, heavy>>
    BY <1>7 DEF vars, caches, outcome, history
  <2>2. Versions' /\ Bounded' /\ ObservedFresh'
    BY <2>1, OnlyRead DEF FreshInv
  <2>3. ReadOK' /\ InOrder' /\ ReadFresh'
    BY <2>1 DEF FreshInv, ReadOK, InOrder, ReadFresh, OnAList, Ahead
  <2> QED
    BY <2>2, <2>3 DEF FreshInv
<1> QED
  BY <1>1, <1>2, <1>3, <1>4, <1>5, <1>6, <1>7 DEF Next

(* What a mutation is checked against was read after its precondition began,
   section by section, whatever the caches held and whoever changes the
   firewall meanwhile: the verdict never rests on a cached section. *)
THEOREM PreconditionIsFresh == Spec => []FreshReadIsFresh
<1>1. FreshInv => FreshReadIsFresh
  BY DEF FreshInv, ObservedFresh, OnAList, FreshReadIsFresh
<1> QED
  BY <1>1, FreshInit, FreshStep, PTL DEF Spec

-----------------------------------------------------------------------------
(* What a read lacks is in its notes *)

NoteField ==
    {"Zones", "Services", "IpSets", "DirectRules", "PolicyNames", "Policies", "Definitions"}

Note == Part \X {"failed", "offline"}

(* A snapshot's list of degraded sections is put together from these notes. *)
NotesOK ==
    /\ read.notes \in [NoteField -> Seq(Note)]
    /\ heavy.degraded \in Seq(Note)
    /\ read.names \subseteq Policy

(* A step that replaces all that is to be done is the last one. *)
RewritesLast ==
    \A i \in DOMAIN read.todo : i # Len(read.todo) => read.todo[i] \notin {"Heavy", "Queue", "Details"}

Noted(field, part) == <<part, "failed">> \in ToSet(read.notes[field])

(* The decision about the slow sections brings further steps with it. *)
StepsFollow ==
    /\ read.kind = "None" => read.todo = <<>>
    /\ Ahead("Zones") => Ahead("Heavy")
    /\ read.kind # "None" /\ ~Ahead("Zones") => read.zones \in 0..MaxChanges
    /\ read.reused => heavy.age # 0
    /\ Staged => ~Ahead("Definitions")
    /\ Ahead("Details") \/ read.queue = {}

ServicesNoted ==
    \/ read.kind = "None" \/ Ahead("Services") \/ (read.kind = "Fresh" /\ Ahead("Heavy"))
    \/ read.services = Nothing => Noted("Services", "Services")

IpSetsNoted ==
    \/ read.kind = "None" \/ read.reused \/ Ahead("Heavy") \/ Ahead("IpSets")
    \/ read.ipsets = Nothing => Noted("IpSets", "IpSets")

DirectNoted ==
    \/ read.kind = "None" \/ read.reused \/ Ahead("Heavy") \/ Ahead("DirectRules")
    \/ read.direct = Nothing => Noted("DirectRules", "DirectRules")

(* A definition that is neither cached nor fetched is queued or noted. *)
DefinitionsNoted ==
    \/ read.kind = "None" \/ Ahead("Heavy") \/ Ahead("Queue") \/ Ahead("Definitions")
    \/ \A service \in MissingDefinitions \ DOMAIN read.fetched :
          service \in read.queue \/ Noted("Definitions", service)

(* A cache that counts says itself what it lacks. *)
CacheNoted ==
    heavy.age # 0 =>
        /\ heavy.ipsets = Nothing => Reported(heavy, "IpSets")
        /\ heavy.direct = Nothing => Reported(heavy, "DirectRules")

NotedInv ==
    /\ NotesOK /\ RewritesLast /\ StepsFollow
    /\ ServicesNoted /\ IpSetsNoted /\ DirectNoted /\ DefinitionsNoted /\ CacheNoted
    /\ MissingIsReported

-----------------------------------------------------------------------------
(* What this program set is not older in what it reads *)

OwnVersions ==
    /\ own \in [Part -> Nat]
    /\ \A part \in Part : own[part] <= firewalld[part]

NotOlder(values) == \A part \in DOMAIN values : part \in Part /\ Since(values[part], own[part])

OwnInv ==
    /\ OwnVersions
    /\ Since(read.zones, own["Zones"]) /\ Since(read.ipsets, own["IpSets"])
    /\ Since(read.direct, own["DirectRules"])
    /\ NotOlder(read.policies) /\ NotOlder(read.fetched) /\ NotOlder(definitions)
    /\ DOMAIN read.fetched \subseteq Service /\ DOMAIN definitions \subseteq Service
    /\ heavy.age # 0 =>
          /\ Since(heavy.ipsets, own["IpSets"]) /\ Since(heavy.direct, own["DirectRules"])
          /\ NotOlder(heavy.policies)

-----------------------------------------------------------------------------
(* A firewall that nobody changes is accepted *)

(* What it answers. *)
NamesNow == IF "PolicyNames" \in failing THEN {} ELSE Listed[firewalld["PolicyNames"]]
UndefinedNow == Referenced[firewalld["Zones"]] \ DOMAIN definitions

Failures(parts) == {<<part, "failed">> : part \in parts \cap failing}

SectionNotes(part) ==
    Failures({part}) \cup
    (IF Offline /\ part \in {"Zones", "IpSets", "PolicyNames"} THEN {<<part, "offline">>} ELSE {})

SlowNotes == SectionNotes("IpSets") \cup SectionNotes("DirectRules") \cup Failures(NamesNow)

AllNotes ==
    SlowNotes \cup SectionNotes("Zones") \cup SectionNotes("Services")
        \cup SectionNotes("PolicyNames") \cup Failures(UndefinedNow)

(* The section of these notes is yet to be read. *)
Waiting(field) ==
    \/ Ahead(field)
    \/ Ahead("Heavy") /\ \/ field \in {"IpSets", "DirectRules", "Policies", "Definitions"}
                         \/ ~Staged /\ field \in {"Services", "PolicyNames"}
    \/ Ahead("Queue") /\ field \in {"Policies", "Definitions"}

(* The steps of a staged read, by their place in it. *)
StagedPlace ==
    [Zones |-> 1, Services |-> 2, PolicyNames |-> 3, Heavy |-> 4, IpSets |-> 5,
     DirectRules |-> 6, Queue |-> 7, Details |-> 8]

StagedInOrder ==
    Staged =>
        /\ \A i \in DOMAIN read.todo : read.todo[i] \in DOMAIN StagedPlace
        /\ \A i, j \in DOMAIN read.todo :
              i < j => StagedPlace[read.todo[i]] < StagedPlace[read.todo[j]]

(* Nothing is noted of a section that is yet to be read, and nothing twice by a
   precondition; details wait at the end. *)
ReadOnce ==
    /\ read.queue # {} =>
          /\ read.todo = <<"Details">>
          /\ read.queue \subseteq MissingDefinitions \cup (IF read.reused THEN {} ELSE read.names)
    /\ \A field \in NoteField : Waiting(field) => read.notes[field] = <<>>
    /\ Waiting("Policies") => read.policies = Empty
    /\ Waiting("Definitions") => read.fetched = Empty
    /\ read.kind = "Fresh" => \A field \in NoteField : IsInjective(read.notes[field])

NotesNow(field) ==
    CASE field = "Policies" -> Failures(NamesNow \ read.queue)
      [] field = "Definitions" -> Failures(MissingDefinitions \ read.queue)
      [] OTHER -> SectionNotes(field)

Current(field) ==
    /\ field = "Zones" => read.zones = firewalld["Zones"]
    /\ field = "Services" => read.services = Answer("Services")
    /\ field = "PolicyNames" => read.names = NamesNow
    /\ field = "IpSets" => read.ipsets = Answer("IpSets")
    /\ field = "DirectRules" => read.direct = Answer("DirectRules")
    /\ field = "Policies" => read.policies = Details(NamesNow \ read.queue)
    /\ field = "Definitions" => read.fetched = Details(MissingDefinitions \ read.queue)
    /\ ToSet(read.notes[field]) = NotesNow(field)

Skipped(field) == read.reused /\ field \in {"IpSets", "DirectRules", "Policies"}

(* What a read has of a firewall that was not changed since it began. *)
ReadCurrent == \A field \in NoteField : Waiting(field) \/ Skipped(field) \/ Current(field)

(* A complete read has its policy names among the notes of the slow sections, a
   staged one has not. *)
CacheCurrent(cache) ==
    /\ cache.ipsets = Answer("IpSets") /\ cache.direct = Answer("DirectRules")
    /\ cache.policies = Details(NamesNow)
    /\ SlowNotes \subseteq ToSet(cache.degraded)
    /\ ToSet(cache.degraded) \subseteq SlowNotes \cup SectionNotes("PolicyNames")

HeavyCurrent == CacheCurrent(heavy)

(* A cache from before the last change has become older with every read since,
   and will not last until the firewall counts as quiet. *)
CacheOutlived ==
    /\ heavy.age \in 0..HeavyEvery
    /\ read.reused => heavy.age >= 2
    /\ HeavyCurrent \/ heavy.age = 0 \/ heavy.age >= quiet + 1 + (IF read.reused THEN 1 ELSE 0)

ShownCurrent ==
    /\ shown = [zones |-> firewalld["Zones"], services |-> Answer("Services"),
                ipsets |-> Answer("IpSets"), direct |-> Answer("DirectRules"),
                policies |-> Details(NamesNow),
                definitions |-> Restricted(definitions, Referenced[firewalld["Zones"]]),
                degraded |-> shown.degraded]
    /\ UndefinedNow \subseteq failing
    /\ shown.degraded \in Seq(Note) /\ ToSet(shown.degraded) = AllNotes

QuietInv ==
    /\ quiet \in 0..HeavyEvery /\ counted \in BOOLEAN /\ (~counted => quiet = 0)
    /\ Staged => verdict = "None"
    /\ StagedInOrder /\ ReadOnce /\ CacheOutlived
    /\ counted /\ read.kind # "None" => ReadCurrent
    /\ quiet = HeavyEvery => ShownCurrent
    /\ QuietIsAccepted

-----------------------------------------------------------------------------
LEMMA NoteTaken ==
    ASSUME NotesOK, NEW step \in NoteField, NEW note \in Seq(Note),
           read'.notes = [read.notes EXCEPT ![step] = @ \o note]
    PROVE  /\ read'.notes \in [NoteField -> Seq(Note)]
           /\ \A field \in NoteField : \A part : Noted(field, part) => Noted(field, part)'
           /\ \A part : <<part, "failed">> \in ToSet(note) => Noted(step, part)'
<1> DEFINE old == read.notes[step]
<1> DEFINE new == old \o note
<1>1. read.notes \in [NoteField -> Seq(Note)] /\ old \in Seq(Note)
  BY DEF NotesOK
<1>2. new \in Seq(Note) /\ ToSet(new) = ToSet(old) \cup ToSet(note)
  BY <1>1, Concatenated
<1>3. \A field \in NoteField : read'.notes[field] = IF field = step THEN new ELSE read.notes[field]
  BY <1>1
<1>4. read'.notes \in [NoteField -> Seq(Note)]
  BY <1>1, <1>2
<1> HIDE DEF new
<1>5. ASSUME NEW field \in NoteField, NEW part, Noted(field, part) PROVE Noted(field, part)'
  <2>1. CASE field = step
    BY <1>2, <1>3, <1>5, <2>1 DEF Noted
  <2>2. CASE field # step
    BY <1>3, <1>5, <2>2 DEF Noted
  <2> QED
    BY <2>1, <2>2
<1>6. \A part : <<part, "failed">> \in ToSet(note) => Noted(step, part)'
  BY <1>2, <1>3 DEF Noted
<1> QED
  BY <1>4, <1>5, <1>6

(* What cannot be read is answered by nothing and noted. *)
LEMMA AnswerNoted ==
    ASSUME Versions, NEW part \in Part
    PROVE  /\ Failed(part) \in Seq(Note) /\ Unavailable(part) \in Seq(Note)
           /\ Failed(part) \o Unavailable(part) \in Seq(Note)
           /\ ToSet(Failed(part)) = Failures({part}) /\ IsInjective(Failed(part))
           /\ ToSet(Failed(part) \o Unavailable(part))
                 = Failures({part}) \cup (IF Offline THEN {<<part, "offline">>} ELSE {})
           /\ IsInjective(Failed(part) \o Unavailable(part))
           /\ Answer(part) = Nothing =>
                 /\ <<part, "failed">> \in ToSet(Failed(part))
                 /\ <<part, "failed">> \in ToSet(Failed(part) \o Unavailable(part))
<1> DEFINE failed == <<part, "failed">>
<1> DEFINE offline == <<part, "offline">>
<1>1. failed \in Note /\ offline \in Note /\ failed # offline
  BY DEF Note
<1> HIDE DEF failed, offline
<1>2. ASSUME NEW note \in Note
      PROVE  <<note>> \in Seq(Note) /\ ToSet(<<note>>) = {note} /\ IsInjective(<<note>>)
  <2> DEFINE one == <<note>>
  <2>1. Len(one) = 1 /\ one[1] = note /\ one \in Seq(Note)
    OBVIOUS
  <2> HIDE DEF one
  <2>2. \A i \in 1..Len(one) : i = 1
    BY <2>1
  <2>3. ToSet(one) = {note} /\ IsInjective(one)
    BY <2>1, <2>2, ElementsOf
  <2> QED
    BY <2>1, <2>3 DEF one
<1>3. <<>> \in Seq(Note) /\ ToSet(<<>>) = {} /\ IsInjective(<<>>)
  BY OfNothing
<1>4. /\ Failed(part) \in Seq(Note) /\ IsInjective(Failed(part))
      /\ ToSet(Failed(part)) = IF part \in failing THEN {failed} ELSE {}
  <2>1. Failed(part) = IF part \in failing THEN <<failed>> ELSE <<>>
    BY DEF Failed, failed
  <2> QED
    BY <1>1, <1>2, <1>3, <2>1
<1>5. /\ Unavailable(part) \in Seq(Note) /\ IsInjective(Unavailable(part))
      /\ ToSet(Unavailable(part)) = IF Offline THEN {offline} ELSE {}
  <2>1. Unavailable(part) = IF Offline THEN <<offline>> ELSE <<>>
    BY DEF Unavailable, offline
  <2> QED
    BY <1>1, <1>2, <1>3, <2>1
<1>6. ToSet(Failed(part)) \cap ToSet(Unavailable(part)) = {}
  BY <1>1, <1>4, <1>5
<1>7. /\ Failed(part) \o Unavailable(part) \in Seq(Note)
      /\ ToSet(Failed(part) \o Unavailable(part)) = ToSet(Failed(part)) \cup ToSet(Unavailable(part))
      /\ IsInjective(Failed(part) \o Unavailable(part))
  BY <1>4, <1>5, <1>6, Concatenated
<1>8. Failures({part}) = IF part \in failing THEN {failed} ELSE {}
  BY DEF Failures, failed
<1>9. Answer(part) = Nothing => part \in failing
  BY DEF Answer, Nothing, Versions
<1> QED
  BY <1>4, <1>5, <1>7, <1>8, <1>9 DEF failed, offline

(* Each detail that cannot be read is in the failures, in whatever order. *)
LEMMA FailuresNoted ==
    ASSUME NEW parts \in SUBSET Part, IsFiniteSet(parts), NEW note \in DetailFailures(parts)
    PROVE  /\ note \in Seq(Note) /\ IsInjective(note)
           /\ ToSet(note) = Failures(parts)
           /\ \A part \in parts \cap failing : <<part, "failed">> \in ToSet(note)
<1> DEFINE all == parts \cap failing
<1> DEFINE n == Cardinality(all)
<1> DEFINE places == 1..n
<1>1. IsFiniteSet(all) /\ n \in Nat
  BY FS_Subset, FS_CardinalityType
<1>2. IsFiniteSet(places) /\ Cardinality(places) = n
  BY <1>1, FS_Interval
<1> HIDE DEF all
<1>3. PICK order \in [places -> all] :
         /\ \A i, j \in places : i # j => order[i] # order[j]
         /\ note = [i \in 1..Len(order) |-> <<order[i], "failed">>]
  BY DEF DetailFailures, SetToSeqs, all
<1> HIDE DEF n
<1>4. Len(order) = n /\ order \in Seq(all)
  BY <1>1, <1>3
<1>5. order \in Surjection(places, all)
  <2>1. order \in Injection(places, all)
    BY <1>3 DEF Injection, IsInjective
  <2> HIDE DEF places
  <2> QED
    BY <1>1, <1>2, <2>1, FS_Injection DEF n
<1>6. \A part \in all : \E i \in places : order[i] = part
  BY <1>5 DEF Surjection
<1>7. \A i \in places : <<order[i], "failed">> \in Note /\ note[i] = <<order[i], "failed">>
  <2>1. \A i \in places : order[i] \in Part
    BY <1>3 DEF all
  <2> QED
    BY <1>3, <1>4, <2>1 DEF Note
<1>8. note \in Seq(Note) /\ Len(note) = n
  <2>1. note \in [1..n -> Note]
    BY <1>3, <1>4, <1>7
  <2> QED
    BY <1>1, <2>1
<1>9. ASSUME NEW part \in all PROVE <<part, "failed">> \in ToSet(note)
  <2>1. PICK i \in places : order[i] = part
    BY <1>6
  <2>2. note[i] = <<part, "failed">>
    BY <1>7, <2>1
  <2>3. note[i] \in ToSet(note)
    BY <1>8, ElementsOf
  <2> QED
    BY <2>2, <2>3
<1>10. IsInjective(note)
  <2>1. ASSUME NEW i \in places, NEW j \in places, note[i] = note[j] PROVE order[i] = order[j]
    <3>1. <<order[i], "failed">> = <<order[j], "failed">>
      BY <1>7, <2>1
    <3> QED
      BY <3>1
  <2>2. \A i, j \in places : note[i] = note[j] => i = j
    BY <1>3, <2>1
  <2> QED
    BY <1>8, <2>2, ElementsOf DEF places
<1>11. ToSet(note) \subseteq {<<part, "failed">> : part \in all}
  <2>1. \A i \in places : note[i] \in {<<part, "failed">> : part \in all}
    BY <1>3, <1>7
  <2> QED
    BY <1>8, <2>1, ElementsOf DEF places
<1>12. ToSet(note) = Failures(parts)
  BY <1>9, <1>11 DEF Failures, all
<1> QED
  BY <1>8, <1>9, <1>10, <1>12 DEF all

-----------------------------------------------------------------------------
(* A command of a read that has answered: its step is done and noted. *)
LEMMA CommandDone ==
    ASSUME FreshInv, NotedInv, NEW step \in NoteField, NEW note \in Seq(Note), Doing(step),
           read'.todo = Tail(read.todo), read'.kind = read.kind, read'.reused = read.reused,
           read'.notes = [read.notes EXCEPT ![step] = @ \o note], read'.names \subseteq Policy,
           UNCHANGED <<heavy, definitions, shown, observed>>
    PROVE  /\ \A other : Ahead(other) /\ other # step => Ahead(other)'
           /\ \A other : Ahead(other)' => Ahead(other)
           /\ \A field \in NoteField : \A part : Noted(field, part) => Noted(field, part)'
           /\ \A part : <<part, "failed">> \in ToSet(note) => Noted(step, part)'
           /\ read.kind # "None" /\ Ahead(step)
           /\ NotesOK' /\ RewritesLast' /\ CacheNoted' /\ MissingIsReported'
<1>1. /\ read'.todo \in Seq(Step)
      /\ \A other : Ahead(other) /\ other # step => Ahead(other)'
      /\ \A other : Ahead(other)' => Ahead(other)
  BY StepDone DEF FreshInv
<1>2. /\ read'.notes \in [NoteField -> Seq(Note)]
      /\ \A field \in NoteField : \A part : Noted(field, part) => Noted(field, part)'
      /\ \A part : <<part, "failed">> \in ToSet(note) => Noted(step, part)'
  BY NoteTaken DEF NotedInv
<1>3. read.todo \in Seq(Step) /\ read.todo # <<>> /\ Head(read.todo) = step
  BY DEF FreshInv, ReadOK, Doing, Next1
<1>4. read.kind # "None" /\ Ahead(step)
  BY <1>3 DEF NotedInv, StepsFollow, Ahead
<1>5. RewritesLast'
  <2>1. /\ \A i \in DOMAIN read'.todo : i + 1 \in DOMAIN read.todo /\ read'.todo[i] = read.todo[i + 1]
        /\ Len(read'.todo) = Len(read.todo) - 1
        /\ DOMAIN read'.todo \subseteq Int /\ Len(read.todo) \in Int
    BY <1>1, <1>3, TailKeeps
  <2>2. \A i \in DOMAIN read'.todo : i # Len(read'.todo) => i + 1 # Len(read.todo)
    BY <2>1
  <2> QED
    BY <2>1, <2>2 DEF NotedInv, RewritesLast
<1>6. NotesOK'
  BY <1>2 DEF NotedInv, NotesOK
<1>7. CacheNoted' /\ MissingIsReported'
  BY DEF NotedInv, CacheNoted, MissingIsReported, Reported
<1> QED
  BY <1>1, <1>2, <1>4, <1>5, <1>6, <1>7

LEMMA ReadZonesNoted == FreshInv /\ NotedInv /\ ReadZones => NotedInv'
<1> SUFFICES ASSUME FreshInv, NotedInv, ReadZones PROVE NotedInv'
  OBVIOUS
<1> DEFINE note == Failed("Zones") \o Unavailable("Zones")
<1>1. note \in Seq(Note)
  BY AnswerNoted, PartsNamed DEF FreshInv
<1>2. /\ read'.todo = Tail(read.todo) /\ read'.kind = read.kind /\ read'.reused = read.reused
      /\ read'.notes = [read.notes EXCEPT !["Zones"] = @ \o note]
      /\ read'.zones = firewalld["Zones"]
      /\ \A field \in {"services", "ipsets", "direct", "names", "fetched", "queue"} :
            read'[field] = read[field]
  BY DEF ReadZones, Done, FreshInv, ReadOK, Fields
<1> HIDE DEF note
<1>3. UNCHANGED <<heavy, definitions, shown, observed, firewalld>> /\ Doing("Zones")
  BY DEF ReadZones, caches, outcome
<1>4. read'.names \subseteq Policy
  BY <1>2 DEF NotedInv, NotesOK
<1>5. /\ \A other : Ahead(other) /\ other # "Zones" => Ahead(other)'
      /\ \A other : Ahead(other)' => Ahead(other)
      /\ \A field \in NoteField : \A part : Noted(field, part) => Noted(field, part)'
      /\ read.kind # "None" /\ Ahead("Zones")
      /\ NotesOK' /\ RewritesLast' /\ CacheNoted' /\ MissingIsReported'
  <2>1. "Zones" \in NoteField
    BY DEF NoteField
  <2> QED
    BY <1>1, <1>2, <1>3, <1>4, <2>1, CommandDone
<1>6. Ahead("Heavy")'
  BY <1>5 DEF NotedInv, StepsFollow
<1>7. firewalld["Zones"] \in 0..MaxChanges
  BY PartsNamed, ReadAssumption DEF FreshInv, Versions, Bounded
<1>8. StepsFollow'
  BY <1>2, <1>3, <1>5, <1>6, <1>7 DEF NotedInv, StepsFollow, Staged
<1>9. ServicesNoted'
  BY <1>2, <1>5, <1>6 DEF NotedInv, ServicesNoted, NoteField
<1>10. IpSetsNoted' /\ DirectNoted' /\ DefinitionsNoted'
  BY <1>6 DEF IpSetsNoted, DirectNoted, DefinitionsNoted
<1> QED
  BY <1>5, <1>8, <1>9, <1>10 DEF NotedInv

(* A command other than that of the zones leaves alone what it does not read. *)
LEMMA CommandKeeps ==
    ASSUME FreshInv, NotedInv, NEW step \in NoteField, NEW note \in Seq(Note), Doing(step),
           read'.todo = Tail(read.todo), read'.kind = read.kind, read'.reused = read.reused,
           read'.notes = [read.notes EXCEPT ![step] = @ \o note], read'.names \subseteq Policy,
           UNCHANGED <<heavy, definitions, shown, observed>>,
           step # "Zones", read'.zones = read.zones, read'.queue = read.queue
    PROVE  /\ StepsFollow'
           /\ step # "Services" /\ read'.services = read.services => ServicesNoted'
           /\ step # "IpSets" /\ read'.ipsets = read.ipsets => IpSetsNoted'
           /\ step # "DirectRules" /\ read'.direct = read.direct => DirectNoted'
           /\ step # "Definitions" /\ read'.fetched = read.fetched
                => DefinitionsNoted'
<1>1. /\ \A other : Ahead(other) /\ other # step => Ahead(other)'
      /\ \A other : Ahead(other)' => Ahead(other)
      /\ \A field \in NoteField : \A part : Noted(field, part) => Noted(field, part)'
      /\ read.kind # "None" /\ Ahead(step)
  BY CommandDone
<1>2. step \notin {"Heavy", "Queue", "Details"}
  BY DEF NoteField
<1>3. {"Services", "IpSets", "DirectRules", "Definitions"} \subseteq NoteField
  BY DEF NoteField
<1>4. StepsFollow'
  BY <1>1, <1>2 DEF NotedInv, StepsFollow, Staged
<1>5. step # "Services" /\ read'.services = read.services => ServicesNoted'
  BY <1>1, <1>2, <1>3 DEF NotedInv, ServicesNoted
<1>6. step # "IpSets" /\ read'.ipsets = read.ipsets => IpSetsNoted'
  BY <1>1, <1>2, <1>3 DEF NotedInv, IpSetsNoted
<1>7. step # "DirectRules" /\ read'.direct = read.direct => DirectNoted'
  BY <1>1, <1>2, <1>3 DEF NotedInv, DirectNoted
<1>8. ASSUME step # "Definitions", read'.fetched = read.fetched
      PROVE  DefinitionsNoted'
  <2>1. MissingDefinitions' = MissingDefinitions
    BY DEF MissingDefinitions
  <2> HIDE DEF MissingDefinitions
  <2> QED
    BY <1>1, <1>2, <1>3, <1>8, <2>1 DEF NotedInv, DefinitionsNoted
<1> QED
  BY <1>4, <1>5, <1>6, <1>7, <1>8

LEMMA ReadServicesNoted == FreshInv /\ NotedInv /\ ReadServices => NotedInv'
<1> SUFFICES ASSUME FreshInv, NotedInv, ReadServices PROVE NotedInv'
  OBVIOUS
<1> DEFINE note == Failed("Services")
<1>1. note \in Seq(Note) /\ (Answer("Services") = Nothing => <<"Services", "failed">> \in ToSet(note))
  BY AnswerNoted, PartsNamed DEF FreshInv
<1>2. /\ read'.todo = Tail(read.todo) /\ read'.kind = read.kind /\ read'.reused = read.reused
      /\ read'.notes = [read.notes EXCEPT !["Services"] = @ \o note]
      /\ read'.services = Answer("Services")
      /\ \A field \in {"zones", "ipsets", "direct", "names", "fetched", "queue"} :
            read'[field] = read[field]
  BY DEF ReadServices, Done, FreshInv, ReadOK, Fields
<1> HIDE DEF note
<1>3. UNCHANGED <<heavy, definitions, shown, observed>> /\ Doing("Services") /\ "Services" \in NoteField
  BY DEF ReadServices, caches, outcome, NoteField
<1>4. read'.names \subseteq Policy
  BY <1>2 DEF NotedInv, NotesOK
<1>5. /\ NotesOK' /\ RewritesLast' /\ CacheNoted' /\ MissingIsReported'
      /\ \A part : <<part, "failed">> \in ToSet(note) => Noted("Services", part)'
  BY <1>1, <1>2, <1>3, <1>4, CommandDone
<1>6. StepsFollow' /\ IpSetsNoted' /\ DirectNoted' /\ DefinitionsNoted'
  BY <1>1, <1>2, <1>3, <1>4, CommandKeeps
<1>7. ServicesNoted'
  BY <1>1, <1>2, <1>5 DEF ServicesNoted
<1> QED
  BY <1>5, <1>6, <1>7 DEF NotedInv

LEMMA ReadIpSetsNoted == FreshInv /\ NotedInv /\ ReadIpSets => NotedInv'
<1> SUFFICES ASSUME FreshInv, NotedInv, ReadIpSets PROVE NotedInv'
  OBVIOUS
<1> DEFINE note == Failed("IpSets") \o Unavailable("IpSets")
<1>1. note \in Seq(Note) /\ (Answer("IpSets") = Nothing => <<"IpSets", "failed">> \in ToSet(note))
  BY AnswerNoted, PartsNamed DEF FreshInv
<1>2. /\ read'.todo = Tail(read.todo) /\ read'.kind = read.kind /\ read'.reused = read.reused
      /\ read'.notes = [read.notes EXCEPT !["IpSets"] = @ \o note]
      /\ read'.ipsets = Answer("IpSets")
      /\ \A field \in {"zones", "services", "direct", "names", "fetched", "queue"} :
            read'[field] = read[field]
  BY DEF ReadIpSets, Done, FreshInv, ReadOK, Fields
<1> HIDE DEF note
<1>3. UNCHANGED <<heavy, definitions, shown, observed>> /\ Doing("IpSets") /\ "IpSets" \in NoteField
  BY DEF ReadIpSets, caches, outcome, NoteField
<1>4. read'.names \subseteq Policy
  BY <1>2 DEF NotedInv, NotesOK
<1>5. /\ NotesOK' /\ RewritesLast' /\ CacheNoted' /\ MissingIsReported'
      /\ \A part : <<part, "failed">> \in ToSet(note) => Noted("IpSets", part)'
  BY <1>1, <1>2, <1>3, <1>4, CommandDone
<1>6. StepsFollow' /\ ServicesNoted' /\ DirectNoted' /\ DefinitionsNoted'
  BY <1>1, <1>2, <1>3, <1>4, CommandKeeps
<1>7. IpSetsNoted'
  BY <1>1, <1>2, <1>5 DEF IpSetsNoted
<1> QED
  BY <1>5, <1>6, <1>7 DEF NotedInv

LEMMA ReadDirectRulesNoted == FreshInv /\ NotedInv /\ ReadDirectRules => NotedInv'
<1> SUFFICES ASSUME FreshInv, NotedInv, ReadDirectRules PROVE NotedInv'
  OBVIOUS
<1> DEFINE note == Failed("DirectRules")
<1>1. note \in Seq(Note) /\ (Answer("DirectRules") = Nothing => <<"DirectRules", "failed">> \in ToSet(note))
  BY AnswerNoted, PartsNamed DEF FreshInv
<1>2. /\ read'.todo = Tail(read.todo) /\ read'.kind = read.kind /\ read'.reused = read.reused
      /\ read'.notes = [read.notes EXCEPT !["DirectRules"] = @ \o note]
      /\ read'.direct = Answer("DirectRules")
      /\ \A field \in {"zones", "services", "ipsets", "names", "fetched", "queue"} :
            read'[field] = read[field]
  BY DEF ReadDirectRules, Done, FreshInv, ReadOK, Fields
<1> HIDE DEF note
<1>3. UNCHANGED <<heavy, definitions, shown, observed>> /\ Doing("DirectRules") /\ "DirectRules" \in NoteField
  BY DEF ReadDirectRules, caches, outcome, NoteField
<1>4. read'.names \subseteq Policy
  BY <1>2 DEF NotedInv, NotesOK
<1>5. /\ NotesOK' /\ RewritesLast' /\ CacheNoted' /\ MissingIsReported'
      /\ \A part : <<part, "failed">> \in ToSet(note) => Noted("DirectRules", part)'
  BY <1>1, <1>2, <1>3, <1>4, CommandDone
<1>6. StepsFollow' /\ ServicesNoted' /\ IpSetsNoted' /\ DefinitionsNoted'
  BY <1>1, <1>2, <1>3, <1>4, CommandKeeps
<1>7. DirectNoted'
  BY <1>1, <1>2, <1>5 DEF DirectNoted
<1> QED
  BY <1>5, <1>6, <1>7 DEF NotedInv

LEMMA ReadPolicyNamesNoted == FreshInv /\ NotedInv /\ ReadPolicyNames => NotedInv'
<1> SUFFICES ASSUME FreshInv, NotedInv, ReadPolicyNames PROVE NotedInv'
  OBVIOUS
<1> DEFINE note == Failed("PolicyNames") \o Unavailable("PolicyNames")
<1>1. note \in Seq(Note)
  BY AnswerNoted, PartsNamed DEF FreshInv
<1>2. /\ read'.todo = Tail(read.todo) /\ read'.kind = read.kind /\ read'.reused = read.reused
      /\ read'.notes = [read.notes EXCEPT !["PolicyNames"] = @ \o note]
      /\ read'.names \in {{}, Listed[firewalld["PolicyNames"]]}
      /\ \A field \in {"zones", "services", "ipsets", "direct", "fetched", "queue"} :
            read'[field] = read[field]
  BY DEF ReadPolicyNames, Done, FreshInv, ReadOK, Fields
<1> HIDE DEF note
<1>3. /\ UNCHANGED <<heavy, definitions, shown, observed>>
      /\ Doing("PolicyNames") /\ "PolicyNames" \in NoteField
  BY DEF ReadPolicyNames, caches, outcome, NoteField
<1>4. read'.names \subseteq Policy
  <2>1. firewalld["PolicyNames"] \in 0..MaxChanges
    BY PartsNamed, ReadAssumption DEF FreshInv, Versions, Bounded
  <2> QED
    BY <1>2, <2>1, ReadAssumption
<1>5. NotesOK' /\ RewritesLast' /\ CacheNoted' /\ MissingIsReported'
  BY <1>1, <1>2, <1>3, <1>4, CommandDone
<1>6. StepsFollow' /\ ServicesNoted' /\ IpSetsNoted' /\ DirectNoted' /\ DefinitionsNoted'
  BY <1>1, <1>2, <1>3, <1>4, CommandKeeps
<1> QED
  BY <1>5, <1>6 DEF NotedInv

LEMMA ReadPoliciesNoted == FreshInv /\ NotedInv /\ ReadPolicies => NotedInv'
<1> SUFFICES ASSUME FreshInv, NotedInv, ReadPolicies PROVE NotedInv'
  OBVIOUS
<1>1. PICK note \in DetailFailures(read.names) :
         read' = [Done("Policies", note) EXCEPT !.policies = Details(read.names)]
  BY DEF ReadPolicies
<1>2. note \in Seq(Note)
  <2>1. read.names \in SUBSET Part /\ IsFiniteSet(read.names)
    BY PartsNamed, ReadAssumption, FS_Subset DEF NotedInv, NotesOK
  <2> QED
    BY <2>1, FailuresNoted
<1>3. /\ read'.todo = Tail(read.todo) /\ read'.kind = read.kind /\ read'.reused = read.reused
      /\ read'.notes = [read.notes EXCEPT !["Policies"] = @ \o note]
      /\ \A field \in {"zones", "services", "ipsets", "direct", "names", "fetched", "queue"} :
            read'[field] = read[field]
  BY <1>1 DEF Done, FreshInv, ReadOK, Fields
<1>4. /\ UNCHANGED <<heavy, definitions, shown, observed>>
      /\ Doing("Policies") /\ "Policies" \in NoteField
  BY DEF ReadPolicies, caches, outcome, NoteField
<1>5. read'.names \subseteq Policy
  BY <1>3 DEF NotedInv, NotesOK
<1>6. NotesOK' /\ RewritesLast' /\ CacheNoted' /\ MissingIsReported'
  BY <1>2, <1>3, <1>4, <1>5, CommandDone
<1>7. StepsFollow' /\ ServicesNoted' /\ IpSetsNoted' /\ DirectNoted' /\ DefinitionsNoted'
  BY <1>2, <1>3, <1>4, <1>5, CommandKeeps
<1> QED
  BY <1>6, <1>7 DEF NotedInv

(* The services that are not cached are services, once the zones are read. *)
LEMMA MissingAreServices ==
    ASSUME NotedInv, read.kind # "None", ~Ahead("Zones")
    PROVE  /\ Referenced[read.zones] \subseteq Service
           /\ MissingDefinitions \in SUBSET Part /\ IsFiniteSet(MissingDefinitions)
<1>1. read.zones \in 0..MaxChanges
  BY DEF NotedInv, StepsFollow
<1>2. Referenced[read.zones] \subseteq Service
  BY <1>1, ReadAssumption
<1>3. MissingDefinitions \subseteq Service
  BY <1>2 DEF MissingDefinitions
<1> QED
  BY <1>2, <1>3, ReadAssumption, FS_Subset DEF Part

(* The definitions are read by name when the zones are known. *)
LEMMA ZonesBeforeDefinitions ==
    ASSUME FreshInv, NotedInv, Doing("Definitions")
    PROVE  read.kind # "None" /\ ~Ahead("Zones")
<1>1. read.todo \in Seq(Step) /\ read.todo # <<>> /\ read.todo[1] = "Definitions"
  BY DEF FreshInv, ReadOK, Doing, Next1
<1>2. Ahead("Definitions") /\ 1 \in DOMAIN read.todo
  BY <1>1 DEF Ahead
<1>3. read.kind = "Fresh"
  BY <1>1, <1>2 DEF NotedInv, StepsFollow, FreshInv, ReadOK, Staged
<1>4. \A j \in DOMAIN read.todo : j # 1 => Place["Definitions"] < Place[read.todo[j]]
  BY <1>1, <1>2, <1>3 DEF FreshInv, InOrder
<1>5. Place["Definitions"] = 8 /\ Place["Zones"] = 1
  BY DEF Place
<1>6. ~Ahead("Zones")
  BY <1>1, <1>4, <1>5 DEF Ahead
<1> QED
  BY <1>3, <1>6

LEMMA ReadDefinitionsNoted == FreshInv /\ NotedInv /\ ReadDefinitions => NotedInv'
<1> SUFFICES ASSUME FreshInv, NotedInv, ReadDefinitions PROVE NotedInv'
  OBVIOUS
<1>1. PICK note \in DetailFailures(MissingDefinitions) :
         read' = [Done("Definitions", note) EXCEPT !.fetched = Details(MissingDefinitions)]
  BY DEF ReadDefinitions
<1>2. /\ UNCHANGED <<heavy, definitions, shown, observed>>
      /\ Doing("Definitions") /\ "Definitions" \in NoteField
  BY DEF ReadDefinitions, caches, outcome, NoteField
<1>3. /\ note \in Seq(Note)
      /\ \A part \in MissingDefinitions \cap failing : <<part, "failed">> \in ToSet(note)
  <2>1. read.kind # "None" /\ ~Ahead("Zones")
    BY <1>2, ZonesBeforeDefinitions
  <2> QED
    BY <2>1, MissingAreServices, FailuresNoted
<1>4. /\ read'.todo = Tail(read.todo) /\ read'.kind = read.kind /\ read'.reused = read.reused
      /\ read'.notes = [read.notes EXCEPT !["Definitions"] = @ \o note]
      /\ read'.fetched = Details(MissingDefinitions)
      /\ \A field \in {"zones", "services", "ipsets", "direct", "names", "queue"} :
            read'[field] = read[field]
  BY <1>1 DEF Done, FreshInv, ReadOK, Fields
<1>5. read'.names \subseteq Policy
  BY <1>4 DEF NotedInv, NotesOK
<1>6. /\ NotesOK' /\ RewritesLast' /\ CacheNoted' /\ MissingIsReported'
      /\ \A part : <<part, "failed">> \in ToSet(note) => Noted("Definitions", part)'
  BY <1>2, <1>3, <1>4, <1>5, CommandDone
<1>7. StepsFollow' /\ ServicesNoted' /\ IpSetsNoted' /\ DirectNoted'
  BY <1>2, <1>3, <1>4, <1>5, CommandKeeps
<1>8. DefinitionsNoted'
  <2>1. MissingDefinitions' = MissingDefinitions
    BY <1>2, <1>4 DEF MissingDefinitions
  <2>2. DOMAIN read'.fetched = MissingDefinitions \ failing
    BY <1>4 DEF Details
  <2> QED
    BY <1>3, <1>6, <2>1, <2>2 DEF DefinitionsNoted
<1> QED
  BY <1>6, <1>7, <1>8 DEF NotedInv

-----------------------------------------------------------------------------
(* What replaces all that is to be done finds nothing else to do. *)
LEMMA Alone ==
    ASSUME FreshInv, NotedInv, NEW step \in {"Heavy", "Queue", "Details"}, Doing(step)
    PROVE  /\ \A other : Ahead(other) <=> other = step
           /\ read.kind # "None" /\ read.zones \in 0..MaxChanges
<1>1. read.todo \in Seq(Step) /\ read.todo # <<>> /\ read.todo[1] = step
  BY DEF FreshInv, ReadOK, Doing, Next1
<1>2. 1 = Len(read.todo)
  <2>1. 1 \in DOMAIN read.todo /\ read.todo[1] \in {"Heavy", "Queue", "Details"}
    BY <1>1
  <2> QED
    BY <2>1 DEF NotedInv, RewritesLast
<1>3. \A other : Ahead(other) <=> other = step
  BY <1>1, <1>2 DEF Ahead
<1> QED
  BY <1>1, <1>3 DEF NotedInv, StepsFollow

LEMMA DecideHeavyNoted == FreshInv /\ NotedInv /\ DecideHeavy => NotedInv'
<1> SUFFICES ASSUME FreshInv, NotedInv, DecideHeavy PROVE NotedInv'
  OBVIOUS
<1>1. /\ \A other : Ahead(other) <=> other = "Heavy"
      /\ read.kind # "None" /\ read.zones \in 0..MaxChanges
  BY Alone DEF DecideHeavy
<1>2. /\ read'.kind = read.kind /\ read'.reused = Young
      /\ read'.todo = (IF Young THEN AfterReuse ELSE AfterFetch)
      /\ \A field \in {"zones", "services", "ipsets", "direct", "names", "fetched", "queue", "notes"} :
            read'[field] = read[field]
  BY DEF DecideHeavy, FreshInv, ReadOK, Fields
<1>3. /\ UNCHANGED <<definitions, shown, observed>>
      /\ heavy' = IF Young THEN [heavy EXCEPT !.age = @ + 1] ELSE heavy
  BY DEF DecideHeavy, outcome
<1>4. /\ heavy'.ipsets = heavy.ipsets /\ heavy'.direct = heavy.direct
      /\ heavy'.degraded = heavy.degraded
      /\ heavy'.age # 0 => heavy.age # 0
      /\ Young => heavy'.age # 0
  BY <1>3, ReadAssumption DEF FreshInv, ReadOK, Young
<1>5. /\ Young /\ Staged => read'.todo = <<"Queue">>
      /\ Young /\ ~Staged => read'.todo = <<"Services", "Definitions">>
      /\ ~Young /\ Staged => read'.todo = <<"IpSets", "DirectRules", "Queue">>
      /\ ~Young /\ ~Staged =>
            read'.todo = <<"IpSets", "DirectRules", "Services", "PolicyNames", "Policies", "Definitions">>
  BY <1>2 DEF AfterReuse, AfterFetch
<1> HIDE DEF Young
<1>6. /\ ~Ahead("Zones")' /\ ~Ahead("Details")' /\ (Staged => ~Ahead("Definitions")')
      /\ RewritesLast'
      /\ Staged => Ahead("Queue")'
      /\ ~Staged => Ahead("Services")' /\ Ahead("Definitions")'
      /\ ~Young => Ahead("IpSets")' /\ Ahead("DirectRules")'
  <2>1. CASE Young /\ Staged
    <3>1. read'.todo[1] = "Queue" /\ DOMAIN read'.todo = 1..1 /\ Len(read'.todo) = 1
      BY <1>5, <2>1
    <3>2. \A i \in DOMAIN read'.todo : i = 1
      BY <3>1
    <3> QED
      BY <2>1, <3>1, <3>2 DEF Ahead, RewritesLast
  <2>2. CASE Young /\ ~Staged
    BY <1>5, <2>2 DEF Ahead, RewritesLast
  <2>3. CASE ~Young /\ Staged
    <3>1. /\ read'.todo[1] = "IpSets" /\ read'.todo[2] = "DirectRules" /\ read'.todo[3] = "Queue"
          /\ DOMAIN read'.todo = 1..3 /\ Len(read'.todo) = 3
      BY <1>5, <2>3
    <3>2. \A i \in DOMAIN read'.todo : i = 1 \/ i = 2 \/ i = 3
      BY <3>1
    <3> QED
      BY <2>3, <3>1, <3>2 DEF Ahead, RewritesLast
  <2>4. CASE ~Young /\ ~Staged
    <3>1. /\ read'.todo[1] = "IpSets" /\ read'.todo[2] = "DirectRules" /\ read'.todo[3] = "Services"
          /\ read'.todo[4] = "PolicyNames" /\ read'.todo[5] = "Policies"
          /\ read'.todo[6] = "Definitions" /\ DOMAIN read'.todo = 1..6
      BY <1>5, <2>4
    <3> QED
      BY <2>4, <3>1 DEF Ahead, RewritesLast
  <2> QED
    BY <2>1, <2>2, <2>3, <2>4
<1>7. NotesOK'
  BY <1>2, <1>4 DEF NotedInv, NotesOK
<1>8. StepsFollow'
  BY <1>1, <1>2, <1>4, <1>6 DEF NotedInv, StepsFollow, Staged
<1>9. ServicesNoted'
  <2>1. CASE Staged
    BY <1>1, <1>2, <2>1 DEF NotedInv, ServicesNoted, Staged, Noted
  <2> QED
    BY <1>6, <2>1 DEF ServicesNoted
<1>10. IpSetsNoted' /\ DirectNoted'
  BY <1>2, <1>6 DEF IpSetsNoted, DirectNoted
<1>11. DefinitionsNoted'
  BY <1>6 DEF DefinitionsNoted
<1>12. CacheNoted' /\ MissingIsReported'
  BY <1>3, <1>4 DEF NotedInv, CacheNoted, MissingIsReported, Reported
<1> QED
  BY <1>6, <1>7, <1>8, <1>9, <1>10, <1>11, <1>12 DEF NotedInv

(* The steps of a staged read that fetch details, what is fetched apart. *)
LEMMA DetailStep ==
    ASSUME FreshInv, NotedInv, NEW step \in {"Queue", "Details"}, Doing(step),
           read'.kind = read.kind, read'.reused = read.reused,
           read'.todo \in {<<"Details">>, read.todo, <<>>},
           step = "Queue" => read'.todo = <<"Details">>,
           \A field \in {"zones", "services", "ipsets", "direct", "names"} :
              read'[field] = read[field],
           read'.notes \in [NoteField -> Seq(Note)],
           \A field \in NoteField : \A part : Noted(field, part) => Noted(field, part)',
           UNCHANGED <<heavy, definitions, shown, observed>>,
           read'.todo # <<>> \/ read'.queue = {}
    PROVE  /\ NotesOK' /\ RewritesLast' /\ StepsFollow' /\ ServicesNoted' /\ IpSetsNoted'
           /\ DirectNoted' /\ CacheNoted' /\ MissingIsReported'
<1>1. /\ \A other : Ahead(other) <=> other = step
      /\ read.kind # "None" /\ read.zones \in 0..MaxChanges
  BY Alone
<1>2. CASE read'.todo = <<"Details">> \/ read'.todo = <<>>
  <2>1. \A other : Ahead(other)' => other = "Details"
    BY <1>2 DEF Ahead
  <2>2. RewritesLast'
    <3>1. \A i \in DOMAIN read'.todo : i = Len(read'.todo)
      <4>1. CASE read'.todo = <<>>
        BY <4>1
      <4>2. CASE read'.todo = <<"Details">>
        <5>1. DOMAIN read'.todo = 1..1 /\ Len(read'.todo) = 1
          BY <4>2
        <5> QED
          BY <5>1
      <4> QED
        BY <1>2, <4>1, <4>2
    <3> QED
      BY <3>1 DEF RewritesLast
  <2>3. Ahead("Details")' \/ read'.queue = {}
    BY <1>2 DEF Ahead
  <2>4. NotesOK' /\ CacheNoted' /\ MissingIsReported'
    BY DEF NotedInv, NotesOK, CacheNoted, MissingIsReported, Reported
  <2>5. StepsFollow'
    BY <1>1, <2>1, <2>3 DEF NotedInv, StepsFollow, Staged
  <2>6. ServicesNoted' /\ IpSetsNoted' /\ DirectNoted'
    BY <1>1 DEF NotedInv, ServicesNoted, IpSetsNoted, DirectNoted, NoteField
  <2> QED
    BY <2>2, <2>4, <2>5, <2>6
<1>3. CASE read'.todo = read.todo
  <2>1. /\ \A other : Ahead(other)' <=> Ahead(other)
        /\ RewritesLast'
    BY <1>3 DEF Ahead, NotedInv, RewritesLast
  <2>2. step = "Details"
    <3>1. CASE step = "Queue"
      <4>1. read.todo = <<"Details">> /\ read.todo[1] = "Details"
        BY <1>3, <3>1
      <4>2. Ahead("Details")
        BY <4>1 DEF Ahead
      <4> QED
        BY <1>1, <3>1, <4>2
    <3> QED
      BY <3>1
  <2>3. NotesOK' /\ CacheNoted' /\ MissingIsReported'
    BY DEF NotedInv, NotesOK, CacheNoted, MissingIsReported, Reported
  <2>4. StepsFollow'
    BY <1>1, <2>1, <2>2 DEF NotedInv, StepsFollow, Staged
  <2>5. ServicesNoted' /\ IpSetsNoted' /\ DirectNoted'
    BY <1>1 DEF NotedInv, ServicesNoted, IpSetsNoted, DirectNoted, NoteField
  <2> QED
    BY <2>1, <2>3, <2>4, <2>5
<1> QED
  BY <1>2, <1>3

LEMMA QueueDetailsNoted == FreshInv /\ NotedInv /\ QueueDetails => NotedInv'
<1> SUFFICES ASSUME FreshInv, NotedInv, QueueDetails PROVE NotedInv'
  OBVIOUS
<1>1. /\ read'.kind = read.kind /\ read'.reused = read.reused /\ read'.todo = <<"Details">>
      /\ \A field \in {"zones", "services", "ipsets", "direct", "names", "fetched", "notes"} :
            read'[field] = read[field]
      /\ MissingDefinitions \subseteq read'.queue
  BY DEF QueueDetails, FreshInv, ReadOK, Fields
<1>2. UNCHANGED <<heavy, definitions, shown, observed>> /\ Doing("Queue")
  BY DEF QueueDetails, caches, outcome
<1>3. /\ read'.notes \in [NoteField -> Seq(Note)]
      /\ \A field \in NoteField : \A part : Noted(field, part) => Noted(field, part)'
  BY <1>1 DEF NotedInv, NotesOK, Noted
<1>4. read'.todo # <<>>
  BY <1>1
<1>5. /\ NotesOK' /\ RewritesLast' /\ StepsFollow' /\ ServicesNoted' /\ IpSetsNoted'
      /\ DirectNoted' /\ CacheNoted' /\ MissingIsReported'
  BY <1>1, <1>2, <1>3, <1>4, DetailStep
<1>6. DefinitionsNoted'
  BY <1>1, <1>2 DEF DefinitionsNoted, MissingDefinitions
<1> QED
  BY <1>5, <1>6 DEF NotedInv

LEMMA EndDetailsNoted == FreshInv /\ NotedInv /\ EndDetails => NotedInv'
<1> SUFFICES ASSUME FreshInv, NotedInv, EndDetails PROVE NotedInv'
  OBVIOUS
<1>1. /\ read'.kind = read.kind /\ read'.reused = read.reused /\ read'.todo = <<>>
      /\ \A field \in {"zones", "services", "ipsets", "direct", "names", "fetched", "queue", "notes"} :
            read'[field] = read[field]
      /\ read.queue = {}
  BY DEF EndDetails, FreshInv, ReadOK, Fields
<1>2. UNCHANGED <<heavy, definitions, shown, observed>> /\ Doing("Details")
  BY DEF EndDetails, caches, outcome
<1>3. /\ read'.notes \in [NoteField -> Seq(Note)]
      /\ \A field \in NoteField : \A part : Noted(field, part) => Noted(field, part)'
  BY <1>1 DEF NotedInv, NotesOK, Noted
<1>4. /\ NotesOK' /\ RewritesLast' /\ StepsFollow' /\ ServicesNoted' /\ IpSetsNoted'
      /\ DirectNoted' /\ CacheNoted' /\ MissingIsReported'
  BY <1>1, <1>2, <1>3, DetailStep
<1>5. \A other : Ahead(other) <=> other = "Details"
  BY <1>2, Alone
<1>6. MissingDefinitions' = MissingDefinitions
  BY <1>1, <1>2 DEF MissingDefinitions
<1>7. DefinitionsNoted'
  <2> HIDE DEF MissingDefinitions
  <2> QED
    BY <1>1, <1>5, <1>6 DEF NotedInv, DefinitionsNoted, Noted
<1> QED
  BY <1>4, <1>7 DEF NotedInv

(* Notes are only added. *)
WithNote(notes, step, note) == [notes EXCEPT ![step] = @ \o note]

LEMMA NotesGrow ==
    ASSUME NEW notes \in [NoteField -> Seq(Note)], NEW step \in NoteField, NEW note \in Seq(Note)
    PROVE  /\ WithNote(notes, step, note) \in [NoteField -> Seq(Note)]
           /\ \A field \in NoteField :
                 ToSet(notes[field]) \subseteq ToSet(WithNote(notes, step, note)[field])
           /\ ToSet(note) \subseteq ToSet(WithNote(notes, step, note)[step])
<1> DEFINE after == WithNote(notes, step, note)
<1> DEFINE old == notes[step]
<1> DEFINE new == old \o note
<1>1. old \in Seq(Note)
  OBVIOUS
<1>2. new \in Seq(Note) /\ ToSet(new) = ToSet(old) \cup ToSet(note)
  BY <1>1, Concatenated
<1>3. /\ after \in [NoteField -> Seq(Note)]
      /\ \A field \in NoteField : after[field] = IF field = step THEN new ELSE notes[field]
  BY <1>2 DEF WithNote
<1> HIDE DEF new
<1> QED
  BY <1>2, <1>3

(* Each detail of a batch is fetched or noted. *)
LEMMA FetchDetailsNoted == FreshInv /\ NotedInv /\ FetchDetails => NotedInv'
<1> SUFFICES ASSUME FreshInv, NotedInv, FetchDetails PROVE NotedInv'
  OBVIOUS
<1>1. PICK batch \in SUBSET read.queue :
         \E policyNote \in DetailFailures(batch \cap Policy),
            serviceNote \in DetailFailures(batch \cap Service) :
            read' = [read EXCEPT
                       !.queue = @ \ batch,
                       !.policies = Extended(@, Details(batch \cap Policy)),
                       !.fetched = Extended(@, Details(batch \cap Service)),
                       !.notes.Policies = @ \o policyNote,
                       !.notes.Definitions = @ \o serviceNote]
  BY DEF FetchDetails
<1>2. PICK policyNote \in DetailFailures(batch \cap Policy),
           serviceNote \in DetailFailures(batch \cap Service) :
         read' = [read EXCEPT
                    !.queue = @ \ batch,
                    !.policies = Extended(@, Details(batch \cap Policy)),
                    !.fetched = Extended(@, Details(batch \cap Service)),
                    !.notes.Policies = @ \o policyNote,
                    !.notes.Definitions = @ \o serviceNote]
  BY <1>1
<1>3. UNCHANGED <<heavy, definitions, shown, observed>> /\ Doing("Details")
  BY DEF FetchDetails, caches, outcome
<1> DEFINE notes == [read.notes EXCEPT !["Policies"] = @ \o policyNote]
<1>4. /\ read'.kind = read.kind /\ read'.reused = read.reused /\ read'.todo = read.todo
      /\ \A field \in {"zones", "services", "ipsets", "direct", "names"} : read'[field] = read[field]
      /\ read'.queue = read.queue \ batch
      /\ read'.fetched = Extended(read.fetched, Details(batch \cap Service))
      /\ read'.notes = [notes EXCEPT !["Definitions"] = @ \o serviceNote]
  BY <1>2 DEF FreshInv, ReadOK, Fields, NotedInv, NotesOK, NoteField
<1>5. policyNote \in Seq(Note)
  <2>1. batch \cap Policy \in SUBSET Part /\ IsFiniteSet(batch \cap Policy)
    BY ReadAssumption, FS_Subset DEF Part
  <2> QED
    BY <2>1, FailuresNoted
<1>6. /\ serviceNote \in Seq(Note)
      /\ \A part \in batch \cap Service \cap failing : <<part, "failed">> \in ToSet(serviceNote)
  <2>1. batch \cap Service \in SUBSET Part /\ IsFiniteSet(batch \cap Service)
    BY ReadAssumption, FS_Subset DEF Part
  <2> QED
    BY <2>1, FailuresNoted
<1>7. "Policies" \in NoteField /\ "Definitions" \in NoteField
  BY DEF NoteField
<1>8. /\ notes \in [NoteField -> Seq(Note)]
      /\ \A field \in NoteField : ToSet(read.notes[field]) \subseteq ToSet(notes[field])
  <2>1. read.notes \in [NoteField -> Seq(Note)]
    BY DEF NotedInv, NotesOK
  <2>2. notes = WithNote(read.notes, "Policies", policyNote)
    BY DEF WithNote
  <2> HIDE DEF notes
  <2> QED
    BY <1>5, <1>7, <2>1, <2>2, NotesGrow
<1> HIDE DEF notes
<1>9. /\ read'.notes \in [NoteField -> Seq(Note)]
      /\ \A field \in NoteField : ToSet(notes[field]) \subseteq ToSet(read'.notes[field])
      /\ ToSet(serviceNote) \subseteq ToSet(read'.notes["Definitions"])
  <2>1. read'.notes = WithNote(notes, "Definitions", serviceNote)
    BY <1>4, Zenon DEF WithNote
  <2>2. serviceNote \in Seq(Note) /\ "Definitions" \in NoteField
    BY <1>6, <1>7
  <2>3. notes \in [NoteField -> Seq(Note)]
    BY <1>8
  <2> DEFINE after == WithNote(notes, "Definitions", serviceNote)
  <2>4. /\ after \in [NoteField -> Seq(Note)]
        /\ \A field \in NoteField : ToSet(notes[field]) \subseteq ToSet(after[field])
        /\ ToSet(serviceNote) \subseteq ToSet(after["Definitions"])
    BY <2>2, <2>3, NotesGrow
  <2> QED
    BY <2>1, <2>4
<1>10. \A field \in NoteField : \A part : Noted(field, part) => Noted(field, part)'
  BY <1>8, <1>9 DEF Noted
<1>11. /\ NotesOK' /\ RewritesLast' /\ StepsFollow' /\ ServicesNoted' /\ IpSetsNoted'
       /\ DirectNoted' /\ CacheNoted' /\ MissingIsReported'
  <2>1. read'.todo # <<>>
    BY <1>3, <1>4 DEF Doing
  <2> QED
    BY <1>3, <1>4, <1>9, <1>10, <2>1, DetailStep
<1>12. \A other : Ahead(other) <=> other = "Details"
  BY <1>3, Alone
<1>13. read.kind # "None" /\ read.zones \in 0..MaxChanges
  BY <1>3, Alone
<1>14. MissingDefinitions' = MissingDefinitions
  BY <1>3, <1>4 DEF MissingDefinitions
<1>15. MissingDefinitions \subseteq Service
  BY <1>12, <1>13, MissingAreServices DEF MissingDefinitions
<1> HIDE DEF MissingDefinitions
<1>16. DOMAIN read'.fetched = DOMAIN read.fetched \cup ((batch \cap Service) \ failing)
  BY <1>4 DEF Extended, Details
<1>17. ASSUME NEW service \in MissingDefinitions, service \notin DOMAIN read'.fetched
       PROVE  service \in read'.queue \/ Noted("Definitions", service)'
  <2>1. service \in read.queue \/ Noted("Definitions", service)
    BY <1>12, <1>13, <1>16, <1>17 DEF NotedInv, DefinitionsNoted
  <2>2. CASE service \in batch
    <3>1. service \in batch \cap Service \cap failing
      BY <1>15, <1>16, <1>17, <2>2
    <3> QED
      BY <1>6, <1>9, <3>1 DEF Noted
  <2> QED
    BY <1>4, <1>7, <1>10, <2>1, <2>2
<1>18. DefinitionsNoted'
  BY <1>14, <1>17 DEF DefinitionsNoted
<1> QED
  BY <1>11, <1>18 DEF NotedInv

-----------------------------------------------------------------------------
(* What was seen of a snapshot. *)
LEMMA NothingBegun ==
    ASSUME NotedInv, read' = NoRead, CacheNoted', heavy'.degraded \in Seq(Note), MissingIsReported'
    PROVE  NotedInv'
<1>1. /\ read'.kind = "None" /\ read'.todo = <<>> /\ read'.reused = FALSE
      /\ read'.names = {} /\ read'.queue = {}
      /\ read'.notes = [x \in NoteField |-> <<>>]
  BY DEF NoRead, NoteField
<1>2. \A step : ~Ahead(step)'
  BY <1>1 DEF Ahead
<1>3. NotesOK'
  BY <1>1 DEF NotesOK
<1>4. RewritesLast' /\ StepsFollow'
  BY <1>1, <1>2 DEF RewritesLast, StepsFollow, Staged
<1>5. ServicesNoted' /\ IpSetsNoted' /\ DirectNoted' /\ DefinitionsNoted'
  BY <1>1 DEF ServicesNoted, IpSetsNoted, DirectNoted, DefinitionsNoted
<1> QED
  BY <1>3, <1>4, <1>5 DEF NotedInv

LEMMA NotedInit == Init => NotedInv
<1> SUFFICES ASSUME Init PROVE NotedInv
  OBVIOUS
<1>1. /\ read.kind = "None" /\ read.todo = <<>> /\ read.reused = FALSE
      /\ read.names = {} /\ read.queue = {}
      /\ read.notes = [x \in NoteField |-> <<>>]
  BY DEF Init, NoRead, NoteField
<1>2. \A step : ~Ahead(step)
  BY <1>1 DEF Ahead
<1>3. NotesOK
  BY <1>1 DEF Init, NotesOK
<1>4. RewritesLast /\ StepsFollow
  BY <1>1, <1>2 DEF RewritesLast, StepsFollow, Staged
<1>5. ServicesNoted /\ IpSetsNoted /\ DirectNoted /\ DefinitionsNoted
  BY <1>1 DEF ServicesNoted, IpSetsNoted, DirectNoted, DefinitionsNoted
<1>6. CacheNoted /\ MissingIsReported
  BY DEF Init, CacheNoted, MissingIsReported
<1> QED
  BY <1>3, <1>4, <1>5, <1>6 DEF NotedInv

LEMMA BeginNoted == FreshInv /\ NotedInv /\ (BeginRefresh \/ BeginPrecondition) => NotedInv'
<1> SUFFICES ASSUME FreshInv, NotedInv, BeginRefresh \/ BeginPrecondition PROVE NotedInv'
  OBVIOUS
<1>1. \/ read'.kind = "Staged" /\ read'.todo = <<"Zones", "Services", "PolicyNames", "Heavy">>
      \/ read'.kind = "Fresh" /\ read'.todo = <<"Zones", "Heavy">>
  BY DEF BeginRefresh, BeginPrecondition, NoRead
<1>2. /\ read'.reused = FALSE /\ read'.names = {} /\ read'.queue = {}
      /\ read'.notes = [x \in NoteField |-> <<>>]
  BY DEF BeginRefresh, BeginPrecondition, NoRead, NoteField
<1>3. /\ heavy'.ipsets = heavy.ipsets /\ heavy'.direct = heavy.direct
      /\ heavy'.degraded = heavy.degraded
      /\ heavy'.age # 0 => heavy.age # 0
  BY Zenon DEF BeginRefresh, BeginPrecondition, caches, FreshInv, ReadOK
<1>4. observed' = NoSnapshot /\ shown' = shown
  BY DEF BeginRefresh, BeginPrecondition
<1>5. /\ Ahead("Zones")' /\ Ahead("Heavy")' /\ ~Ahead("Definitions")'
      /\ Staged' => Ahead("Services")'
      /\ RewritesLast'
  <2>1. CASE read'.kind = "Staged" /\ read'.todo = <<"Zones", "Services", "PolicyNames", "Heavy">>
    <3>1. /\ read'.todo[1] = "Zones" /\ read'.todo[2] = "Services" /\ read'.todo[3] = "PolicyNames"
          /\ read'.todo[4] = "Heavy" /\ DOMAIN read'.todo = 1..4 /\ Len(read'.todo) = 4
      BY <2>1
    <3>2. \A i \in DOMAIN read'.todo : i = 1 \/ i = 2 \/ i = 3 \/ i = 4
      BY <3>1
    <3> QED
      BY <2>1, <3>1, <3>2 DEF Ahead, RewritesLast
  <2>2. CASE read'.kind = "Fresh" /\ read'.todo = <<"Zones", "Heavy">>
    <3>1. /\ read'.todo[1] = "Zones" /\ read'.todo[2] = "Heavy"
          /\ DOMAIN read'.todo = 1..2 /\ Len(read'.todo) = 2
      BY <2>2
    <3>2. \A i \in DOMAIN read'.todo : i = 1 \/ i = 2
      BY <3>1
    <3> QED
      BY <2>2, <3>1, <3>2 DEF Ahead, RewritesLast, Staged
  <2> QED
    BY <1>1, <2>1, <2>2
<1>6. NotesOK'
  BY <1>2, <1>3 DEF NotedInv, NotesOK
<1>7. StepsFollow'
  BY <1>1, <1>2, <1>5 DEF StepsFollow
<1>8. ServicesNoted' /\ IpSetsNoted' /\ DirectNoted' /\ DefinitionsNoted'
  BY <1>1, <1>5 DEF ServicesNoted, IpSetsNoted, DirectNoted, DefinitionsNoted, Staged
<1>9. CacheNoted'
  BY <1>3 DEF NotedInv, CacheNoted, Reported
<1>10. MissingIsReported'
  BY <1>4 DEF NotedInv, MissingIsReported, Reported
<1> QED
  BY <1>5, <1>6, <1>7, <1>8, <1>9, <1>10 DEF NotedInv

LEMMA GivenUpNoted == FreshInv /\ NotedInv /\ (ReadFails \/ DropRefresh) => NotedInv'
<1> SUFFICES ASSUME FreshInv, NotedInv, ReadFails \/ DropRefresh PROVE NotedInv'
  OBVIOUS
<1>1. read' = NoRead /\ UNCHANGED <<heavy, shown, observed>>
  BY DEF ReadFails, DropRefresh, caches, outcome
<1>2. CacheNoted' /\ heavy'.degraded \in Seq(Note) /\ MissingIsReported'
  BY <1>1 DEF NotedInv, NotesOK, CacheNoted, MissingIsReported, Reported
<1> QED
  BY <1>1, <1>2, NothingBegun

LEMMA ChangesNoted ==
    ASSUME NEW part \in Part
    PROVE  FreshInv /\ NotedInv /\ (Apply(part) \/ ForeignChange(part) \/ Disturbance(part))
             => NotedInv'
<1> SUFFICES ASSUME FreshInv, NotedInv, Apply(part) \/ ForeignChange(part) \/ Disturbance(part)
             PROVE  NotedInv'
  OBVIOUS
<1>1. CASE Apply(part)
  <2>1. read' = NoRead /\ observed' = NoSnapshot /\ shown' = shown
    BY <1>1 DEF Apply
  <2>2. heavy'.age = 0 /\ heavy'.degraded = heavy.degraded
    BY <1>1 DEF Apply, Invalidate, FreshInv, ReadOK
  <2>3. CacheNoted' /\ heavy'.degraded \in Seq(Note) /\ MissingIsReported'
    BY <2>1, <2>2 DEF NotedInv, NotesOK, CacheNoted, MissingIsReported, Reported
  <2> QED
    BY <2>1, <2>3, NothingBegun
<1>2. CASE ForeignChange(part) \/ Disturbance(part)
  <2>1. UNCHANGED <<heavy, definitions, read, shown, observed>>
    BY <1>2 DEF ForeignChange, Disturbance, caches, outcome
  <2> QED
    BY <2>1 DEF NotedInv, NotesOK, RewritesLast, StepsFollow, ServicesNoted, IpSetsNoted,
                DirectNoted, DefinitionsNoted, CacheNoted, MissingIsReported, Ahead, Noted,
                Reported, MissingDefinitions, Staged
<1> QED
  BY <1>1, <1>2

-----------------------------------------------------------------------------
LEMMA FourJoined ==
    ASSUME NEW S, NEW a \in Seq(S), NEW b \in Seq(S), NEW c \in Seq(S), NEW d \in Seq(S)
    PROVE  /\ a \o b \o c \o d \in Seq(S)
           /\ ToSet(a \o b \o c \o d) = ToSet(a) \cup ToSet(b) \cup ToSet(c) \cup ToSet(d)
<1> DEFINE two == a \o b
<1> DEFINE three == two \o c
<1>1. two \in Seq(S) /\ ToSet(two) = ToSet(a) \cup ToSet(b)
  BY Concatenated
<1> HIDE DEF two
<1>2. three \in Seq(S) /\ ToSet(three) = ToSet(two) \cup ToSet(c)
  BY <1>1, Concatenated
<1> HIDE DEF three
<1>3. three \o d \in Seq(S) /\ ToSet(three \o d) = ToSet(three) \cup ToSet(d)
  BY <1>2, Concatenated
<1> QED
  BY <1>1, <1>2, <1>3 DEF two, three

LEMMA ThreeJoined ==
    ASSUME NEW S, NEW a \in Seq(S), NEW b \in Seq(S), NEW c \in Seq(S)
    PROVE  /\ a \o b \o c \in Seq(S)
           /\ ToSet(a \o b \o c) = ToSet(a) \cup ToSet(b) \cup ToSet(c)
<1> DEFINE two == a \o b
<1>1. two \in Seq(S) /\ ToSet(two) = ToSet(a) \cup ToSet(b)
  BY Concatenated
<1> HIDE DEF two
<1>2. two \o c \in Seq(S) /\ ToSet(two \o c) = ToSet(two) \cup ToSet(c)
  BY <1>1, Concatenated
<1> QED
  BY <1>1, <1>2 DEF two

(* What a complete read has of each section, it has or notes. *)
LEMMA CompleteIsNoted ==
    ASSUME FreshInv, NotedInv, Complete
    PROVE  /\ Fetched.degraded \in Seq(Note)
           /\ Fetched.ipsets = Nothing => Reported(Fetched, "IpSets")
           /\ Fetched.direct = Nothing => Reported(Fetched, "DirectRules")
           /\ Snapshot.services = Nothing => Reported(Snapshot, "Services")
           /\ Snapshot.ipsets = Nothing => Reported(Snapshot, "IpSets")
           /\ Snapshot.direct = Nothing => Reported(Snapshot, "DirectRules")
           /\ \A service \in Referenced[Snapshot.zones] \ DOMAIN Snapshot.definitions :
                 Reported(Snapshot, service)
<1>1. read.kind # "None" /\ read.todo = <<>> /\ \A step : ~Ahead(step)
  BY DEF Complete, Ahead
<1>2. read.queue = {}
  BY <1>1 DEF NotedInv, StepsFollow
<1>3. /\ read.notes.Zones \in Seq(Note) /\ read.notes.Services \in Seq(Note)
      /\ read.notes.IpSets \in Seq(Note) /\ read.notes.DirectRules \in Seq(Note)
      /\ read.notes.PolicyNames \in Seq(Note) /\ read.notes.Policies \in Seq(Note)
      /\ read.notes.Definitions \in Seq(Note) /\ heavy.degraded \in Seq(Note)
      /\ <<>> \in Seq(Note)
  BY DEF NotedInv, NotesOK, NoteField
<1>4. /\ HeavyNotes \in Seq(Note)
      /\ ToSet(read.notes.IpSets) \subseteq ToSet(HeavyNotes)
      /\ ToSet(read.notes.DirectRules) \subseteq ToSet(HeavyNotes)
  <2> DEFINE names == IF Staged THEN <<>> ELSE read.notes.PolicyNames
  <2>1. names \in Seq(Note)
    BY <1>3
  <2>2. HeavyNotes = read.notes.IpSets \o read.notes.DirectRules \o names \o read.notes.Policies
    BY DEF HeavyNotes
  <2> HIDE DEF names
  <2> DEFINE a == read.notes.IpSets
  <2> DEFINE b == read.notes.DirectRules
  <2> DEFINE d == read.notes.Policies
  <2>3. a \in Seq(Note) /\ b \in Seq(Note) /\ d \in Seq(Note)
    BY <1>3
  <2>4. HeavyNotes = a \o b \o names \o d
    BY <2>2
  <2> HIDE DEF a, b, d
  <2>5. /\ a \o b \o names \o d \in Seq(Note)
        /\ ToSet(a \o b \o names \o d) = ToSet(a) \cup ToSet(b) \cup ToSet(names) \cup ToSet(d)
    BY <2>1, <2>3, FourJoined
  <2> QED
    BY <2>4, <2>5 DEF a, b, d
<1>5. Fetched.degraded \in Seq(Note)
  BY <1>3, <1>4 DEF Fetched
<1>6. Fetched.ipsets = Nothing => Reported(Fetched, "IpSets")
  <2>1. CASE read.reused
    BY <2>1 DEF Fetched, NotedInv, StepsFollow, CacheNoted
  <2>2. CASE ~read.reused
    <3>1. Fetched.ipsets = read.ipsets /\ Fetched.degraded = HeavyNotes
      BY <2>2 DEF Fetched
    <3> QED
      BY <1>1, <1>4, <2>2, <3>1 DEF NotedInv, IpSetsNoted, Noted, Reported
  <2> QED
    BY <2>1, <2>2
<1>7. Fetched.direct = Nothing => Reported(Fetched, "DirectRules")
  <2>1. CASE read.reused
    BY <2>1 DEF Fetched, NotedInv, StepsFollow, CacheNoted
  <2>2. CASE ~read.reused
    <3>1. Fetched.direct = read.direct /\ Fetched.degraded = HeavyNotes
      BY <2>2 DEF Fetched
    <3> QED
      BY <1>1, <1>4, <2>2, <3>1 DEF NotedInv, DirectNoted, Noted, Reported
  <2> QED
    BY <2>1, <2>2
<1>8. /\ Snapshot.zones = read.zones /\ Snapshot.services = read.services
      /\ Snapshot.ipsets = Fetched.ipsets /\ Snapshot.direct = Fetched.direct
  BY DEF Snapshot
<1>9. /\ ToSet(Fetched.degraded) \subseteq ToSet(Snapshot.degraded)
      /\ ToSet(read.notes.Services) \subseteq ToSet(Snapshot.degraded)
      /\ ToSet(read.notes.Definitions) \subseteq ToSet(Snapshot.degraded)
  <2> DEFINE rest == IF Staged
                     THEN read.notes.Definitions \o read.notes.Zones \o read.notes.Services
                              \o read.notes.PolicyNames
                     ELSE read.notes.Services \o read.notes.Zones \o read.notes.Definitions
  <2>1. Snapshot.degraded = Fetched.degraded \o rest
    BY DEF Snapshot
  <2>2. /\ rest \in Seq(Note)
        /\ ToSet(read.notes.Services) \subseteq ToSet(rest)
        /\ ToSet(read.notes.Definitions) \subseteq ToSet(rest)
    <3>1. CASE Staged
      <4>1. rest = read.notes.Definitions \o read.notes.Zones \o read.notes.Services
                       \o read.notes.PolicyNames
        BY <3>1
      <4> HIDE DEF rest
      <4> DEFINE a == read.notes.Definitions
      <4> DEFINE b == read.notes.Zones
      <4> DEFINE c == read.notes.Services
      <4> DEFINE d == read.notes.PolicyNames
      <4>2. a \in Seq(Note) /\ b \in Seq(Note) /\ c \in Seq(Note) /\ d \in Seq(Note)
        BY <1>3
      <4>3. rest = a \o b \o c \o d
        BY <4>1
      <4> HIDE DEF a, b, c, d
      <4>4. /\ a \o b \o c \o d \in Seq(Note)
            /\ ToSet(a \o b \o c \o d) = ToSet(a) \cup ToSet(b) \cup ToSet(c) \cup ToSet(d)
        BY <4>2, FourJoined
      <4> QED
        BY <4>3, <4>4 DEF a, c
    <3>2. CASE ~Staged
      <4>1. rest = read.notes.Services \o read.notes.Zones \o read.notes.Definitions
        BY <3>2
      <4> HIDE DEF rest
      <4> QED
        BY <1>3, <4>1, ThreeJoined
    <3> QED
      BY <3>1, <3>2
  <2> HIDE DEF rest
  <2> QED
    BY <1>5, <2>1, <2>2, Concatenated
<1>10. ASSUME NEW service \in Referenced[Snapshot.zones] \ DOMAIN Snapshot.definitions
       PROVE  Reported(Snapshot, service)
  <2>1. DOMAIN Snapshot.definitions
            = Referenced[read.zones] \cap (DOMAIN definitions \cup DOMAIN read.fetched)
    BY DEF Snapshot, Restricted, Extended
  <2>2. service \in MissingDefinitions /\ service \notin DOMAIN read.fetched
    BY <1>8, <1>10, <2>1 DEF MissingDefinitions
  <2>3. Noted("Definitions", service)
    BY <1>1, <1>2, <2>2 DEF NotedInv, DefinitionsNoted
  <2> QED
    BY <1>9, <2>3 DEF Noted, Reported
<1>11. Snapshot.services = Nothing => Reported(Snapshot, "Services")
  BY <1>1, <1>8, <1>9 DEF NotedInv, ServicesNoted, Noted, Reported
<1>12. /\ Snapshot.ipsets = Nothing => Reported(Snapshot, "IpSets")
       /\ Snapshot.direct = Nothing => Reported(Snapshot, "DirectRules")
  BY <1>6, <1>7, <1>8, <1>9 DEF Reported
<1> QED
  BY <1>5, <1>6, <1>7, <1>10, <1>11, <1>12

LEMMA EndReadNoted == FreshInv /\ NotedInv /\ EndRead => NotedInv'
<1> SUFFICES ASSUME FreshInv, NotedInv, EndRead PROVE NotedInv'
  OBVIOUS
<1>1. read' = NoRead /\ heavy' = Fetched /\ Complete
  BY DEF EndRead
<1>2. \/ shown' = Snapshot /\ observed' = observed
      \/ observed' = Snapshot /\ shown' = shown
  BY DEF EndRead
<1>3. CacheNoted' /\ heavy'.degraded \in Seq(Note)
  BY <1>1, CompleteIsNoted DEF CacheNoted, Reported
<1>4. MissingIsReported'
  <2> SUFFICES ASSUME NEW snapshot \in {shown, observed, Snapshot} \ {NoSnapshot}
               PROVE  /\ snapshot.services = Nothing => Reported(snapshot, "Services")
                      /\ snapshot.ipsets = Nothing => Reported(snapshot, "IpSets")
                      /\ snapshot.direct = Nothing => Reported(snapshot, "DirectRules")
                      /\ \A service \in Referenced[snapshot.zones] \ DOMAIN snapshot.definitions :
                            Reported(snapshot, service)
    BY <1>2 DEF MissingIsReported, Reported
  <2>1. CASE snapshot = Snapshot
    BY <1>1, <2>1, CompleteIsNoted
  <2>2. CASE snapshot \in {shown, observed}
    BY <2>2 DEF NotedInv, MissingIsReported
  <2> QED
    BY <2>1, <2>2
<1> QED
  BY <1>1, <1>3, <1>4, NothingBegun

LEMMA NotedStep == FreshInv /\ NotedInv /\ [Next]_vars => NotedInv'
<1> SUFFICES ASSUME FreshInv, NotedInv, [Next]_vars PROVE NotedInv'
  OBVIOUS
<1>1. CASE BeginRefresh \/ BeginPrecondition
  BY <1>1, BeginNoted
<1>2. CASE Backend
  BY <1>2, ReadZonesNoted, ReadServicesNoted, ReadPolicyNamesNoted, ReadIpSetsNoted,
     ReadDirectRulesNoted, DecideHeavyNoted, QueueDetailsNoted, FetchDetailsNoted,
     EndDetailsNoted, ReadPoliciesNoted, ReadDefinitionsNoted, EndReadNoted DEF Backend
<1>3. CASE ReadFails \/ DropRefresh
  BY <1>3, GivenUpNoted
<1>4. ASSUME NEW part \in Part, Apply(part) \/ ForeignChange(part) \/ Disturbance(part)
      PROVE  NotedInv'
  BY <1>4, ChangesNoted
<1>5. CASE UNCHANGED vars
  BY <1>5 DEF vars, caches, outcome, NotedInv, NotesOK, RewritesLast, StepsFollow, ServicesNoted,
              IpSetsNoted, DirectNoted, DefinitionsNoted, CacheNoted, MissingIsReported, Ahead,
              Noted, Reported, MissingDefinitions, Staged
<1> QED
  BY <1>1, <1>2, <1>3, <1>4, <1>5 DEF Next

(* An empty section never passes for a firewall that has none: what was not
   read is in the list of degraded sections, of what is shown and of what a
   mutation is checked against, also when the section comes from the cache and
   however the details were fetched. *)
THEOREM MissingAlwaysReported == Spec => []MissingIsReported
<1>1. Init => FreshInv /\ NotedInv
  BY FreshInit, NotedInit
<1>2. FreshInv /\ NotedInv /\ [Next]_vars => (FreshInv /\ NotedInv)'
  BY FreshStep, NotedStep
<1>3. FreshInv /\ NotedInv => MissingIsReported
  BY DEF NotedInv
<1> QED
  BY <1>1, <1>2, <1>3, PTL DEF Spec

-----------------------------------------------------------------------------
(* What is read of the moment is not older than what this program set. *)
LEMMA CurrentIsOwn ==
    ASSUME FreshInv, OwnInv
    PROVE  /\ \A part \in Part : Since(firewalld[part], own[part]) /\ Since(Answer(part), own[part])
           /\ \A parts \in SUBSET Part : NotOlder(Details(parts))
<1>1. \A part \in Part : Since(firewalld[part], own[part])
  BY DEF OwnInv, OwnVersions, Since, FreshInv, Versions
<1>2. \A part \in Part : Since(Answer(part), own[part])
  BY <1>1 DEF Answer, Since
<1>3. ASSUME NEW parts \in SUBSET Part PROVE NotOlder(Details(parts))
  BY <1>1 DEF NotOlder, Details
<1> QED
  BY <1>1, <1>2, <1>3

LEMMA OwnExtended ==
    ASSUME NEW map, NEW more, NotOlder(map), NotOlder(more)
    PROVE  NotOlder(Extended(map, more))
  BY DEF NotOlder, Extended

LEMMA OwnInit == Init => OwnInv
<1> SUFFICES ASSUME Init PROVE OwnInv
  OBVIOUS
<1>1. OwnVersions
  BY DEF Init, OwnVersions
<1>2. /\ read.zones = Nothing /\ read.ipsets = Nothing /\ read.direct = Nothing
      /\ read.policies = Empty /\ read.fetched = Empty /\ definitions = Empty /\ heavy.age = 0
  BY DEF Init, NoRead
<1>3. NotOlder(Empty) /\ DOMAIN Empty = {}
  BY DEF NotOlder, Empty
<1> QED
  BY <1>1, <1>2, <1>3 DEF OwnInv, Since

(* Whoever only reads knows nothing older than he knew. *)
LEMMA OwnRead ==
    ASSUME FreshInv, OwnInv, UNCHANGED <<firewalld, own, definitions>>,
           heavy'.ipsets = heavy.ipsets, heavy'.direct = heavy.direct,
           heavy'.policies = heavy.policies, heavy'.age # 0 => heavy.age # 0,
           read'.zones \in {Nothing, read.zones, firewalld["Zones"]},
           read'.ipsets \in {Nothing, read.ipsets, Answer("IpSets")},
           read'.direct \in {Nothing, read.direct, Answer("DirectRules")},
           NotOlder(read'.policies), NotOlder(read'.fetched), DOMAIN read'.fetched \subseteq Service
    PROVE  OwnInv'
<1>1. OwnVersions'
  BY DEF OwnInv, OwnVersions
<1>2. /\ Since(read'.zones, own["Zones"]) /\ Since(read'.ipsets, own["IpSets"])
      /\ Since(read'.direct, own["DirectRules"])
  <2>1. \A part \in Part : Since(firewalld[part], own[part]) /\ Since(Answer(part), own[part])
    BY CurrentIsOwn
  <2>2. \A version : Since(Nothing, version)
    BY DEF Since
  <2> QED
    BY <2>1, <2>2, PartsNamed DEF OwnInv
<1>3. \A values : NotOlder(values) =>
         \A part \in DOMAIN values : part \in Part /\ Since(values[part], own'[part])
  BY DEF NotOlder
<1> QED
  BY <1>1, <1>2, <1>3 DEF OwnInv, NotOlder

(* Steps of a read, begun, under way or given up. *)
LEMMA ReadingOwn ==
    FreshInv /\ NotedInv /\ OwnInv
      /\ (BeginRefresh \/ BeginPrecondition \/ ReadZones \/ ReadServices \/ ReadPolicyNames
            \/ ReadIpSets \/ ReadDirectRules \/ DecideHeavy \/ QueueDetails \/ FetchDetails
            \/ EndDetails \/ ReadPolicies \/ ReadDefinitions \/ ReadFails \/ DropRefresh)
      => OwnInv' /\ shown' = shown
<1> SUFFICES ASSUME FreshInv, NotedInv, OwnInv,
                    \/ BeginRefresh \/ BeginPrecondition \/ ReadZones \/ ReadServices
                    \/ ReadPolicyNames \/ ReadIpSets \/ ReadDirectRules \/ DecideHeavy
                    \/ QueueDetails \/ FetchDetails \/ EndDetails \/ ReadPolicies
                    \/ ReadDefinitions \/ ReadFails \/ DropRefresh
             PROVE  OwnInv' /\ shown' = shown
  OBVIOUS
<1>1. NotOlder(Empty) /\ DOMAIN Empty = {}
  BY DEF NotOlder, Empty
<1>2. /\ NotOlder(read.policies) /\ NotOlder(read.fetched) /\ DOMAIN read.fetched \subseteq Service
      /\ \A parts \in SUBSET Part : NotOlder(Details(parts))
  BY CurrentIsOwn DEF OwnInv
<1>3. /\ Service \subseteq Part /\ Policy \subseteq Part /\ read.names \subseteq Policy
      /\ \A parts : DOMAIN Details(parts) \subseteq parts
  BY DEF Part, NotedInv, NotesOK, Details
<1>4. CASE BeginRefresh \/ BeginPrecondition \/ ReadFails \/ DropRefresh
  <2>1. /\ read'.zones = Nothing /\ read'.ipsets = Nothing /\ read'.direct = Nothing
        /\ read'.policies = Empty /\ read'.fetched = Empty
    <3>1. CASE BeginRefresh
      BY <3>1 DEF BeginRefresh, NoRead
    <3>2. CASE BeginPrecondition
      BY <3>2 DEF BeginPrecondition, NoRead
    <3>3. CASE ReadFails \/ DropRefresh
      BY <3>3 DEF ReadFails, DropRefresh, NoRead
    <3> QED
      BY <1>4, <3>1, <3>2, <3>3
  <2>2. /\ heavy'.ipsets = heavy.ipsets /\ heavy'.direct = heavy.direct
        /\ heavy'.policies = heavy.policies /\ (heavy'.age # 0 => heavy.age # 0)
    BY <1>4, Zenon DEF BeginRefresh, BeginPrecondition, ReadFails, DropRefresh, caches, FreshInv, ReadOK
  <2>3. UNCHANGED <<firewalld, own, definitions, shown>>
    BY <1>4 DEF BeginRefresh, BeginPrecondition, ReadFails, DropRefresh, caches, history
  <2> QED
    <3>1. /\ NotOlder(read'.policies) /\ NotOlder(read'.fetched)
          /\ DOMAIN read'.fetched \subseteq Service
      BY <1>1, <2>1
    <3> QED
      BY <2>1, <2>2, <2>3, <3>1, OwnRead
<1>5. CASE ReadZones \/ ReadServices \/ ReadPolicyNames \/ ReadIpSets \/ ReadDirectRules
  <2>1. /\ read'.zones \in {read.zones, firewalld["Zones"]}
        /\ read'.ipsets \in {read.ipsets, Answer("IpSets")}
        /\ read'.direct \in {read.direct, Answer("DirectRules")}
        /\ read'.policies = read.policies /\ read'.fetched = read.fetched
    <3>1. CASE ReadZones
      BY <3>1 DEF ReadZones, Done, FreshInv, ReadOK, Fields
    <3>2. CASE ReadServices
      BY <3>2 DEF ReadServices, Done, FreshInv, ReadOK, Fields
    <3>3. CASE ReadPolicyNames
      BY <3>3 DEF ReadPolicyNames, Done, FreshInv, ReadOK, Fields
    <3>4. CASE ReadIpSets
      BY <3>4 DEF ReadIpSets, Done, FreshInv, ReadOK, Fields
    <3>5. CASE ReadDirectRules
      BY <3>5 DEF ReadDirectRules, Done, FreshInv, ReadOK, Fields
    <3> QED
      BY <1>5, <3>1, <3>2, <3>3, <3>4, <3>5
  <2>2. UNCHANGED <<firewalld, own, definitions, shown, heavy>>
    BY <1>5 DEF ReadZones, ReadServices, ReadPolicyNames, ReadIpSets, ReadDirectRules, caches, history
  <2> QED
    <3>1. /\ NotOlder(read'.policies) /\ NotOlder(read'.fetched)
          /\ DOMAIN read'.fetched \subseteq Service
      BY <1>2, <2>1
    <3> QED
      BY <2>1, <2>2, <3>1, OwnRead
<1>6. CASE DecideHeavy \/ QueueDetails \/ EndDetails
  <2>1. /\ read'.zones = read.zones /\ read'.ipsets = read.ipsets /\ read'.direct = read.direct
        /\ read'.policies = read.policies /\ read'.fetched = read.fetched
    <3>1. CASE DecideHeavy
      BY <3>1 DEF DecideHeavy, FreshInv, ReadOK, Fields
    <3>2. CASE QueueDetails
      BY <3>2 DEF QueueDetails, FreshInv, ReadOK, Fields
    <3>3. CASE EndDetails
      BY <3>3 DEF EndDetails, FreshInv, ReadOK, Fields
    <3> QED
      BY <1>6, <3>1, <3>2, <3>3
  <2>2. /\ heavy'.ipsets = heavy.ipsets /\ heavy'.direct = heavy.direct
        /\ heavy'.policies = heavy.policies /\ (heavy'.age # 0 => heavy.age # 0)
    <3>1. CASE DecideHeavy
      BY <3>1, ReadAssumption DEF DecideHeavy, Young, FreshInv, ReadOK
    <3>2. CASE QueueDetails \/ EndDetails
      BY <3>2 DEF QueueDetails, EndDetails, caches
    <3> QED
      BY <1>6, <3>1, <3>2
  <2>3. UNCHANGED <<firewalld, own, definitions, shown>>
    BY <1>6 DEF DecideHeavy, QueueDetails, EndDetails, caches, history
  <2> QED
    <3>1. /\ NotOlder(read'.policies) /\ NotOlder(read'.fetched)
          /\ DOMAIN read'.fetched \subseteq Service
      BY <1>2, <2>1
    <3> QED
      BY <2>1, <2>2, <2>3, <3>1, OwnRead
<1>7. CASE ReadPolicies \/ ReadDefinitions
  <2>1. /\ read'.zones = read.zones /\ read'.ipsets = read.ipsets /\ read'.direct = read.direct
    BY <1>7 DEF ReadPolicies, ReadDefinitions, Done, FreshInv, ReadOK, Fields
  <2>2. NotOlder(read'.policies) /\ NotOlder(read'.fetched) /\ DOMAIN read'.fetched \subseteq Service
    <3>1. CASE ReadPolicies
      <4>1. read'.policies = Details(read.names) /\ read'.fetched = read.fetched
        BY <3>1 DEF ReadPolicies, Done, FreshInv, ReadOK, Fields
      <4> QED
        BY <1>2, <1>3, <4>1
    <3>2. CASE ReadDefinitions
      <4>1. read'.policies = read.policies /\ read'.fetched = Details(MissingDefinitions)
        BY <3>2 DEF ReadDefinitions, Done, FreshInv, ReadOK, Fields
      <4>2. MissingDefinitions \subseteq Service
        BY <3>2, ZonesBeforeDefinitions, MissingAreServices DEF ReadDefinitions, MissingDefinitions
      <4> HIDE DEF MissingDefinitions
      <4> QED
        BY <1>2, <1>3, <4>1, <4>2
    <3> QED
      BY <1>7, <3>1, <3>2
  <2>3. UNCHANGED <<firewalld, own, definitions, shown, heavy>>
    BY <1>7 DEF ReadPolicies, ReadDefinitions, caches, history
  <2> QED
    BY <2>1, <2>2, <2>3, OwnRead
<1>8. CASE FetchDetails
  <2> DEFINE Fetching(batch, policyNote, serviceNote) ==
               read' = [read EXCEPT
                          !.queue = @ \ batch,
                          !.policies = Extended(@, Details(batch \cap Policy)),
                          !.fetched = Extended(@, Details(batch \cap Service)),
                          !.notes.Policies = @ \o policyNote,
                          !.notes.Definitions = @ \o serviceNote]
  <2>1. PICK batch \in SUBSET read.queue :
           \E policyNote, serviceNote : Fetching(batch, policyNote, serviceNote)
    BY <1>8 DEF FetchDetails
  <2>2. PICK policyNote, serviceNote : Fetching(batch, policyNote, serviceNote)
    BY <2>1
  <2>3. /\ read'.zones = read.zones /\ read'.ipsets = read.ipsets /\ read'.direct = read.direct
        /\ read'.policies = Extended(read.policies, Details(batch \cap Policy))
        /\ read'.fetched = Extended(read.fetched, Details(batch \cap Service))
    BY <2>2 DEF FreshInv, ReadOK, Fields
  <2> HIDE DEF Fetching
  <2>4. NotOlder(read'.policies) /\ NotOlder(read'.fetched)
    BY <1>2, <1>3, <2>3, OwnExtended
  <2>5. DOMAIN read'.fetched \subseteq Service
    BY <1>2, <2>3 DEF Extended, Details
  <2>6. UNCHANGED <<firewalld, own, definitions, shown, heavy>>
    BY <1>8 DEF FetchDetails, caches, history
  <2> QED
    BY <2>3, <2>4, <2>5, <2>6, OwnRead
<1> QED
  BY <1>4, <1>5, <1>6, <1>7, <1>8

(* A complete read stores, and shows, nothing older. *)
LEMMA CompleteIsOwn ==
    ASSUME FreshInv, NotedInv, OwnInv, Complete
    PROVE  /\ Since(Fetched.ipsets, own["IpSets"]) /\ Since(Fetched.direct, own["DirectRules"])
           /\ NotOlder(Fetched.policies)
           /\ NotOlder(Extended(definitions, read.fetched))
           /\ DOMAIN Extended(definitions, read.fetched) \subseteq Service
           /\ Snapshot.zones = read.zones /\ Snapshot.ipsets = Fetched.ipsets
           /\ Snapshot.direct = Fetched.direct /\ Snapshot.policies = Fetched.policies
           /\ NotOlder(Snapshot.definitions)
<1>1. /\ Since(Fetched.ipsets, own["IpSets"]) /\ Since(Fetched.direct, own["DirectRules"])
      /\ NotOlder(Fetched.policies)
  <2>1. CASE read.reused
    BY <2>1 DEF Fetched, NotedInv, StepsFollow, OwnInv
  <2>2. CASE ~read.reused
    BY <2>2 DEF Fetched, OwnInv
  <2> QED
    BY <2>1, <2>2
<1>2. NotOlder(Extended(definitions, read.fetched))
  BY OwnExtended DEF OwnInv
<1>3. DOMAIN Extended(definitions, read.fetched) \subseteq Service
  BY DEF OwnInv, Extended
<1>4. /\ Snapshot.zones = read.zones /\ Snapshot.ipsets = Fetched.ipsets
      /\ Snapshot.direct = Fetched.direct /\ Snapshot.policies = Fetched.policies
      /\ Snapshot.definitions = Restricted(Extended(definitions, read.fetched), Referenced[read.zones])
  BY DEF Snapshot
<1>5. NotOlder(Snapshot.definitions)
  BY <1>2, <1>4 DEF Restricted, NotOlder
<1> QED
  BY <1>1, <1>2, <1>3, <1>4, <1>5

LEMMA EndReadOwn == FreshInv /\ NotedInv /\ OwnInv /\ EndRead => OwnInv'
<1> SUFFICES ASSUME FreshInv, NotedInv, OwnInv, EndRead PROVE OwnInv'
  OBVIOUS
<1>1. /\ Complete /\ read' = NoRead /\ heavy' = Fetched
      /\ definitions' = Extended(definitions, read.fetched)
      /\ firewalld' = firewalld /\ own' = own
  BY DEF EndRead
<1>2. /\ read'.zones = Nothing /\ read'.ipsets = Nothing /\ read'.direct = Nothing
      /\ read'.policies = Empty /\ read'.fetched = Empty
  BY <1>1 DEF NoRead
<1>3. NotOlder(Empty) /\ DOMAIN Empty = {}
  BY DEF NotOlder, Empty
<1>4. OwnVersions'
  BY <1>1 DEF OwnInv, OwnVersions
<1>5. \A values : NotOlder(values) =>
         \A part \in DOMAIN values : part \in Part /\ Since(values[part], own'[part])
  BY <1>1 DEF NotOlder
<1> QED
  BY <1>1, <1>2, <1>3, <1>4, <1>5, CompleteIsOwn DEF OwnInv, NotOlder, Since

(* A change of one's own invalidates what would be older than it. *)
LEMMA ApplyOwn ==
    ASSUME NEW part \in Part PROVE FreshInv /\ OwnInv /\ Apply(part) => OwnInv'
<1> SUFFICES ASSUME FreshInv, OwnInv, Apply(part) PROVE OwnInv'
  OBVIOUS
<1>1. /\ read' = NoRead /\ heavy'.age = 0
      /\ definitions' = IF part \in Service THEN Empty ELSE definitions
  BY DEF Apply, Invalidate, FreshInv, ReadOK
<1>2. /\ read'.zones = Nothing /\ read'.ipsets = Nothing /\ read'.direct = Nothing
      /\ read'.policies = Empty /\ read'.fetched = Empty
  BY <1>1 DEF NoRead
<1>3. DOMAIN Empty = {}
  BY DEF Empty
<1>4. \/ Changed(part) /\ own' = [own EXCEPT ![part] = firewalld'[part]]
      \/ UNCHANGED <<firewalld, own>>
  BY DEF Apply
<1>5. \A other \in Part :
         /\ firewalld[other] \in Nat /\ own[other] \in Nat /\ own[other] <= firewalld[other]
         /\ firewalld'[other] \in {firewalld[other], firewalld[other] + 1}
         /\ own'[other] \in {own[other], firewalld'[other]}
         /\ other # part => own'[other] = own[other]
  BY <1>4 DEF FreshInv, Versions, OwnInv, OwnVersions, Changed
<1>6. own' \in [Part -> Nat]
  <2>1. own \in [Part -> Nat]
    BY DEF OwnInv, OwnVersions
  <2>2. own' = own \/ own' = [own EXCEPT ![part] = firewalld'[part]]
    BY <1>4
  <2>3. firewalld'[part] \in Nat
    BY <1>5
  <2> QED
    BY <2>1, <2>2, <2>3
<1>7. OwnVersions'
  BY <1>5, <1>6 DEF OwnVersions
<1>8. NotOlder(definitions)' /\ DOMAIN definitions' \subseteq Service
  <2>1. CASE part \in Service
    BY <1>1, <1>3, <2>1 DEF NotOlder
  <2>2. CASE part \notin Service
    <3>1. definitions' = definitions /\ part \notin DOMAIN definitions
      BY <1>1, <2>2 DEF OwnInv
    <3> QED
      BY <1>5, <3>1 DEF NotOlder, OwnInv
  <2> QED
    BY <2>1, <2>2
<1> QED
  BY <1>1, <1>2, <1>3, <1>7, <1>8 DEF OwnInv, NotOlder, Since

LEMMA OthersOwn ==
    ASSUME NEW part \in Part
    PROVE  FreshInv /\ OwnInv /\ (ForeignChange(part) \/ Disturbance(part)) => OwnInv'
<1> SUFFICES ASSUME FreshInv, OwnInv, ForeignChange(part) \/ Disturbance(part) PROVE OwnInv'
  OBVIOUS
<1>1. UNCHANGED <<heavy, definitions, read, own>>
  BY DEF ForeignChange, Disturbance, caches
<1>2. \A other \in Part :
         /\ firewalld[other] \in Nat /\ own[other] \in Nat /\ own[other] <= firewalld[other]
         /\ firewalld'[other] \in {firewalld[other], firewalld[other] + 1}
  BY DEF FreshInv, Versions, OwnInv, OwnVersions, ForeignChange, Disturbance, Changed
<1>3. OwnVersions'
  BY <1>1, <1>2 DEF OwnInv, OwnVersions
<1> QED
  BY <1>1, <1>3 DEF OwnInv, NotOlder

LEMMA OwnStep == FreshInv /\ NotedInv /\ OwnInv /\ [Next]_vars => OwnInv'
<1> SUFFICES ASSUME FreshInv, NotedInv, OwnInv, [Next]_vars PROVE OwnInv'
  OBVIOUS
<1>1. CASE BeginRefresh \/ BeginPrecondition \/ ReadFails \/ DropRefresh
  BY <1>1, ReadingOwn
<1>2. CASE Backend
  BY <1>2, ReadingOwn, EndReadOwn DEF Backend
<1>3. ASSUME NEW part \in Part, Apply(part) PROVE OwnInv'
  BY <1>3, ApplyOwn
<1>4. ASSUME NEW part \in Part, ForeignChange(part) \/ Disturbance(part) PROVE OwnInv'
  BY <1>4, OthersOwn
<1>5. CASE UNCHANGED vars
  BY <1>5 DEF vars, caches, history, OwnInv, OwnVersions, NotOlder
<1> QED
  BY <1>1, <1>2, <1>3, <1>4, <1>5 DEF Next

(* Whatever the caches held, the first refresh after a change of one's own
   shows every section as new as that change: apply forgets enough, and what
   it keeps cannot have changed. *)
THEOREM OwnChangesAreShown == Spec => OwnChangesShown
<1>1. Init => FreshInv /\ NotedInv /\ OwnInv
  BY FreshInit, NotedInit, OwnInit
<1>2. FreshInv /\ NotedInv /\ OwnInv /\ [Next]_vars => (FreshInv /\ NotedInv /\ OwnInv)'
  BY FreshStep, NotedStep, OwnStep
<1>3. FreshInv /\ NotedInv /\ OwnInv /\ [Next]_vars =>
        [shown' # shown =>
            /\ Since(shown'.zones, own["Zones"])
            /\ Since(shown'.ipsets, own["IpSets"])
            /\ Since(shown'.direct, own["DirectRules"])
            /\ \A policy \in DOMAIN shown'.policies : Since(shown'.policies[policy], own[policy])
            /\ \A service \in DOMAIN shown'.definitions :
                  Since(shown'.definitions[service], own[service])]_vars
  <2> SUFFICES ASSUME FreshInv, NotedInv, OwnInv, [Next]_vars, shown' # shown
               PROVE  /\ Since(shown'.zones, own["Zones"])
                      /\ Since(shown'.ipsets, own["IpSets"])
                      /\ Since(shown'.direct, own["DirectRules"])
                      /\ \A policy \in DOMAIN shown'.policies :
                            Since(shown'.policies[policy], own[policy])
                      /\ \A service \in DOMAIN shown'.definitions :
                            Since(shown'.definitions[service], own[service])
    OBVIOUS
  <2>1. EndRead
    <3>1. \A part \in Part : ~Apply(part) /\ ~ForeignChange(part) /\ ~Disturbance(part)
      BY DEF Apply, ForeignChange, Disturbance
    <3>2. ~UNCHANGED vars
      BY DEF vars
    <3> QED
      BY <3>1, <3>2, ReadingOwn DEF Next, Backend
  <2>2. Complete /\ shown' = Snapshot
    BY <2>1 DEF EndRead
  <2>3. Since(read.zones, own["Zones"])
    BY DEF OwnInv
  <2> QED
    BY <2>2, <2>3, CompleteIsOwn DEF NotOlder
<1> QED
  BY <1>1, <1>2, <1>3, PTL DEF Spec, OwnChangesShown

-----------------------------------------------------------------------------
(* A firewall that nobody changes *)

LEMMA DetailsJoined ==
    ASSUME NEW A, NEW B
    PROVE  /\ Extended(Details(A), Details(B)) = Details(A \cup B)
           /\ Details({}) = Empty /\ Failures({}) = {}
           /\ Failures(A \cup B) = Failures(A) \cup Failures(B)
<1> DEFINE both == (A \cup B) \ failing
<1>1. DOMAIN Details(A) = A \ failing /\ DOMAIN Details(B) = B \ failing
  BY DEF Details
<1>2. Extended(Details(A), Details(B))
         = [x \in both |-> IF x \in B \ failing THEN Details(B)[x] ELSE Details(A)[x]]
  <2>1. DOMAIN Details(A) \cup DOMAIN Details(B) = both
    BY <1>1
  <2> QED
    BY <1>1, <2>1 DEF Extended
<1>3. \A x \in both : (IF x \in B \ failing THEN Details(B)[x] ELSE Details(A)[x]) = firewalld[x]
  BY DEF Details
<1>4. Details(A \cup B) = [x \in both |-> firewalld[x]]
  BY DEF Details
<1>5. Details({}) = Empty
  BY DEF Details, Empty
<1>6. Failures({}) = {} /\ Failures(A \cup B) = Failures(A) \cup Failures(B)
  BY DEF Failures
<1> QED
  BY <1>2, <1>3, <1>4, <1>5, <1>6

(* Whoever does the step of a section does not come to it again. *)
LEMMA SectionDone ==
    ASSUME FreshInv, NotedInv, QuietInv, NEW step \in NoteField, Doing(step),
           read'.todo = Tail(read.todo), read'.kind = read.kind, read'.reused = read.reused,
           heavy' = heavy
    PROVE  /\ Waiting(step) /\ ~Waiting(step)'
           /\ \A field \in NoteField : field # step => (Waiting(field)' <=> Waiting(field))
           /\ StagedInOrder' /\ read.queue = {} /\ read.kind # "None"
<1>1. /\ read.todo \in Seq(Step) /\ read.todo # <<>> /\ read.todo[1] = step
      /\ read.kind \in {"None", "Staged", "Fresh"}
  BY DEF FreshInv, ReadOK, Doing, Next1
<1>2. /\ \A i \in DOMAIN read'.todo : i + 1 \in DOMAIN read.todo /\ read'.todo[i] = read.todo[i + 1]
      /\ DOMAIN read'.todo \subseteq 1..Len(read'.todo) /\ DOMAIN read'.todo \subseteq Int
      /\ 1 \in DOMAIN read.todo
  BY <1>1, TailKeeps
<1>3. /\ \A other : Ahead(other) /\ other # step => Ahead(other)'
      /\ \A other : Ahead(other)' => Ahead(other)
  BY <1>1, StepDone DEF FreshInv
<1>4. Ahead(step) /\ read.kind # "None"
  BY <1>1, <1>2 DEF Ahead, NotedInv, StepsFollow
<1>5. step \notin {"Heavy", "Queue", "Details"}
  BY DEF NoteField
<1>6. Staged' <=> Staged
  BY DEF Staged
<1>7. \A other : Ahead(other)' => \E i \in DOMAIN read.todo : 1 < i /\ read.todo[i] = other
  <2>1. \A i \in DOMAIN read'.todo : 1 < i + 1
    BY <1>2
  <2> QED
    BY <1>2, <2>1 DEF Ahead
<1>8. ~Waiting(step)'
  <2>1. CASE Staged
    <3>1. \A other : Ahead(other)' => StagedPlace[step] < StagedPlace[other]
      BY <1>1, <1>2, <1>7, <2>1 DEF QuietInv, StagedInOrder
    <3>2. step \in DOMAIN StagedPlace
      BY <1>1, <1>2, <2>1 DEF QuietInv, StagedInOrder
    <3>3. CASE step \in {"Zones", "Services", "PolicyNames"}
      <4>1. ~Ahead(step)'
        BY <3>1, <3>3 DEF StagedPlace
      <4> QED
        BY <1>6, <2>1, <3>3, <4>1 DEF Waiting
    <3>4. CASE step \in {"IpSets", "DirectRules"}
      <4>1. ~Ahead(step)' /\ ~Ahead("Heavy")'
        BY <3>1, <3>4 DEF StagedPlace
      <4> QED
        BY <3>4, <4>1 DEF Waiting
    <3> QED
      BY <3>2, <3>3, <3>4 DEF StagedPlace, NoteField
  <2>2. CASE read.kind = "Fresh"
    <3>1. \A other : Ahead(other)' => Place[step] < Place[other] /\ other \in DOMAIN Place
      BY <1>1, <1>2, <1>7, <2>2 DEF FreshInv, InOrder
    <3>2. ~Ahead(step)' /\ ~Ahead("Queue")'
      <4>1. Place[step] \in Int
        BY DEF Place, NoteField
      <4> QED
        BY <3>1, <4>1 DEF Place
    <3>3. step = "Zones" \/ ~Ahead("Heavy")'
      BY <3>1 DEF Place, NoteField
    <3> QED
      BY <3>2, <3>3 DEF Waiting
  <2> QED
    BY <1>1, <1>4, <2>1, <2>2 DEF Staged
<1>9. ASSUME NEW field \in NoteField, field # step PROVE Waiting(field)' <=> Waiting(field)
  BY <1>3, <1>5, <1>6, <1>9 DEF Waiting
<1>10. StagedInOrder'
  <2> SUFFICES ASSUME Staged PROVE StagedInOrder'
    BY <1>6 DEF StagedInOrder
  <2>1. \A i, j \in DOMAIN read'.todo : i < j => i + 1 < j + 1
    BY <1>2
  <2> QED
    BY <1>2, <2>1 DEF QuietInv, StagedInOrder
<1>11. read.queue = {}
  <2>1. read.todo # <<"Details">>
    BY <1>1, <1>5
  <2> QED
    BY <2>1 DEF QuietInv, ReadOnce
<1> QED
  BY <1>4, <1>8, <1>9, <1>10, <1>11 DEF Waiting

(* Where the sections are kept that the notes are about. *)
Value ==
    [Zones |-> "zones", Services |-> "services", IpSets |-> "ipsets", DirectRules |-> "direct",
     PolicyNames |-> "names", Policies |-> "policies", Definitions |-> "fetched"]

(* What only reads leaves alone what is shown, and what the firewall answers. *)
LEMMA OldStays ==
    ASSUME UNCHANGED <<firewalld, failing, definitions, shown>>
    PROVE  /\ NamesNow' = NamesNow /\ UndefinedNow' = UndefinedNow
           /\ SlowNotes' = SlowNotes /\ AllNotes' = AllNotes
           /\ \A part : SectionNotes(part)' = SectionNotes(part) /\ Answer(part)' = Answer(part)
           /\ Details(NamesNow)' = Details(NamesNow)
           /\ ShownCurrent' <=> ShownCurrent
           /\ UNCHANGED <<verdict, quiet>> => (QuietIsAccepted' <=> QuietIsAccepted)
<1>1. NamesNow' = NamesNow /\ UndefinedNow' = UndefinedNow
  BY DEF NamesNow, UndefinedNow
<1>2. SlowNotes' = SlowNotes /\ AllNotes' = AllNotes
  BY <1>1 DEF SlowNotes, AllNotes, SectionNotes, Failures
<1>3. \A part : SectionNotes(part)' = SectionNotes(part) /\ Answer(part)' = Answer(part)
  BY DEF SectionNotes, Failures, Answer
<1>4. Details(NamesNow)' = Details(NamesNow)
  BY <1>1 DEF Details
<1>5. ShownCurrent' <=> ShownCurrent
  BY <1>1, <1>2, <1>3, <1>4 DEF ShownCurrent, Restricted
<1>6. UNCHANGED <<verdict, quiet>> => (QuietIsAccepted' <=> QuietIsAccepted)
  BY DEF QuietIsAccepted
<1> QED
  BY <1>1, <1>2, <1>3, <1>4, <1>5, <1>6

LEMMA HeavyStays ==
    ASSUME UNCHANGED <<firewalld, failing>>, heavy'.ipsets = heavy.ipsets,
           heavy'.direct = heavy.direct, heavy'.policies = heavy.policies,
           heavy'.degraded = heavy.degraded
    PROVE  HeavyCurrent' <=> HeavyCurrent
<1>1. NamesNow' = NamesNow
  BY DEF NamesNow
<1>2. SlowNotes' = SlowNotes
  BY <1>1 DEF SlowNotes, SectionNotes, Failures
<1>3. \A part : SectionNotes(part)' = SectionNotes(part) /\ Answer(part)' = Answer(part)
  BY DEF SectionNotes, Failures, Answer
<1>4. Details(NamesNow)' = Details(NamesNow)
  BY <1>1 DEF Details
<1> QED
  BY <1>2, <1>3, <1>4 DEF HeavyCurrent, CacheCurrent

LEMMA CacheStays ==
    ASSUME CacheOutlived, quiet \in Nat, read'.reused => read.reused,
           UNCHANGED <<firewalld, failing, heavy, quiet>>
    PROVE  CacheOutlived'
<1>1. HeavyCurrent' <=> HeavyCurrent
  BY HeavyStays
<1>2. CASE heavy.age >= quiet + 1 + (IF read.reused THEN 1 ELSE 0)
  <2>1. heavy'.age >= quiet' + 1 + (IF read'.reused THEN 1 ELSE 0)
    BY <1>2 DEF CacheOutlived
  <2> QED
    BY <2>1 DEF CacheOutlived
<1>3. CASE HeavyCurrent \/ heavy.age = 0
  BY <1>1, <1>3 DEF CacheOutlived
<1> QED
  BY <1>2, <1>3 DEF CacheOutlived

LEMMA CommandQuiet ==
    ASSUME FreshInv, NotedInv, QuietInv, NEW step \in NoteField, NEW note \in Seq(Note),
           Doing(step), IsInjective(note),
           read'.todo = Tail(read.todo), read'.kind = read.kind, read'.reused = read.reused,
           read'.queue = read.queue, read'.notes = [read.notes EXCEPT ![step] = @ \o note],
           \A other \in NoteField : other # step => read'[Value[other]] = read[Value[other]],
           UNCHANGED <<firewalld, failing, heavy, definitions, shown, verdict, quiet, counted>>,
           read'.notes[step] = note /\ counted /\ ReadCurrent => Current(step)'
    PROVE  QuietInv'
<1>1. /\ Waiting(step) /\ ~Waiting(step)'
      /\ \A field \in NoteField : field # step => (Waiting(field)' <=> Waiting(field))
      /\ StagedInOrder' /\ read.queue = {} /\ read.kind # "None"
  BY SectionDone
<1>2. read.notes \in [NoteField -> Seq(Note)]
  BY DEF NotedInv, NotesOK
<1>3. read.notes[step] = <<>>
  BY <1>1 DEF QuietInv, ReadOnce
<1>4. /\ read'.notes[step] = note
      /\ \A other \in NoteField : other # step => read'.notes[other] = read.notes[other]
  <2>1. <<>> \o note = note
    OBVIOUS
  <2> QED
    BY <1>2, <1>3, <2>1
<1>5. /\ \A other \in NoteField : Waiting(other)' => read'.notes[other] = <<>>
      /\ read'.kind = "Fresh" => \A other \in NoteField : IsInjective(read'.notes[other])
  BY <1>1, <1>4 DEF QuietInv, ReadOnce
<1>6. /\ Waiting("Policies")' => read'.policies = Empty
      /\ Waiting("Definitions")' => read'.fetched = Empty
  <2>1. /\ "Policies" \in NoteField /\ "Definitions" \in NoteField
        /\ Value["Policies"] = "policies" /\ Value["Definitions"] = "fetched"
    BY DEF NoteField, Value
  <2>2. step # "Policies" => read'.policies = read.policies
    BY <2>1
  <2>3. step # "Definitions" => read'.fetched = read.fetched
    BY <2>1
  <2> QED
    BY <1>1, <2>1, <2>2, <2>3 DEF QuietInv, ReadOnce
<1>7. ReadOnce'
  BY <1>1, <1>5, <1>6 DEF ReadOnce
<1>8. ASSUME counted PROVE ReadCurrent'
  <2>1. ReadCurrent
    BY <1>1, <1>8 DEF QuietInv
  <2> SUFFICES ASSUME NEW field \in NoteField, field # step, ~Waiting(field)', ~Skipped(field)'
               PROVE  Current(field)'
    BY <1>4, <1>8, <2>1 DEF ReadCurrent
  <2>2. ~Waiting(field) /\ ~Skipped(field)
    BY <1>1 DEF Skipped
  <2>3. Current(field)
    BY <2>1, <2>2 DEF ReadCurrent
  <2>4. field = "Definitions" => step # "Zones"
    <3>1. Ahead("Zones") => Waiting("Definitions")
      BY DEF NotedInv, StepsFollow, Waiting
    <3>2. step # "Zones" \/ Ahead("Zones")
      <4>1. read.todo \in Seq(Step) /\ read.todo # <<>> /\ read.todo[1] = step
        BY DEF FreshInv, ReadOK, Doing, Next1
      <4> QED
        BY <4>1 DEF Ahead
    <3> QED
      BY <2>2, <3>1, <3>2
  <2>5. field = "Definitions" => MissingDefinitions' = MissingDefinitions
    <3>1. "Zones" \in NoteField /\ Value["Zones"] = "zones"
      BY DEF NoteField, Value
    <3>2. step # "Zones" => read'.zones = read.zones
      BY <3>1
    <3> QED
      BY <2>4, <3>2 DEF MissingDefinitions
  <2>6. NamesNow' = NamesNow
    BY OldStays
  <2>7. NotesNow(field)' = NotesNow(field)
    BY <2>5, <2>6 DEF NotesNow, SectionNotes, Failures
  <2>8. ToSet(read'.notes[field]) = NotesNow(field)'
    BY <1>4, <2>3, <2>7 DEF Current
  <2>9. read'[Value[field]] = read[Value[field]]
    OBVIOUS
  <2>10. \A part : Answer(part)' = Answer(part)
    BY DEF Answer
  <2>11. field = "Policies" => Details(NamesNow \ read.queue)' = Details(NamesNow \ read.queue)
    BY <2>6 DEF Details
  <2>12. field = "Definitions" =>
           Details(MissingDefinitions \ read.queue)' = Details(MissingDefinitions \ read.queue)
    BY <2>5 DEF Details
  <2> QED
    BY <2>3, <2>6, <2>8, <2>9, <2>10, <2>11, <2>12 DEF Current, Value
<1>9. CacheOutlived' /\ (ShownCurrent' <=> ShownCurrent) /\ QuietIsAccepted'
  <2>1. quiet \in Nat
    BY ReadAssumption DEF QuietInv
  <2> QED
    BY <2>1, OldStays, CacheStays DEF QuietInv
<1> QED
  BY <1>1, <1>7, <1>8, <1>9 DEF QuietInv, Staged

-----------------------------------------------------------------------------
LEMMA ReadZonesQuiet == FreshInv /\ NotedInv /\ QuietInv /\ ReadZones => QuietInv'
<1> SUFFICES ASSUME FreshInv, NotedInv, QuietInv, ReadZones PROVE QuietInv'
  OBVIOUS
<1> DEFINE note == Failed("Zones") \o Unavailable("Zones")
<1>1. /\ note \in Seq(Note) /\ IsInjective(note)
      /\ ToSet(note) = SectionNotes("Zones")
  <2>1. /\ note \in Seq(Note) /\ IsInjective(note)
        /\ ToSet(note) = Failures({"Zones"}) \cup (IF Offline THEN {<<"Zones", "offline">>} ELSE {})
    BY AnswerNoted, PartsNamed DEF FreshInv
  <2> HIDE DEF note
  <2> QED
    BY <2>1 DEF SectionNotes
<1>2. /\ read'.todo = Tail(read.todo) /\ read'.kind = read.kind /\ read'.reused = read.reused
      /\ read'.notes = [read.notes EXCEPT !["Zones"] = @ \o note]
      /\ read'.zones = firewalld["Zones"]
      /\ \A field \in {"services", "ipsets", "direct", "names", "policies", "fetched", "queue"} :
            read'[field] = read[field]
  BY DEF ReadZones, Done, FreshInv, ReadOK, Fields
<1> HIDE DEF note
<1>3. /\ UNCHANGED <<firewalld, failing, heavy, definitions, shown, verdict, quiet, counted>>
      /\ Doing("Zones") /\ "Zones" \in NoteField
  BY DEF ReadZones, caches, outcome, history, NoteField
<1>4. \A other \in NoteField : other # "Zones" => read'[Value[other]] = read[Value[other]]
  BY <1>2 DEF NoteField, Value
<1>5. SectionNotes("Zones")' = SectionNotes("Zones")
  BY <1>3 DEF SectionNotes, Failures
<1>6. read'.notes["Zones"] = note => Current("Zones")'
  BY <1>1, <1>2, <1>3, <1>5 DEF Current, NotesNow
<1> QED
  BY <1>1, <1>2, <1>3, <1>4, <1>6, CommandQuiet

LEMMA ReadServicesQuiet == FreshInv /\ NotedInv /\ QuietInv /\ ReadServices => QuietInv'
<1> SUFFICES ASSUME FreshInv, NotedInv, QuietInv, ReadServices PROVE QuietInv'
  OBVIOUS
<1> DEFINE note == Failed("Services")
<1>1. /\ note \in Seq(Note) /\ IsInjective(note)
      /\ ToSet(note) = SectionNotes("Services")
  <2>1. /\ note \in Seq(Note) /\ IsInjective(note)
        /\ ToSet(note) = Failures({"Services"})
    BY AnswerNoted, PartsNamed DEF FreshInv
  <2> HIDE DEF note
  <2> QED
    BY <2>1 DEF SectionNotes
<1>2. /\ read'.todo = Tail(read.todo) /\ read'.kind = read.kind /\ read'.reused = read.reused
      /\ read'.notes = [read.notes EXCEPT !["Services"] = @ \o note]
      /\ read'.services = Answer("Services")
      /\ \A field \in {"zones", "ipsets", "direct", "names", "policies", "fetched", "queue"} :
            read'[field] = read[field]
  BY DEF ReadServices, Done, FreshInv, ReadOK, Fields
<1> HIDE DEF note
<1>3. /\ UNCHANGED <<firewalld, failing, heavy, definitions, shown, verdict, quiet, counted>>
      /\ Doing("Services") /\ "Services" \in NoteField
  BY DEF ReadServices, caches, outcome, history, NoteField
<1>4. \A other \in NoteField : other # "Services" => read'[Value[other]] = read[Value[other]]
  BY <1>2 DEF NoteField, Value
<1>5. /\ SectionNotes("Services")' = SectionNotes("Services")
      /\ (Answer("Services"))' = Answer("Services")
  BY <1>3 DEF SectionNotes, Failures, Answer, NamesNow
<1>6. read'.notes["Services"] = note => Current("Services")'
  BY <1>1, <1>2, <1>3, <1>5 DEF Current, NotesNow
<1> QED
  BY <1>1, <1>2, <1>3, <1>4, <1>6, CommandQuiet

LEMMA ReadIpSetsQuiet == FreshInv /\ NotedInv /\ QuietInv /\ ReadIpSets => QuietInv'
<1> SUFFICES ASSUME FreshInv, NotedInv, QuietInv, ReadIpSets PROVE QuietInv'
  OBVIOUS
<1> DEFINE note == Failed("IpSets") \o Unavailable("IpSets")
<1>1. /\ note \in Seq(Note) /\ IsInjective(note)
      /\ ToSet(note) = SectionNotes("IpSets")
  <2>1. /\ note \in Seq(Note) /\ IsInjective(note)
        /\ ToSet(note) = Failures({"IpSets"}) \cup (IF Offline THEN {<<"IpSets", "offline">>} ELSE {})
    BY AnswerNoted, PartsNamed DEF FreshInv
  <2> HIDE DEF note
  <2> QED
    BY <2>1 DEF SectionNotes
<1>2. /\ read'.todo = Tail(read.todo) /\ read'.kind = read.kind /\ read'.reused = read.reused
      /\ read'.notes = [read.notes EXCEPT !["IpSets"] = @ \o note]
      /\ read'.ipsets = Answer("IpSets")
      /\ \A field \in {"zones", "services", "direct", "names", "policies", "fetched", "queue"} :
            read'[field] = read[field]
  BY DEF ReadIpSets, Done, FreshInv, ReadOK, Fields
<1> HIDE DEF note
<1>3. /\ UNCHANGED <<firewalld, failing, heavy, definitions, shown, verdict, quiet, counted>>
      /\ Doing("IpSets") /\ "IpSets" \in NoteField
  BY DEF ReadIpSets, caches, outcome, history, NoteField
<1>4. \A other \in NoteField : other # "IpSets" => read'[Value[other]] = read[Value[other]]
  BY <1>2 DEF NoteField, Value
<1>5. /\ SectionNotes("IpSets")' = SectionNotes("IpSets")
      /\ (Answer("IpSets"))' = Answer("IpSets")
  BY <1>3 DEF SectionNotes, Failures, Answer, NamesNow
<1>6. read'.notes["IpSets"] = note => Current("IpSets")'
  BY <1>1, <1>2, <1>3, <1>5 DEF Current, NotesNow
<1> QED
  BY <1>1, <1>2, <1>3, <1>4, <1>6, CommandQuiet

LEMMA ReadDirectRulesQuiet == FreshInv /\ NotedInv /\ QuietInv /\ ReadDirectRules => QuietInv'
<1> SUFFICES ASSUME FreshInv, NotedInv, QuietInv, ReadDirectRules PROVE QuietInv'
  OBVIOUS
<1> DEFINE note == Failed("DirectRules")
<1>1. /\ note \in Seq(Note) /\ IsInjective(note)
      /\ ToSet(note) = SectionNotes("DirectRules")
  <2>1. /\ note \in Seq(Note) /\ IsInjective(note)
        /\ ToSet(note) = Failures({"DirectRules"})
    BY AnswerNoted, PartsNamed DEF FreshInv
  <2> HIDE DEF note
  <2> QED
    BY <2>1 DEF SectionNotes
<1>2. /\ read'.todo = Tail(read.todo) /\ read'.kind = read.kind /\ read'.reused = read.reused
      /\ read'.notes = [read.notes EXCEPT !["DirectRules"] = @ \o note]
      /\ read'.direct = Answer("DirectRules")
      /\ \A field \in {"zones", "services", "ipsets", "names", "policies", "fetched", "queue"} :
            read'[field] = read[field]
  BY DEF ReadDirectRules, Done, FreshInv, ReadOK, Fields
<1> HIDE DEF note
<1>3. /\ UNCHANGED <<firewalld, failing, heavy, definitions, shown, verdict, quiet, counted>>
      /\ Doing("DirectRules") /\ "DirectRules" \in NoteField
  BY DEF ReadDirectRules, caches, outcome, history, NoteField
<1>4. \A other \in NoteField : other # "DirectRules" => read'[Value[other]] = read[Value[other]]
  BY <1>2 DEF NoteField, Value
<1>5. /\ SectionNotes("DirectRules")' = SectionNotes("DirectRules")
      /\ (Answer("DirectRules"))' = Answer("DirectRules")
  BY <1>3 DEF SectionNotes, Failures, Answer, NamesNow
<1>6. read'.notes["DirectRules"] = note => Current("DirectRules")'
  BY <1>1, <1>2, <1>3, <1>5 DEF Current, NotesNow
<1> QED
  BY <1>1, <1>2, <1>3, <1>4, <1>6, CommandQuiet

LEMMA ReadPolicyNamesQuiet == FreshInv /\ NotedInv /\ QuietInv /\ ReadPolicyNames => QuietInv'
<1> SUFFICES ASSUME FreshInv, NotedInv, QuietInv, ReadPolicyNames PROVE QuietInv'
  OBVIOUS
<1> DEFINE note == Failed("PolicyNames") \o Unavailable("PolicyNames")
<1>1. /\ note \in Seq(Note) /\ IsInjective(note)
      /\ ToSet(note) = SectionNotes("PolicyNames")
  <2>1. /\ note \in Seq(Note) /\ IsInjective(note)
        /\ ToSet(note) = Failures({"PolicyNames"}) \cup (IF Offline THEN {<<"PolicyNames", "offline">>} ELSE {})
    BY AnswerNoted, PartsNamed DEF FreshInv
  <2> HIDE DEF note
  <2> QED
    BY <2>1 DEF SectionNotes
<1>2. /\ read'.todo = Tail(read.todo) /\ read'.kind = read.kind /\ read'.reused = read.reused
      /\ read'.notes = [read.notes EXCEPT !["PolicyNames"] = @ \o note]
      /\ read'.names = NamesNow
      /\ \A field \in {"zones", "services", "ipsets", "direct", "policies", "fetched", "queue"} :
            read'[field] = read[field]
  BY DEF ReadPolicyNames, Done, FreshInv, ReadOK, Fields, NamesNow
<1> HIDE DEF note
<1>3. /\ UNCHANGED <<firewalld, failing, heavy, definitions, shown, verdict, quiet, counted>>
      /\ Doing("PolicyNames") /\ "PolicyNames" \in NoteField
  BY DEF ReadPolicyNames, caches, outcome, history, NoteField
<1>4. \A other \in NoteField : other # "PolicyNames" => read'[Value[other]] = read[Value[other]]
  BY <1>2 DEF NoteField, Value
<1>5. /\ SectionNotes("PolicyNames")' = SectionNotes("PolicyNames")
      /\ (NamesNow)' = NamesNow
  BY <1>3 DEF SectionNotes, Failures, Answer, NamesNow
<1>6. read'.notes["PolicyNames"] = note => Current("PolicyNames")'
  BY <1>1, <1>2, <1>3, <1>5 DEF Current, NotesNow
<1> QED
  BY <1>1, <1>2, <1>3, <1>4, <1>6, CommandQuiet

LEMMA ReadPoliciesQuiet == FreshInv /\ NotedInv /\ QuietInv /\ ReadPolicies => QuietInv'
<1> SUFFICES ASSUME FreshInv, NotedInv, QuietInv, ReadPolicies PROVE QuietInv'
  OBVIOUS
<1>1. PICK note \in DetailFailures(read.names) :
         read' = [Done("Policies", note) EXCEPT !.policies = Details(read.names)]
  BY DEF ReadPolicies
<1>2. note \in Seq(Note) /\ IsInjective(note) /\ ToSet(note) = Failures(read.names)
  <2>1. read.names \in SUBSET Part /\ IsFiniteSet(read.names)
    BY PartsNamed, ReadAssumption, FS_Subset DEF NotedInv, NotesOK
  <2> QED
    BY <2>1, FailuresNoted
<1>3. /\ read'.todo = Tail(read.todo) /\ read'.kind = read.kind /\ read'.reused = read.reused
      /\ read'.notes = [read.notes EXCEPT !["Policies"] = @ \o note]
      /\ read'.policies = Details(read.names)
      /\ \A field \in {"zones", "services", "ipsets", "direct", "names", "fetched", "queue"} :
            read'[field] = read[field]
  BY <1>1 DEF Done, FreshInv, ReadOK, Fields
<1>4. /\ UNCHANGED <<firewalld, failing, heavy, definitions, shown, verdict, quiet, counted>>
      /\ Doing("Policies") /\ "Policies" \in NoteField
  BY DEF ReadPolicies, caches, outcome, history, NoteField
<1>5. \A other \in NoteField : other # "Policies" => read'[Value[other]] = read[Value[other]]
  BY <1>3 DEF NoteField, Value
<1>6. ASSUME read'.notes["Policies"] = note, ReadCurrent PROVE Current("Policies")'
  <2>1. read.queue = {} /\ read.kind # "None"
    BY <1>3, <1>4, SectionDone
  <2>2. ~Staged
    <3>1. read.todo \in Seq(Step) /\ read.todo # <<>> /\ read.todo[1] = "Policies"
      BY <1>4 DEF FreshInv, ReadOK, Doing, Next1
    <3> QED
      BY <3>1 DEF QuietInv, StagedInOrder, StagedPlace
  <2>3. read.kind = "Fresh"
    BY <2>1, <2>2 DEF FreshInv, ReadOK, Staged
  <2>4. ~Ahead("Heavy") /\ ~Ahead("PolicyNames")
    BY <1>4, <2>3, PoliciesLast DEF FreshInv
  <2>5. read.names = NamesNow
    BY <1>6, <2>4 DEF ReadCurrent, Waiting, Skipped, Current, NoteField
  <2>6. NamesNow' = NamesNow
    BY <1>4 DEF NamesNow
  <2>7. NamesNow' \ read'.queue = read.names
    BY <1>3, <2>1, <2>5, <2>6
  <2>8. read'.policies = Details(NamesNow \ read.queue)'
    BY <1>3, <1>4, <2>7 DEF Details
  <2>9. ToSet(note) = Failures(NamesNow \ read.queue)'
    BY <1>2, <1>4, <2>7 DEF Failures
  <2> QED
    BY <1>6, <2>8, <2>9 DEF Current, NotesNow
<1> QED
  BY <1>2, <1>3, <1>4, <1>5, <1>6, CommandQuiet

LEMMA ReadDefinitionsQuiet == FreshInv /\ NotedInv /\ QuietInv /\ ReadDefinitions => QuietInv'
<1> SUFFICES ASSUME FreshInv, NotedInv, QuietInv, ReadDefinitions PROVE QuietInv'
  OBVIOUS
<1>1. PICK note \in DetailFailures(MissingDefinitions) :
         read' = [Done("Definitions", note) EXCEPT !.fetched = Details(MissingDefinitions)]
  BY DEF ReadDefinitions
<1>2. /\ UNCHANGED <<firewalld, failing, heavy, definitions, shown, verdict, quiet, counted>>
      /\ Doing("Definitions") /\ "Definitions" \in NoteField
  BY DEF ReadDefinitions, caches, outcome, history, NoteField
<1>3. note \in Seq(Note) /\ IsInjective(note) /\ ToSet(note) = Failures(MissingDefinitions)
  <2>1. read.kind # "None" /\ ~Ahead("Zones")
    BY <1>2, ZonesBeforeDefinitions
  <2> QED
    BY <2>1, MissingAreServices, FailuresNoted
<1>4. /\ read'.todo = Tail(read.todo) /\ read'.kind = read.kind /\ read'.reused = read.reused
      /\ read'.notes = [read.notes EXCEPT !["Definitions"] = @ \o note]
      /\ read'.fetched = Details(MissingDefinitions)
      /\ \A field \in {"zones", "services", "ipsets", "direct", "names", "policies", "queue"} :
            read'[field] = read[field]
  BY <1>1 DEF Done, FreshInv, ReadOK, Fields
<1>5. \A other \in NoteField : other # "Definitions" => read'[Value[other]] = read[Value[other]]
  BY <1>4 DEF NoteField, Value
<1>6. ASSUME read'.notes["Definitions"] = note PROVE Current("Definitions")'
  <2>1. read.queue = {}
    BY <1>2, <1>4, SectionDone
  <2>2. MissingDefinitions' = MissingDefinitions
    BY <1>2, <1>4 DEF MissingDefinitions
  <2>3. MissingDefinitions' \ read'.queue = MissingDefinitions
    BY <1>4, <2>1, <2>2
  <2> HIDE DEF MissingDefinitions
  <2>4. read'.fetched = Details(MissingDefinitions \ read.queue)'
    BY <1>2, <1>4, <2>3 DEF Details
  <2>5. ToSet(note) = Failures(MissingDefinitions \ read.queue)'
    BY <1>2, <1>3, <2>3 DEF Failures
  <2> QED
    BY <1>6, <2>4, <2>5 DEF Current, NotesNow
<1> QED
  BY <1>2, <1>3, <1>4, <1>5, <1>6, CommandQuiet

-----------------------------------------------------------------------------
LEMMA DecideHeavyQuiet == FreshInv /\ NotedInv /\ QuietInv /\ DecideHeavy => QuietInv'
<1> SUFFICES ASSUME FreshInv, NotedInv, QuietInv, DecideHeavy PROVE QuietInv'
  OBVIOUS
<1>1. \A other : Ahead(other) <=> other = "Heavy"
  BY Alone DEF DecideHeavy
<1>2. /\ read'.kind = read.kind /\ read'.reused = Young
      /\ read'.todo = (IF Young THEN AfterReuse ELSE AfterFetch)
      /\ \A field \in {"zones", "services", "ipsets", "direct", "names", "policies", "fetched",
                       "queue", "notes"} :
            read'[field] = read[field]
  BY DEF DecideHeavy, FreshInv, ReadOK, Fields
<1>3. UNCHANGED <<firewalld, failing, definitions, shown, verdict, quiet, counted>>
  BY DEF DecideHeavy, outcome, history
<1>4. heavy' = IF Young THEN [heavy EXCEPT !.age = @ + 1] ELSE heavy
  BY DEF DecideHeavy
<1>5. Young <=> heavy.age \in 1..(HeavyEvery - 1)
  BY DEF Young
<1>6. read.kind = "Fresh" => ~Young
  BY <1>1, <1>5 DEF FreshInv, InOrder
<1>7. read.kind # "None"
  BY <1>1 DEF NotedInv, StepsFollow, Ahead
<1>8. read.queue = {}
  <2>1. read.todo # <<"Details">>
    BY DEF DecideHeavy, Doing, Next1
  <2> QED
    BY <2>1 DEF QuietInv, ReadOnce
<1>9. /\ Young => Staged /\ read'.todo = <<"Queue">>
      /\ ~Young /\ Staged => read'.todo = <<"IpSets", "DirectRules", "Queue">>
      /\ ~Young /\ ~Staged =>
            read'.todo = <<"IpSets", "DirectRules", "Services", "PolicyNames", "Policies", "Definitions">>
  BY <1>2, <1>6, <1>7 DEF AfterReuse, AfterFetch, FreshInv, ReadOK, Staged
<1> HIDE DEF Young
<1>10. /\ Young => \A other : Ahead(other)' <=> other = "Queue"
       /\ ~Young /\ Staged => \A other : Ahead(other)' <=> other \in {"IpSets", "DirectRules", "Queue"}
       /\ ~Young /\ ~Staged =>
             \A other : Ahead(other)' <=> other \in {"IpSets", "DirectRules", "Services", "PolicyNames",
                                                     "Policies", "Definitions"}
       /\ StagedInOrder'
  <2>1. CASE Young
    <3>1. read'.todo[1] = "Queue" /\ DOMAIN read'.todo = 1..1
      BY <1>9, <2>1
    <3>2. \A i \in DOMAIN read'.todo : i = 1
      BY <3>1
    <3>3. \A other : Ahead(other)' <=> other = "Queue"
      BY <3>1, <3>2 DEF Ahead
    <3>4. StagedInOrder'
      BY <3>1, <3>2 DEF StagedInOrder, StagedPlace
    <3> QED
      BY <2>1, <3>3, <3>4
  <2>2. CASE ~Young /\ Staged
    <3>1. /\ read'.todo[1] = "IpSets" /\ read'.todo[2] = "DirectRules" /\ read'.todo[3] = "Queue"
          /\ DOMAIN read'.todo = 1..3
      BY <1>9, <2>2
    <3>2. \A i \in DOMAIN read'.todo : i = 1 \/ i = 2 \/ i = 3
      BY <3>1
    <3>3. \A other : Ahead(other)' <=> other \in {"IpSets", "DirectRules", "Queue"}
      BY <3>1, <3>2 DEF Ahead
    <3>4. StagedInOrder'
      BY <3>1, <3>2 DEF StagedInOrder, StagedPlace
    <3> QED
      BY <2>2, <3>3, <3>4
  <2>3. CASE ~Young /\ ~Staged
    <3>1. /\ read'.todo[1] = "IpSets" /\ read'.todo[2] = "DirectRules" /\ read'.todo[3] = "Services"
          /\ read'.todo[4] = "PolicyNames" /\ read'.todo[5] = "Policies"
          /\ read'.todo[6] = "Definitions" /\ DOMAIN read'.todo = 1..6
      BY <1>9, <2>3
    <3>2. \A i \in DOMAIN read'.todo : i = 1 \/ i = 2 \/ i = 3 \/ i = 4 \/ i = 5 \/ i = 6
      BY <3>1
    <3>3. \A other : Ahead(other)' <=> other \in {"IpSets", "DirectRules", "Services", "PolicyNames",
                                                  "Policies", "Definitions"}
      BY <3>1, <3>2 DEF Ahead
    <3> QED
      BY <1>2, <2>3, <3>3 DEF StagedInOrder, Staged
  <2> QED
    BY <2>1, <2>2, <2>3
<1>11. /\ Staged' <=> Staged
       /\ \A field \in NoteField : Waiting(field)' => Waiting(field)
       /\ \A field \in NoteField : ~Waiting(field)' /\ ~Skipped(field)' => ~Waiting(field) /\ ~Skipped(field)
  <2>1. Staged' <=> Staged
    BY <1>2 DEF Staged
  <2>2. CASE Young
    BY <1>1, <1>2, <1>9, <1>10, <2>1, <2>2 DEF Waiting, Skipped, NoteField
  <2>3. CASE ~Young /\ Staged
    BY <1>1, <1>2, <1>10, <2>1, <2>3 DEF Waiting, Skipped, NoteField
  <2>4. CASE ~Young /\ ~Staged
    BY <1>1, <1>2, <1>10, <2>1, <2>4 DEF Waiting, Skipped, NoteField
  <2> QED
    BY <2>1, <2>2, <2>3, <2>4
<1>12. ReadOnce'
  BY <1>2, <1>8, <1>11 DEF QuietInv, ReadOnce, NoteField
<1>13. /\ NamesNow' = NamesNow /\ (ShownCurrent' <=> ShownCurrent) /\ QuietIsAccepted'
       /\ \A part : SectionNotes(part)' = SectionNotes(part) /\ Answer(part)' = Answer(part)
  BY <1>3, OldStays DEF QuietInv
<1>14. ASSUME counted PROVE ReadCurrent'
  <2> SUFFICES ASSUME NEW field \in NoteField, ~Waiting(field)', ~Skipped(field)'
               PROVE  Current(field)'
    BY DEF ReadCurrent
  <2>1. ~Waiting(field) /\ ~Skipped(field)
    BY <1>11
  <2>2. Current(field)
    BY <1>7, <1>14, <2>1 DEF QuietInv, ReadCurrent
  <2>3. field \notin {"Policies", "Definitions"}
    BY <1>1, <2>1 DEF Waiting
  <2> QED
    BY <1>2, <1>3, <1>13, <2>2, <2>3 DEF Current, NotesNow
<1>15. CacheOutlived'
  <2>1. heavy.age \in 0..HeavyEvery /\ quiet \in 0..HeavyEvery /\ HeavyEvery \in Nat
    BY ReadAssumption DEF QuietInv, CacheOutlived
  <2>2. CASE ~Young
    <3>1. heavy' = heavy /\ (read'.reused => read.reused) /\ quiet \in Nat
      BY <1>2, <1>4, <2>1, <2>2
    <3> QED
      BY <1>3, <3>1, CacheStays DEF QuietInv
  <2>3. CASE Young
    <3>1. heavy' = [heavy EXCEPT !.age = @ + 1]
      BY <1>4, <2>3
    <3>2. /\ heavy'.age = heavy.age + 1
          /\ heavy'.ipsets = heavy.ipsets /\ heavy'.direct = heavy.direct
          /\ heavy'.policies = heavy.policies /\ heavy'.degraded = heavy.degraded
      BY <3>1 DEF FreshInv, ReadOK
    <3>3. HeavyCurrent' <=> HeavyCurrent
      BY <1>3, <3>2, HeavyStays
    <3>4. heavy'.age \in 0..HeavyEvery /\ heavy'.age >= 2
      BY <1>5, <2>1, <2>3, <3>2
    <3>5. HeavyCurrent \/ heavy'.age >= quiet + 1 + 1
      <4>1. CASE heavy.age >= quiet + 1 + (IF read.reused THEN 1 ELSE 0)
        <5>1. heavy.age >= quiet + 1
          BY <2>1, <4>1
        <5> QED
          BY <2>1, <3>2, <5>1
      <4> QED
        BY <1>5, <2>1, <2>3, <4>1 DEF QuietInv, CacheOutlived
    <3>6. read'.reused
      BY <1>2, <2>3
    <3> QED
      BY <1>3, <3>3, <3>4, <3>5, <3>6 DEF CacheOutlived
  <2> QED
    BY <2>2, <2>3
<1> QED
  BY <1>2, <1>3, <1>10, <1>11, <1>12, <1>13, <1>14, <1>15 DEF QuietInv

(* The steps of a staged read that fetch details, what is fetched apart. *)
LEMMA DetailQuiet ==
    ASSUME FreshInv, NotedInv, QuietInv, NEW step \in {"Queue", "Details"}, Doing(step),
           read'.kind = read.kind, read'.reused = read.reused,
           read'.todo = <<"Details">> \/ (read'.todo = <<>> /\ read'.queue = {}),
           \A field \in {"zones", "services", "ipsets", "direct", "names"} :
              read'[field] = read[field],
           read'.queue \subseteq MissingDefinitions \cup (IF read.reused THEN {} ELSE read.names),
           \A field \in NoteField \ {"Policies", "Definitions"} : read'.notes[field] = read.notes[field],
           UNCHANGED <<firewalld, failing, heavy, definitions, shown, verdict, quiet, counted>>,
           counted /\ ReadCurrent => (read.reused \/ Current("Policies")') /\ Current("Definitions")'
    PROVE  QuietInv'
<1>1. /\ \A other : Ahead(other) <=> other = step
      /\ read.kind # "None"
  BY Alone
<1>2. Staged
  <2>1. read.todo \in Seq(Step) /\ read.todo # <<>> /\ read.todo[1] = step /\ 1 \in DOMAIN read.todo
    BY DEF FreshInv, ReadOK, Doing, Next1
  <2>2. read.kind # "Fresh"
    BY <2>1 DEF FreshInv, InOrder, Place
  <2> QED
    BY <1>1, <2>2 DEF FreshInv, ReadOK, Staged
<1>3. \A other : Ahead(other)' => other = "Details"
  <2>1. CASE read'.todo = <<"Details">>
    <3>1. read'.todo[1] = "Details" /\ DOMAIN read'.todo = 1..1
      BY <2>1
    <3>2. \A i \in DOMAIN read'.todo : i = 1
      BY <3>1
    <3> QED
      BY <3>1, <3>2 DEF Ahead
  <2>2. CASE read'.todo = <<>>
    BY <2>2 DEF Ahead
  <2> QED
    BY <2>1, <2>2
<1>4. StagedInOrder'
  <2>1. CASE read'.todo = <<"Details">>
    <3>1. read'.todo[1] = "Details" /\ DOMAIN read'.todo = 1..1
      BY <2>1
    <3>2. \A i \in DOMAIN read'.todo : i = 1
      BY <3>1
    <3> QED
      BY <3>1, <3>2 DEF StagedInOrder, StagedPlace
  <2>2. CASE read'.todo = <<>>
    BY <2>2 DEF StagedInOrder
  <2> QED
    BY <2>1, <2>2
<1>5. \A field \in NoteField : ~Waiting(field)'
  BY <1>3 DEF Waiting, NoteField
<1>6. MissingDefinitions' = MissingDefinitions
  BY DEF MissingDefinitions
<1>7. ReadOnce'
  <2>1. ~Waiting("Policies")' /\ ~Waiting("Definitions")'
    BY <1>5 DEF NoteField
  <2>2. read'.kind # "Fresh"
    BY <1>2 DEF Staged
  <2> HIDE DEF MissingDefinitions
  <2> QED
    BY <1>5, <1>6, <2>1, <2>2 DEF ReadOnce
<1>8. /\ NamesNow' = NamesNow /\ (ShownCurrent' <=> ShownCurrent) /\ QuietIsAccepted'
      /\ \A part : SectionNotes(part)' = SectionNotes(part) /\ Answer(part)' = Answer(part)
  BY OldStays DEF QuietInv
<1>9. CacheOutlived'
  <2>1. quiet \in Nat
    BY ReadAssumption DEF QuietInv
  <2> QED
    BY <2>1, CacheStays DEF QuietInv
<1>10. ASSUME counted PROVE ReadCurrent'
  <2>1. ReadCurrent
    BY <1>1, <1>10 DEF QuietInv
  <2> SUFFICES ASSUME NEW field \in NoteField, ~Skipped(field)' PROVE Current(field)'
    BY DEF ReadCurrent
  <2>2. CASE field \in {"Policies", "Definitions"}
    BY <1>10, <2>1, <2>2 DEF Skipped
  <2>3. CASE field \notin {"Policies", "Definitions"}
    <3>1. ~Waiting(field) /\ ~Skipped(field)
      BY <1>1, <1>2, <2>3 DEF Waiting, Skipped, NoteField
    <3>2. Current(field)
      BY <2>1, <3>1 DEF ReadCurrent
    <3>3. read'.notes[field] = read.notes[field]
      BY <2>3
    <3> QED
      BY <1>8, <2>3, <3>2, <3>3 DEF Current, NotesNow
  <2> QED
    BY <2>2, <2>3
<1>11. Staged' <=> Staged
  BY DEF Staged
<1> QED
  BY <1>4, <1>7, <1>8, <1>9, <1>10, <1>11 DEF QuietInv

LEMMA QueueDetailsQuiet == FreshInv /\ NotedInv /\ QuietInv /\ QueueDetails => QuietInv'
<1> SUFFICES ASSUME FreshInv, NotedInv, QuietInv, QueueDetails PROVE QuietInv'
  OBVIOUS
<1>1. /\ read'.kind = read.kind /\ read'.reused = read.reused /\ read'.todo = <<"Details">>
      /\ \A field \in {"zones", "services", "ipsets", "direct", "names", "policies", "fetched",
                       "notes"} :
            read'[field] = read[field]
      /\ read'.queue = MissingDefinitions \cup (IF read.reused THEN {} ELSE read.names)
  BY DEF QueueDetails, FreshInv, ReadOK, Fields
<1>2. /\ UNCHANGED <<firewalld, failing, heavy, definitions, shown, verdict, quiet, counted>>
      /\ Doing("Queue")
  BY DEF QueueDetails, caches, outcome, history
<1>3. \A other : Ahead(other) <=> other = "Queue"
  BY <1>2, Alone
<1>4. /\ read.policies = Empty /\ read.fetched = Empty
      /\ read.notes["Policies"] = <<>> /\ read.notes["Definitions"] = <<>>
  BY <1>3 DEF QuietInv, ReadOnce, Waiting, NoteField
<1>5. MissingDefinitions' = MissingDefinitions /\ NamesNow' = NamesNow
  BY <1>1, <1>2 DEF MissingDefinitions, NamesNow
<1> HIDE DEF MissingDefinitions
<1>6. Details({})' = Empty /\ Failures({})' = {} /\ ToSet(<<>>) = {}
  BY OfNothing DEF Details, Failures, Empty
<1>7. Current("Definitions")'
  <2>1. MissingDefinitions' \ read'.queue = {}
    BY <1>1, <1>5
  <2>2. Details(MissingDefinitions \ read.queue)' = Empty /\ Failures(MissingDefinitions \ read.queue)' = {}
    BY <1>6, <2>1
  <2> QED
    BY <1>1, <1>4, <1>6, <2>2 DEF Current, NotesNow
<1>8. ASSUME ReadCurrent PROVE read.reused \/ Current("Policies")'
  <2> SUFFICES ASSUME ~read.reused PROVE Current("Policies")'
    OBVIOUS
  <2>1. ~Waiting("PolicyNames") /\ ~Skipped("PolicyNames")
    BY <1>3 DEF Waiting, Skipped
  <2>2. read.names = NamesNow
    BY <1>8, <2>1 DEF ReadCurrent, Current, NoteField
  <2>3. NamesNow' \ read'.queue = {}
    BY <1>1, <1>5, <2>2
  <2>4. Details(NamesNow \ read.queue)' = Empty /\ Failures(NamesNow \ read.queue)' = {}
    BY <1>6, <2>3
  <2> QED
    BY <1>1, <1>4, <1>6, <2>4 DEF Current, NotesNow
<1> QED
  BY <1>1, <1>2, <1>7, <1>8, DetailQuiet

LEMMA EndDetailsQuiet == FreshInv /\ NotedInv /\ QuietInv /\ EndDetails => QuietInv'
<1> SUFFICES ASSUME FreshInv, NotedInv, QuietInv, EndDetails PROVE QuietInv'
  OBVIOUS
<1>1. /\ read'.kind = read.kind /\ read'.reused = read.reused /\ read'.todo = <<>>
      /\ \A field \in {"zones", "services", "ipsets", "direct", "names", "policies", "fetched",
                       "queue", "notes"} :
            read'[field] = read[field]
      /\ read.queue = {}
  BY DEF EndDetails, FreshInv, ReadOK, Fields
<1>2. /\ UNCHANGED <<firewalld, failing, heavy, definitions, shown, verdict, quiet, counted>>
      /\ Doing("Details")
  BY DEF EndDetails, caches, outcome, history
<1>3. \A other : Ahead(other) <=> other = "Details"
  BY <1>2, Alone
<1>4. MissingDefinitions' = MissingDefinitions /\ NamesNow' = NamesNow
  BY <1>1, <1>2 DEF MissingDefinitions, NamesNow
<1> HIDE DEF MissingDefinitions
<1>5. /\ Details(NamesNow \ read.queue)' = Details(NamesNow \ read.queue)
      /\ Failures(NamesNow \ read.queue)' = Failures(NamesNow \ read.queue)
      /\ Details(MissingDefinitions \ read.queue)' = Details(MissingDefinitions \ read.queue)
      /\ Failures(MissingDefinitions \ read.queue)' = Failures(MissingDefinitions \ read.queue)
  BY <1>1, <1>2, <1>4 DEF Details, Failures
<1>6. ASSUME ReadCurrent PROVE (read.reused \/ Current("Policies")') /\ Current("Definitions")'
  <2>1. ~Waiting("Policies") /\ ~Waiting("Definitions") /\ ~Skipped("Definitions")
        /\ (read.reused \/ ~Skipped("Policies"))
    BY <1>3 DEF Waiting, Skipped
  <2>2. Current("Definitions") /\ (read.reused \/ Current("Policies"))
    BY <1>6, <2>1 DEF ReadCurrent, NoteField
  <2> QED
    BY <1>1, <1>5, <2>2 DEF Current, NotesNow
<1> QED
  BY <1>1, <1>2, <1>6, DetailQuiet

LEMMA FetchDetailsQuiet == FreshInv /\ NotedInv /\ QuietInv /\ FetchDetails => QuietInv'
<1> SUFFICES ASSUME FreshInv, NotedInv, QuietInv, FetchDetails PROVE QuietInv'
  OBVIOUS
<1>1. PICK batch \in SUBSET read.queue :
         \E policyNote \in DetailFailures(batch \cap Policy),
            serviceNote \in DetailFailures(batch \cap Service) :
            read' = [read EXCEPT
                       !.queue = @ \ batch,
                       !.policies = Extended(@, Details(batch \cap Policy)),
                       !.fetched = Extended(@, Details(batch \cap Service)),
                       !.notes.Policies = @ \o policyNote,
                       !.notes.Definitions = @ \o serviceNote]
  BY DEF FetchDetails
<1>2. PICK policyNote \in DetailFailures(batch \cap Policy),
           serviceNote \in DetailFailures(batch \cap Service) :
         read' = [read EXCEPT
                    !.queue = @ \ batch,
                    !.policies = Extended(@, Details(batch \cap Policy)),
                    !.fetched = Extended(@, Details(batch \cap Service)),
                    !.notes.Policies = @ \o policyNote,
                    !.notes.Definitions = @ \o serviceNote]
  BY <1>1
<1>3. /\ UNCHANGED <<firewalld, failing, heavy, definitions, shown, verdict, quiet, counted>>
      /\ Doing("Details") /\ read.queue # {}
  BY DEF FetchDetails, caches, outcome, history
<1>4. /\ read'.kind = read.kind /\ read'.reused = read.reused /\ read'.todo = read.todo
      /\ \A field \in {"zones", "services", "ipsets", "direct", "names"} : read'[field] = read[field]
      /\ read'.queue = read.queue \ batch
      /\ read'.policies = Extended(read.policies, Details(batch \cap Policy))
      /\ read'.fetched = Extended(read.fetched, Details(batch \cap Service))
      /\ read'.notes = [read.notes EXCEPT !["Policies"] = @ \o policyNote,
                                          !["Definitions"] = @ \o serviceNote]
  BY <1>2 DEF FreshInv, ReadOK, Fields, NotedInv, NotesOK, NoteField
<1> DEFINE oldPolicies == read.notes["Policies"]
<1> DEFINE oldDefinitions == read.notes["Definitions"]
<1>5. oldPolicies \in Seq(Note) /\ oldDefinitions \in Seq(Note)
  BY DEF NotedInv, NotesOK, NoteField
<1>6. /\ read'.notes["Policies"] = oldPolicies \o policyNote
      /\ read'.notes["Definitions"] = oldDefinitions \o serviceNote
      /\ \A field \in NoteField \ {"Policies", "Definitions"} : read'.notes[field] = read.notes[field]
  BY <1>4 DEF NotedInv, NotesOK, NoteField
<1>7. policyNote \in Seq(Note) /\ ToSet(policyNote) = Failures(batch \cap Policy)
  <2>1. batch \cap Policy \in SUBSET Part /\ IsFiniteSet(batch \cap Policy)
    BY ReadAssumption, FS_Subset DEF Part
  <2> QED
    BY <2>1, FailuresNoted
<1>8. serviceNote \in Seq(Note) /\ ToSet(serviceNote) = Failures(batch \cap Service)
  <2>1. batch \cap Service \in SUBSET Part /\ IsFiniteSet(batch \cap Service)
    BY ReadAssumption, FS_Subset DEF Part
  <2> QED
    BY <2>1, FailuresNoted
<1>9. /\ ToSet(read'.notes["Policies"]) = ToSet(oldPolicies) \cup Failures(batch \cap Policy)
      /\ ToSet(read'.notes["Definitions"]) = ToSet(oldDefinitions) \cup Failures(batch \cap Service)
  <2> HIDE DEF oldPolicies, oldDefinitions
  <2>1. ToSet(oldPolicies \o policyNote) = ToSet(oldPolicies) \cup ToSet(policyNote)
    BY <1>5, <1>7, Concatenated
  <2>2. ToSet(oldDefinitions \o serviceNote) = ToSet(oldDefinitions) \cup ToSet(serviceNote)
    BY <1>5, <1>8, Concatenated
  <2> QED
    BY <1>6, <1>7, <1>8, <2>1, <2>2
<1>10. \A other : Ahead(other) <=> other = "Details"
  BY <1>3, Alone
<1>11. /\ read.todo = <<"Details">>
       /\ read.queue \subseteq MissingDefinitions \cup (IF read.reused THEN {} ELSE read.names)
  BY <1>3 DEF QuietInv, ReadOnce
<1>12. MissingDefinitions \subseteq Service /\ read.names \subseteq Policy /\ Service \cap Policy = {}
  BY <1>3, <1>10, Alone, MissingAreServices, ReadAssumption DEF MissingDefinitions, NotedInv, NotesOK
<1>13. MissingDefinitions' = MissingDefinitions /\ NamesNow' = NamesNow
  BY <1>3, <1>4 DEF MissingDefinitions, NamesNow
<1> HIDE DEF MissingDefinitions, oldPolicies, oldDefinitions
<1>14. \A field : ~Waiting(field) \/ field \notin NoteField
  BY <1>10 DEF Waiting, NoteField
<1>15. ASSUME ReadCurrent PROVE Current("Definitions")'
  <2> DEFINE before == MissingDefinitions \ read.queue
  <2>1. Current("Definitions")
    BY <1>14, <1>15 DEF ReadCurrent, Skipped, NoteField
  <2>2. read.fetched = Details(before) /\ ToSet(oldDefinitions) = Failures(before)
    BY <2>1 DEF Current, NotesNow, oldDefinitions
  <2>3. MissingDefinitions' \ read'.queue = before \cup (batch \cap Service)
    BY <1>1, <1>4, <1>11, <1>12, <1>13
  <2> HIDE DEF before
  <2> DEFINE more == batch \cap Service
  <2>4. /\ Extended(Details(before), Details(more)) = Details(before \cup more)
        /\ Failures(before \cup more) = Failures(before) \cup Failures(more)
    BY DetailsJoined
  <2>5. read'.fetched = Details(before \cup more)
    BY <1>4, <2>2, <2>4
  <2>6. ToSet(read'.notes["Definitions"]) = Failures(before \cup more)
    BY <1>9, <2>2, <2>4
  <2>7. /\ Details(MissingDefinitions \ read.queue)' = Details(before \cup (batch \cap Service))
        /\ Failures(MissingDefinitions \ read.queue)' = Failures(before \cup (batch \cap Service))
    BY <1>3, <2>3 DEF Details, Failures
  <2> QED
    BY <2>5, <2>6, <2>7 DEF Current, NotesNow
<1>16. ASSUME ReadCurrent, ~read.reused PROVE Current("Policies")'
  <2> DEFINE before == NamesNow \ read.queue
  <2>1. Current("Policies") /\ Current("PolicyNames")
    BY <1>14, <1>16 DEF ReadCurrent, Skipped, NoteField
  <2>2. read.policies = Details(before) /\ ToSet(oldPolicies) = Failures(before) /\ read.names = NamesNow
    BY <2>1 DEF Current, NotesNow, oldPolicies
  <2>3. NamesNow' \ read'.queue = before \cup (batch \cap Policy)
    BY <1>1, <1>4, <1>11, <1>12, <1>13, <1>16, <2>2
  <2> HIDE DEF before
  <2> DEFINE more == batch \cap Policy
  <2>4. /\ Extended(Details(before), Details(more)) = Details(before \cup more)
        /\ Failures(before \cup more) = Failures(before) \cup Failures(more)
    BY DetailsJoined
  <2>5. read'.policies = Details(before \cup more)
    BY <1>4, <2>2, <2>4
  <2>6. ToSet(read'.notes["Policies"]) = Failures(before \cup more)
    BY <1>9, <2>2, <2>4
  <2>7. /\ Details(NamesNow \ read.queue)' = Details(before \cup (batch \cap Policy))
        /\ Failures(NamesNow \ read.queue)' = Failures(before \cup (batch \cap Policy))
    BY <1>3, <2>3 DEF Details, Failures
  <2> QED
    BY <2>5, <2>6, <2>7 DEF Current, NotesNow
<1>17. read'.queue \subseteq MissingDefinitions \cup (IF read.reused THEN {} ELSE read.names)
  BY <1>4, <1>11
<1> QED
  BY <1>3, <1>4, <1>6, <1>11, <1>15, <1>16, <1>17, DetailQuiet

-----------------------------------------------------------------------------
LEMMA NotReading ==
    ASSUME read' = NoRead
    PROVE  /\ StagedInOrder' /\ ReadOnce' /\ ~Staged' /\ read'.kind = "None"
           /\ read'.reused = FALSE
<1>1. /\ read'.kind = "None" /\ read'.queue = {} /\ read'.reused = FALSE
      /\ read'.policies = Empty /\ read'.fetched = Empty
      /\ read'.notes = [x \in NoteField |-> <<>>]
  BY DEF NoRead, NoteField
<1> QED
  BY <1>1 DEF StagedInOrder, ReadOnce, Staged

LEMMA QuietInit == Init => QuietInv
<1> SUFFICES ASSUME Init PROVE QuietInv
  OBVIOUS
<1>1. /\ read.kind = "None" /\ read.queue = {} /\ read.reused = FALSE
      /\ read.policies = Empty /\ read.fetched = Empty
      /\ read.notes = [x \in NoteField |-> <<>>]
  BY DEF Init, NoRead, NoteField
<1>2. StagedInOrder /\ ReadOnce /\ ~Staged
  BY <1>1 DEF StagedInOrder, ReadOnce, Staged
<1>3. /\ heavy.age = 0 /\ quiet = 0 /\ counted = FALSE /\ verdict = "None"
      /\ quiet \in 0..HeavyEvery /\ quiet # HeavyEvery
  BY ReadAssumption DEF Init
<1>4. CacheOutlived /\ QuietIsAccepted
  BY <1>1, <1>3, ReadAssumption DEF CacheOutlived, QuietIsAccepted
<1> QED
  BY <1>1, <1>2, <1>3, <1>4 DEF QuietInv

(* A read that begins has everything ahead of it. *)
LEMMA BeginQuiet == FreshInv /\ QuietInv /\ (BeginRefresh \/ BeginPrecondition) => QuietInv'
<1> SUFFICES ASSUME FreshInv, QuietInv, BeginRefresh \/ BeginPrecondition PROVE QuietInv'
  OBVIOUS
<1>1. \/ read'.kind = "Staged" /\ read'.todo = <<"Zones", "Services", "PolicyNames", "Heavy">>
      \/ read'.kind = "Fresh" /\ read'.todo = <<"Zones", "Heavy">>
  BY DEF BeginRefresh, BeginPrecondition, NoRead
<1>2. /\ read'.reused = FALSE /\ read'.queue = {} /\ read'.policies = Empty /\ read'.fetched = Empty
      /\ read'.notes = [x \in NoteField |-> <<>>]
  BY DEF BeginRefresh, BeginPrecondition, NoRead, NoteField
<1>3. /\ UNCHANGED <<firewalld, failing, definitions, shown, quiet>> /\ verdict' = "None"
      /\ counted' \in {counted, TRUE}
  BY DEF BeginRefresh, BeginPrecondition, caches
<1>4. heavy' = heavy \/ heavy' = [heavy EXCEPT !.age = 0]
  BY DEF BeginRefresh, BeginPrecondition, caches
<1>5. (\A field \in NoteField : Waiting(field)') /\ StagedInOrder'
  <2>1. CASE read'.kind = "Staged" /\ read'.todo = <<"Zones", "Services", "PolicyNames", "Heavy">>
    <3>1. /\ read'.todo[1] = "Zones" /\ read'.todo[2] = "Services" /\ read'.todo[3] = "PolicyNames"
          /\ read'.todo[4] = "Heavy" /\ DOMAIN read'.todo = 1..4
      BY <2>1
    <3>2. \A i \in DOMAIN read'.todo : i = 1 \/ i = 2 \/ i = 3 \/ i = 4
      BY <3>1
    <3>3. Ahead("Zones")' /\ Ahead("Services")' /\ Ahead("PolicyNames")' /\ Ahead("Heavy")'
      BY <3>1 DEF Ahead
    <3>4. StagedInOrder'
      BY <3>1, <3>2 DEF StagedInOrder, StagedPlace
    <3> QED
      BY <3>3, <3>4 DEF Waiting, NoteField
  <2>2. CASE read'.kind = "Fresh" /\ read'.todo = <<"Zones", "Heavy">>
    <3>1. read'.todo[1] = "Zones" /\ read'.todo[2] = "Heavy" /\ DOMAIN read'.todo = 1..2
      BY <2>2
    <3>2. Ahead("Zones")' /\ Ahead("Heavy")'
      BY <3>1 DEF Ahead
    <3> QED
      BY <2>2, <3>2 DEF Waiting, NoteField, StagedInOrder, Staged
  <2> QED
    BY <1>1, <2>1, <2>2
<1>6. ReadOnce'
  BY <1>2, OfNothing DEF ReadOnce
<1>7. ReadCurrent'
  BY <1>5 DEF ReadCurrent
<1>8. CacheOutlived'
  <2>1. CASE heavy' = heavy
    <3>1. quiet \in Nat
      BY ReadAssumption DEF QuietInv
    <3> QED
      BY <1>2, <1>3, <2>1, <3>1, CacheStays DEF QuietInv
  <2>2. CASE heavy' = [heavy EXCEPT !.age = 0]
    <3>1. heavy'.age = 0
      BY <2>2 DEF FreshInv, ReadOK
    <3> QED
      BY <1>2, <3>1, ReadAssumption DEF CacheOutlived
  <2> QED
    BY <1>4, <2>1, <2>2
<1>9. ShownCurrent' <=> ShownCurrent
  BY <1>3, OldStays
<1>10. QuietIsAccepted'
  BY <1>3 DEF QuietIsAccepted
<1> QED
  BY <1>3, <1>5, <1>6, <1>7, <1>8, <1>9, <1>10 DEF QuietInv

LEMMA GivenUpQuiet == QuietInv /\ (ReadFails \/ DropRefresh) => QuietInv'
<1> SUFFICES ASSUME QuietInv, ReadFails \/ DropRefresh PROVE QuietInv'
  OBVIOUS
<1>1. /\ read' = NoRead
      /\ UNCHANGED <<firewalld, failing, heavy, definitions, shown, verdict, quiet, counted>>
  BY DEF ReadFails, DropRefresh, caches, outcome, history
<1>2. StagedInOrder' /\ ReadOnce' /\ ~Staged' /\ read'.kind = "None" /\ read'.reused = FALSE
  BY <1>1, NotReading
<1>3. CacheOutlived'
  <2>1. quiet \in Nat
    BY ReadAssumption DEF QuietInv
  <2> QED
    BY <1>1, <1>2, <2>1, CacheStays DEF QuietInv
<1>4. (ShownCurrent' <=> ShownCurrent) /\ (QuietIsAccepted' <=> QuietIsAccepted)
  BY <1>1, OldStays
<1> QED
  BY <1>1, <1>2, <1>3, <1>4 DEF QuietInv

(* After a change nothing is said of what is shown or cached, but the cache has
   its age. *)
LEMMA ChangesQuiet ==
    ASSUME NEW part \in Part
    PROVE  FreshInv /\ QuietInv /\ (Apply(part) \/ ForeignChange(part) \/ Disturbance(part))
             => QuietInv'
<1> SUFFICES ASSUME FreshInv, QuietInv, Apply(part) \/ ForeignChange(part) \/ Disturbance(part)
             PROVE  QuietInv'
  OBVIOUS
<1>1. quiet' = 0 /\ quiet' \in 0..HeavyEvery /\ counted' = FALSE /\ quiet' # HeavyEvery
  BY ReadAssumption DEF Apply, ForeignChange, Disturbance
<1>2. QuietIsAccepted'
  BY <1>1 DEF QuietIsAccepted
<1>3. CASE Apply(part)
  <2>1. read' = NoRead
    BY <1>3 DEF Apply
  <2>2. StagedInOrder' /\ ReadOnce' /\ ~Staged' /\ read'.kind = "None" /\ read'.reused = FALSE
    BY <2>1, NotReading
  <2>3. heavy'.age = 0
    BY <1>3 DEF Apply, Invalidate, FreshInv, ReadOK
  <2>4. CacheOutlived'
    BY <2>2, <2>3, ReadAssumption DEF CacheOutlived
  <2> QED
    BY <1>1, <1>2, <2>2, <2>4 DEF QuietInv
<1>4. CASE ForeignChange(part) \/ Disturbance(part)
  <2>1. UNCHANGED <<heavy, definitions, read, shown, verdict>>
    BY <1>4 DEF ForeignChange, Disturbance, caches, outcome
  <2>2. MissingDefinitions' = MissingDefinitions /\ \A field : Waiting(field)' <=> Waiting(field)
    BY <2>1 DEF MissingDefinitions, Waiting, Ahead, Staged
  <2>3. StagedInOrder' /\ ReadOnce'
    <3> HIDE DEF MissingDefinitions
    <3> QED
      BY <2>1, <2>2 DEF QuietInv, StagedInOrder, ReadOnce, Staged
  <2>4. CacheOutlived'
    <3>1. heavy.age = 0 \/ heavy.age >= 0 + 1 + (IF read.reused THEN 1 ELSE 0)
      BY ReadAssumption DEF QuietInv, CacheOutlived
    <3>2. heavy'.age = 0 \/ heavy'.age >= quiet' + 1 + (IF read'.reused THEN 1 ELSE 0)
      BY <1>1, <2>1, <3>1
    <3> QED
      BY <2>1, <3>2 DEF QuietInv, CacheOutlived
  <2>5. Staged' => verdict' = "None"
    BY <2>1 DEF QuietInv, Staged
  <2> QED
    BY <1>1, <1>2, <2>3, <2>4, <2>5 DEF QuietInv
<1> QED
  BY <1>3, <1>4

-----------------------------------------------------------------------------
(* The end of a read *)

LEMMA CompleteIsCurrent ==
    ASSUME FreshInv, NotedInv, QuietInv, Complete, counted
    PROVE  /\ read.zones = firewalld["Zones"] /\ read.services = Answer("Services")
           /\ ToSet(read.notes["Zones"]) = SectionNotes("Zones")
           /\ ToSet(read.notes["Services"]) = SectionNotes("Services")
           /\ ToSet(read.notes["PolicyNames"]) = SectionNotes("PolicyNames")
           /\ MissingDefinitions = UndefinedNow
           /\ read.fetched = Details(UndefinedNow)
           /\ ToSet(read.notes["Definitions"]) = Failures(UndefinedNow)
           /\ ~read.reused =>
                /\ read.ipsets = Answer("IpSets") /\ read.direct = Answer("DirectRules")
                /\ read.policies = Details(NamesNow)
                /\ ToSet(read.notes["IpSets"]) = SectionNotes("IpSets")
                /\ ToSet(read.notes["DirectRules"]) = SectionNotes("DirectRules")
                /\ ToSet(read.notes["Policies"]) = Failures(NamesNow)
<1>1. read.kind # "None" /\ \A step : ~Ahead(step)
  BY DEF Complete, Ahead
<1>2. read.queue = {} /\ \A field : ~Waiting(field)
  BY <1>1 DEF NotedInv, StepsFollow, Waiting
<1>3. \A field \in NoteField : Skipped(field) \/ Current(field)
  BY <1>1, <1>2 DEF QuietInv, ReadCurrent
<1>4. NamesNow \ read.queue = NamesNow /\ MissingDefinitions \ read.queue = MissingDefinitions
  BY <1>2
<1>5. Current("Zones") /\ Current("Services") /\ Current("PolicyNames") /\ Current("Definitions")
  BY <1>3 DEF Skipped, NoteField
<1>6. MissingDefinitions = UndefinedNow
  BY <1>5 DEF Current, MissingDefinitions, UndefinedNow
<1> HIDE DEF MissingDefinitions
<1>7. /\ read.fetched = Details(UndefinedNow)
      /\ ToSet(read.notes["Definitions"]) = Failures(UndefinedNow)
  BY <1>4, <1>5, <1>6 DEF Current, NotesNow
<1>8. ~read.reused => Current("IpSets") /\ Current("DirectRules") /\ Current("Policies")
  BY <1>3 DEF Skipped, NoteField
<1>9. ~read.reused =>
        /\ read.policies = Details(NamesNow)
        /\ ToSet(read.notes["Policies"]) = Failures(NamesNow)
  BY <1>4, <1>8 DEF Current, NotesNow
<1> QED
  BY <1>5, <1>6, <1>7, <1>8, <1>9 DEF Current, NotesNow

LEMMA CompleteIsCached ==
    ASSUME FreshInv, NotedInv, QuietInv, Complete, counted, ~read.reused
    PROVE  CacheCurrent(Fetched)
<1> DEFINE a == read.notes["IpSets"]
<1> DEFINE b == read.notes["DirectRules"]
<1> DEFINE c == IF Staged THEN <<>> ELSE read.notes["PolicyNames"]
<1> DEFINE d == read.notes["Policies"]
<1>1. /\ read.ipsets = Answer("IpSets") /\ read.direct = Answer("DirectRules")
      /\ read.policies = Details(NamesNow)
      /\ ToSet(a) = SectionNotes("IpSets") /\ ToSet(b) = SectionNotes("DirectRules")
      /\ ToSet(d) = Failures(NamesNow)
      /\ ToSet(read.notes["PolicyNames"]) = SectionNotes("PolicyNames")
  BY CompleteIsCurrent
<1>2. a \in Seq(Note) /\ b \in Seq(Note) /\ c \in Seq(Note) /\ d \in Seq(Note)
  BY DEF NotedInv, NotesOK, NoteField
<1>3. ToSet(c) \subseteq SectionNotes("PolicyNames")
  BY <1>1, OfNothing
<1>4. Fetched = [age |-> 1, ipsets |-> read.ipsets, direct |-> read.direct,
                 policies |-> read.policies, degraded |-> a \o b \o c \o d]
  BY DEF Fetched, HeavyNotes
<1> HIDE DEF a, b, c, d
<1>5. ToSet(a \o b \o c \o d) = ToSet(a) \cup ToSet(b) \cup ToSet(c) \cup ToSet(d)
  BY <1>2, FourJoined
<1> DEFINE list == a \o b \o c \o d
<1>6. /\ Fetched.ipsets = read.ipsets /\ Fetched.direct = read.direct
      /\ Fetched.policies = read.policies /\ Fetched.degraded = list
  BY <1>4
<1> HIDE DEF list
<1>7. SlowNotes \subseteq ToSet(list) /\ ToSet(list) \subseteq SlowNotes \cup SectionNotes("PolicyNames")
  BY <1>1, <1>3, <1>5 DEF SlowNotes, list
<1> QED
  BY <1>1, <1>6, <1>7 DEF CacheCurrent

LEMMA EndReadCache ==
    ASSUME FreshInv, NotedInv, QuietInv, EndRead
    PROVE  /\ HeavyCurrent' <=> CacheCurrent(Fetched)
           /\ CacheOutlived' /\ quiet' \in 0..HeavyEvery /\ (~counted' => quiet' = 0)
           /\ Staged /\ quiet' = HeavyEvery => CacheCurrent(Fetched) /\ counted
<1>1. /\ Complete /\ heavy' = Fetched /\ read' = NoRead
      /\ UNCHANGED <<firewalld, failing, counted>>
      /\ Staged => quiet' = IF counted /\ quiet < HeavyEvery THEN quiet + 1 ELSE quiet
      /\ ~Staged => quiet' = quiet
  BY DEF EndRead
<1>2. /\ heavy.age \in 0..HeavyEvery /\ quiet \in 0..HeavyEvery /\ HeavyEvery \in Nat \ {0}
      /\ ~counted => quiet = 0
  BY ReadAssumption DEF QuietInv, CacheOutlived
<1>3. quiet' \in 0..HeavyEvery /\ quiet' <= quiet + 1 /\ (~counted' => quiet' = 0)
  BY <1>1, <1>2
<1>4. HeavyCurrent' <=> CacheCurrent(Fetched)
  <2>1. NamesNow' = NamesNow
    BY <1>1 DEF NamesNow
  <2>2. SlowNotes' = SlowNotes
    BY <1>1, <2>1 DEF SlowNotes, SectionNotes, Failures
  <2>3. \A part : SectionNotes(part)' = SectionNotes(part) /\ Answer(part)' = Answer(part)
    BY <1>1 DEF SectionNotes, Failures, Answer
  <2>4. Details(NamesNow)' = Details(NamesNow)
    BY <1>1, <2>1 DEF Details
  <2> QED
    BY <1>1, <2>2, <2>3, <2>4 DEF HeavyCurrent, CacheCurrent
<1>5. read'.reused = FALSE
  BY <1>1, NotReading
<1>6. CASE read.reused
  <2>1. heavy' = heavy /\ Fetched = heavy
    BY <1>1, <1>6 DEF Fetched
  <2>2. heavy.age >= 2 /\ (HeavyCurrent \/ heavy.age >= quiet + 1 + 1)
    BY <1>2, <1>6 DEF QuietInv, CacheOutlived
  <2>3. HeavyCurrent <=> CacheCurrent(Fetched)
    BY <2>1 DEF HeavyCurrent
  <2>4. CacheOutlived'
    <3>1. heavy.age >= quiet + 1 + 1 => heavy'.age >= quiet' + 1 + (IF read'.reused THEN 1 ELSE 0)
      BY <1>2, <1>3, <1>5, <2>1
    <3> QED
      BY <1>2, <1>4, <1>5, <2>1, <2>2, <2>3, <3>1 DEF CacheOutlived
  <2>5. ASSUME Staged, quiet' = HeavyEvery PROVE CacheCurrent(Fetched) /\ counted
    <3>1. counted
      BY <1>1, <1>2, <2>5
    <3>2. ~(heavy.age >= quiet + 1 + 1)
      BY <1>2, <1>3, <2>5
    <3> QED
      BY <2>2, <2>3, <3>1, <3>2
  <2> QED
    BY <1>3, <1>4, <2>4, <2>5
<1>7. CASE ~read.reused
  <2>1. heavy'.age = 1
    BY <1>1, <1>7 DEF Fetched
  <2>2. counted => CacheCurrent(Fetched)
    BY <1>1, <1>7, CompleteIsCached
  <2>3. CacheOutlived'
    <3>1. CASE counted
      BY <1>2, <1>4, <1>5, <2>1, <2>2, <3>1 DEF CacheOutlived
    <3>2. CASE ~counted
      <4>1. heavy'.age >= quiet' + 1 + (IF read'.reused THEN 1 ELSE 0)
        BY <1>1, <1>3, <1>5, <2>1, <3>2
      <4> QED
        BY <1>2, <1>5, <2>1, <4>1 DEF CacheOutlived
    <3> QED
      BY <3>1, <3>2
  <2>4. ASSUME Staged, quiet' = HeavyEvery PROVE CacheCurrent(Fetched) /\ counted
    BY <1>1, <1>2, <2>2, <2>4
  <2> QED
    BY <1>3, <1>4, <2>3, <2>4
<1> QED
  BY <1>6, <1>7

(* The notes of two sections are about different parts. *)
LEMMA NotesApart ==
    ASSUME NEW names \in SUBSET Policy, NEW services \in SUBSET Service
    PROVE  /\ \A part, other \in Single :
                 part # other => SectionNotes(part) \cap SectionNotes(other) = {}
           /\ \A part \in Single :
                 /\ SectionNotes(part) \cap Failures(names) = {}
                 /\ SectionNotes(part) \cap Failures(services) = {}
           /\ Failures(names) \cap Failures(services) = {}
<1>1. \A part : \A note \in SectionNotes(part) : note = <<part, "failed">> \/ note = <<part, "offline">>
  BY DEF SectionNotes, Failures
<1>2. \A parts : \A note \in Failures(parts) : \E part \in parts : note = <<part, "failed">>
  BY DEF Failures
<1>3. /\ \A part \in Single : part \notin names /\ part \notin services
      /\ \A part \in names : part \notin services
  BY ReadAssumption
<1>4. ASSUME NEW part \in Single, NEW other \in Single, part # other
      PROVE  SectionNotes(part) \cap SectionNotes(other) = {}
  BY <1>1, <1>4
<1>5. ASSUME NEW part \in Single
      PROVE  SectionNotes(part) \cap Failures(names) = {} /\ SectionNotes(part) \cap Failures(services) = {}
  BY <1>1, <1>2, <1>3
<1>6. Failures(names) \cap Failures(services) = {}
  BY <1>2, <1>3
<1> QED
  BY <1>4, <1>5, <1>6

(* A list without repetitions is the same as a short one of the same elements. *)
LEMMA ShortList ==
    ASSUME NEW S, NEW s \in Seq(S), NEW t \in Seq(S), IsInjective(s), ToSet(s) = ToSet(t), Len(t) <= 1
    PROVE  s = t
<1>1. /\ \A i, j \in 1..Len(s) : s[i] = s[j] => i = j
      /\ \A i \in 1..Len(s) : s[i] \in ToSet(s)
      /\ \A x \in ToSet(t) : \E i \in 1..Len(t) : t[i] = x
  BY ElementsOf
<1>2. Len(s) \in Nat /\ (Len(t) = 0 \/ Len(t) = 1)
  <2>1. \A n \in Nat : n <= 1 => n = 0 \/ n = 1
    OBVIOUS
  <2>2. Len(s) \in Nat /\ Len(t) \in Nat
    BY LenProperties
  <2> QED
    BY <2>1, <2>2
<1>3. CASE Len(t) = 0
  <2>1. t = <<>> /\ ToSet(t) = {}
    BY <1>3, NoElements
  <2> QED
    BY <2>1, NoElements
<1>4. CASE Len(t) = 1
  <2>1. \A i \in 1..Len(t) : i = 1
    BY <1>4
  <2>2. \A x \in ToSet(s) : x = t[1]
    BY <1>1, <2>1
  <2>3. \A i, j \in 1..Len(s) : i = j
    BY <1>1, <2>2
  <2>4. Len(s) # 0
    BY <1>2, <1>4, NoElements
  <2>5. Len(s) = 1
    <3>1. 1 \in 1..Len(s) /\ Len(s) \in 1..Len(s)
      BY <1>2, <2>4
    <3> QED
      BY <2>3, <3>1
  <2>6. s[1] = t[1]
    BY <1>1, <2>2, <2>5
  <2> QED
    BY <1>4, <2>5, <2>6
<1> QED
  BY <1>2, <1>3, <1>4

(* Lists without repetitions and without a common element, put together. *)
LEMMA ThreeApart ==
    ASSUME NEW S, NEW a \in Seq(S), NEW b \in Seq(S), NEW c \in Seq(S),
           IsInjective(a), IsInjective(b), IsInjective(c),
           ToSet(a) \cap ToSet(b) = {}, ToSet(a) \cap ToSet(c) = {}, ToSet(b) \cap ToSet(c) = {}
    PROVE  IsInjective(a \o b \o c)
<1> DEFINE two == a \o b
<1>1. two \in Seq(S) /\ ToSet(two) = ToSet(a) \cup ToSet(b) /\ IsInjective(two)
  BY Concatenated
<1> HIDE DEF two
<1>2. ToSet(two) \cap ToSet(c) = {}
  BY <1>1
<1>3. IsInjective(two \o c)
  BY <1>1, <1>2, Concatenated
<1> QED
  BY <1>3 DEF two

LEMMA FourApart ==
    ASSUME NEW S, NEW a \in Seq(S), NEW b \in Seq(S), NEW c \in Seq(S), NEW d \in Seq(S),
           IsInjective(a), IsInjective(b), IsInjective(c), IsInjective(d),
           ToSet(a) \cap ToSet(b) = {}, ToSet(a) \cap ToSet(c) = {}, ToSet(a) \cap ToSet(d) = {},
           ToSet(b) \cap ToSet(c) = {}, ToSet(b) \cap ToSet(d) = {}, ToSet(c) \cap ToSet(d) = {}
    PROVE  IsInjective(a \o b \o c \o d)
<1> DEFINE three == a \o b \o c
<1>1. three \in Seq(S) /\ ToSet(three) = ToSet(a) \cup ToSet(b) \cup ToSet(c)
  BY ThreeJoined
<1>2. IsInjective(three)
  BY ThreeApart
<1> HIDE DEF three
<1>3. ToSet(three) \cap ToSet(d) = {}
  BY <1>1
<1>4. IsInjective(three \o d)
  BY <1>1, <1>2, <1>3, Concatenated
<1> QED
  BY <1>4 DEF three

(* What a precondition lists of a firewall that was not changed since it began. *)
LEMMA FreshListed ==
    ASSUME FreshInv, NotedInv, QuietInv, Complete, counted, ~Staged
    PROVE  /\ Snapshot.degraded \in Seq(Note) /\ IsInjective(Snapshot.degraded)
           /\ ToSet(Snapshot.degraded) = AllNotes
<1> DEFINE a == read.notes["IpSets"]
<1> DEFINE b == read.notes["DirectRules"]
<1> DEFINE c == read.notes["PolicyNames"]
<1> DEFINE d == read.notes["Policies"]
<1> DEFINE e == read.notes["Services"]
<1> DEFINE f == read.notes["Zones"]
<1> DEFINE g == read.notes["Definitions"]
<1>1. read.kind = "Fresh" /\ ~read.reused
  BY DEF Complete, Staged, FreshInv, ReadOK, InOrder
<1>2. /\ a \in Seq(Note) /\ b \in Seq(Note) /\ c \in Seq(Note) /\ d \in Seq(Note)
      /\ e \in Seq(Note) /\ f \in Seq(Note) /\ g \in Seq(Note)
  BY DEF NotedInv, NotesOK, NoteField
<1>3. /\ IsInjective(a) /\ IsInjective(b) /\ IsInjective(c) /\ IsInjective(d)
      /\ IsInjective(e) /\ IsInjective(f) /\ IsInjective(g)
  BY <1>1 DEF QuietInv, ReadOnce, NoteField
<1>4. /\ ToSet(a) = SectionNotes("IpSets") /\ ToSet(b) = SectionNotes("DirectRules")
      /\ ToSet(c) = SectionNotes("PolicyNames") /\ ToSet(d) = Failures(NamesNow)
      /\ ToSet(e) = SectionNotes("Services") /\ ToSet(f) = SectionNotes("Zones")
      /\ ToSet(g) = Failures(UndefinedNow)
  BY <1>1, CompleteIsCurrent
<1>5. Snapshot.degraded = a \o b \o c \o d \o (e \o f \o g)
  BY <1>1 DEF Snapshot, Fetched, HeavyNotes, Staged
<1> HIDE DEF a, b, c, d, e, f, g
<1>6. NamesNow \in SUBSET Policy /\ UndefinedNow \in SUBSET Service
  <2>1. firewalld["Zones"] \in 0..MaxChanges /\ firewalld["PolicyNames"] \in 0..MaxChanges
    BY PartsNamed, ReadAssumption DEF FreshInv, Versions, Bounded
  <2> QED
    BY <2>1, ReadAssumption DEF NamesNow, UndefinedNow
<1>7. /\ {"IpSets", "DirectRules", "PolicyNames", "Services", "Zones"} \subseteq Single
      /\ \A part, other \in Single :
            part # other => SectionNotes(part) \cap SectionNotes(other) = {}
      /\ \A part \in Single :
            /\ SectionNotes(part) \cap Failures(NamesNow) = {}
            /\ SectionNotes(part) \cap Failures(UndefinedNow) = {}
      /\ Failures(NamesNow) \cap Failures(UndefinedNow) = {}
  BY <1>6, NotesApart DEF Single
<1>8. /\ ToSet(a) \cap ToSet(b) = {} /\ ToSet(a) \cap ToSet(c) = {} /\ ToSet(a) \cap ToSet(d) = {}
      /\ ToSet(b) \cap ToSet(c) = {} /\ ToSet(b) \cap ToSet(d) = {} /\ ToSet(c) \cap ToSet(d) = {}
  BY <1>4, <1>7
<1>9. ToSet(e) \cap ToSet(f) = {} /\ ToSet(e) \cap ToSet(g) = {} /\ ToSet(f) \cap ToSet(g) = {}
  BY <1>4, <1>7
<1>10. (ToSet(a) \cup ToSet(b) \cup ToSet(c) \cup ToSet(d)) \cap (ToSet(e) \cup ToSet(f) \cup ToSet(g)) = {}
  <2>1. ToSet(a) \cap (ToSet(e) \cup ToSet(f) \cup ToSet(g)) = {}
    BY <1>4, <1>7
  <2>2. ToSet(b) \cap (ToSet(e) \cup ToSet(f) \cup ToSet(g)) = {}
    BY <1>4, <1>7
  <2>3. ToSet(c) \cap (ToSet(e) \cup ToSet(f) \cup ToSet(g)) = {}
    BY <1>4, <1>7
  <2>4. ToSet(d) \cap (ToSet(e) \cup ToSet(f) \cup ToSet(g)) = {}
    BY <1>4, <1>7
  <2> QED
    BY <2>1, <2>2, <2>3, <2>4
<1> DEFINE slow == a \o b \o c \o d
<1> DEFINE rest == e \o f \o g
<1>11. /\ slow \in Seq(Note) /\ IsInjective(slow)
       /\ ToSet(slow) = ToSet(a) \cup ToSet(b) \cup ToSet(c) \cup ToSet(d)
  <2>1. slow \in Seq(Note) /\ ToSet(slow) = ToSet(a) \cup ToSet(b) \cup ToSet(c) \cup ToSet(d)
    BY <1>2, FourJoined
  <2>2. IsInjective(slow)
    BY <1>2, <1>3, <1>8, FourApart
  <2> QED
    BY <2>1, <2>2
<1>12. /\ rest \in Seq(Note) /\ IsInjective(rest)
       /\ ToSet(rest) = ToSet(e) \cup ToSet(f) \cup ToSet(g)
  <2>1. rest \in Seq(Note) /\ ToSet(rest) = ToSet(e) \cup ToSet(f) \cup ToSet(g)
    BY <1>2, ThreeJoined
  <2>2. IsInjective(rest)
    BY <1>2, <1>3, <1>9, ThreeApart
  <2> QED
    BY <2>1, <2>2
<1>13. Snapshot.degraded = slow \o rest
  BY <1>5
<1> HIDE DEF slow, rest
<1>14. ToSet(slow) \cap ToSet(rest) = {}
  BY <1>10, <1>11, <1>12
<1>15. /\ slow \o rest \in Seq(Note) /\ IsInjective(slow \o rest)
       /\ ToSet(slow \o rest) = ToSet(slow) \cup ToSet(rest)
  BY <1>11, <1>12, <1>14, Concatenated
<1>16. ToSet(slow) \cup ToSet(rest) = AllNotes
  BY <1>4, <1>11, <1>12 DEF AllNotes, SlowNotes
<1> QED
  BY <1>13, <1>15, <1>16

(* What a refresh shows of a firewall that was not changed since it began, from
   slow sections that are current. *)
LEMMA RefreshShowsCurrent ==
    ASSUME FreshInv, NotedInv, QuietInv, EndRead, Staged, counted, CacheCurrent(Fetched)
    PROVE  ShownCurrent'
<1>1. /\ Complete /\ UNCHANGED <<firewalld, failing>>
      /\ definitions' = Extended(definitions, read.fetched) /\ shown' = Snapshot
  BY DEF EndRead
<1>2. /\ read.zones = firewalld["Zones"] /\ read.services = Answer("Services")
      /\ ToSet(read.notes["Zones"]) = SectionNotes("Zones")
      /\ ToSet(read.notes["Services"]) = SectionNotes("Services")
      /\ ToSet(read.notes["PolicyNames"]) = SectionNotes("PolicyNames")
      /\ read.fetched = Details(UndefinedNow)
      /\ ToSet(read.notes["Definitions"]) = Failures(UndefinedNow)
  BY <1>1, CompleteIsCurrent
<1>3. /\ NamesNow' = NamesNow /\ Details(NamesNow)' = Details(NamesNow)
      /\ SlowNotes' = SlowNotes
      /\ \A part : SectionNotes(part)' = SectionNotes(part) /\ Answer(part)' = Answer(part)
  BY <1>1 DEF NamesNow, Details, SlowNotes, SectionNotes, Failures, Answer
<1>4. UndefinedNow' = UndefinedNow \cap failing
  <2>1. DOMAIN definitions' = DOMAIN definitions \cup (UndefinedNow \ failing)
    BY <1>1, <1>2 DEF Extended, Details
  <2> QED
    BY <1>1, <2>1 DEF UndefinedNow
<1>5. Failures(UndefinedNow)' = Failures(UndefinedNow)
  BY <1>1, <1>4 DEF Failures
<1> DEFINE a == read.notes["Definitions"]
<1> DEFINE b == read.notes["Zones"]
<1> DEFINE c == read.notes["Services"]
<1> DEFINE d == read.notes["PolicyNames"]
<1> DEFINE rest == a \o b \o c \o d
<1>6. a \in Seq(Note) /\ b \in Seq(Note) /\ c \in Seq(Note) /\ d \in Seq(Note)
  BY DEF NotedInv, NotesOK, NoteField
<1>7. /\ shown' = [zones |-> read.zones, services |-> read.services,
                   ipsets |-> Fetched.ipsets, direct |-> Fetched.direct,
                   policies |-> Fetched.policies,
                   definitions |-> Restricted(definitions', Referenced[read.zones]),
                   degraded |-> Fetched.degraded \o rest]
  BY <1>1 DEF Snapshot
<1>8. rest \in Seq(Note) /\ ToSet(rest) = ToSet(a) \cup ToSet(b) \cup ToSet(c) \cup ToSet(d)
  <2> HIDE DEF a, b, c, d
  <2> QED
    BY <1>6, FourJoined
<1>9. ToSet(rest) = Failures(UndefinedNow) \cup SectionNotes("Zones")
                        \cup SectionNotes("Services") \cup SectionNotes("PolicyNames")
  BY <1>2, <1>8
<1> HIDE DEF rest
<1>10. Fetched.degraded \in Seq(Note)
  BY <1>1, CompleteIsNoted
<1>11. /\ Fetched.degraded \o rest \in Seq(Note)
       /\ ToSet(Fetched.degraded \o rest) = ToSet(Fetched.degraded) \cup ToSet(rest)
  BY <1>8, <1>10, Concatenated
<1> DEFINE list == Fetched.degraded \o rest
<1>12. /\ Fetched.ipsets = Answer("IpSets") /\ Fetched.direct = Answer("DirectRules")
       /\ Fetched.policies = Details(NamesNow)
       /\ SlowNotes \subseteq ToSet(Fetched.degraded)
       /\ ToSet(Fetched.degraded) \subseteq SlowNotes \cup SectionNotes("PolicyNames")
  BY DEF CacheCurrent
<1>13. ToSet(list) = AllNotes
  BY <1>9, <1>11, <1>12 DEF AllNotes
<1>14. list \in Seq(Note)
  BY <1>11
<1>15. shown'.degraded = list
  BY <1>7
<1> HIDE DEF list
<1>16. shown' = [zones |-> firewalld'["Zones"], services |-> Answer("Services")',
                 ipsets |-> Answer("IpSets")', direct |-> Answer("DirectRules")',
                 policies |-> Details(NamesNow)',
                 definitions |-> Restricted(definitions', Referenced[firewalld'["Zones"]]),
                 degraded |-> shown'.degraded]
  BY <1>1, <1>2, <1>3, <1>7, <1>12, <1>15 DEF list
<1>17. AllNotes' = AllNotes
  BY <1>3, <1>5 DEF AllNotes
<1>18. UndefinedNow' \subseteq failing'
  BY <1>1, <1>4
<1> QED
  BY <1>13, <1>14, <1>15, <1>16, <1>17, <1>18 DEF ShownCurrent, Restricted

(* A precondition that finds the firewall as it is shown, and changes nothing of
   what is known of the services. *)
LEMMA PreconditionAgrees ==
    ASSUME FreshInv, NotedInv, QuietInv, EndRead, ~Staged, quiet = HeavyEvery
    PROVE  /\ ShownCurrent'
           /\ Len(shown.degraded) <= 1 => Snapshot = shown
<1>1. /\ Complete /\ UNCHANGED <<firewalld, failing, shown>>
      /\ definitions' = Extended(definitions, read.fetched)
  BY DEF EndRead
<1>2. counted /\ ShownCurrent
  BY ReadAssumption DEF QuietInv
<1>3. ~read.reused
  BY <1>1 DEF Complete, Staged, FreshInv, ReadOK, InOrder
<1>4. /\ read.zones = firewalld["Zones"] /\ read.services = Answer("Services")
      /\ read.ipsets = Answer("IpSets") /\ read.direct = Answer("DirectRules")
      /\ read.policies = Details(NamesNow) /\ read.fetched = Details(UndefinedNow)
  BY <1>1, <1>2, <1>3, CompleteIsCurrent
<1>5. DOMAIN read.fetched = {}
  BY <1>2, <1>4 DEF ShownCurrent, Details
<1>6. /\ DOMAIN definitions' = DOMAIN definitions
      /\ \A x \in DOMAIN definitions : definitions'[x] = definitions[x]
  BY <1>1, <1>5 DEF Extended
<1>7. \A S : Restricted(definitions', S) = Restricted(definitions, S)
  BY <1>6 DEF Restricted
<1>8. /\ UndefinedNow' = UndefinedNow /\ NamesNow' = NamesNow
      /\ \A part : SectionNotes(part)' = SectionNotes(part) /\ Answer(part)' = Answer(part)
  BY <1>1, <1>6 DEF UndefinedNow, NamesNow, SectionNotes, Failures, Answer
<1>9. Details(NamesNow)' = Details(NamesNow) /\ AllNotes' = AllNotes
  BY <1>1, <1>8 DEF Details, AllNotes, SlowNotes, Failures
<1>10. ShownCurrent'
  <2>1. Restricted(definitions, Referenced[firewalld["Zones"]])'
          = Restricted(definitions, Referenced[firewalld["Zones"]])
    BY <1>1, <1>7 DEF Restricted
  <2> QED
    BY <1>1, <1>2, <1>8, <1>9, <2>1 DEF ShownCurrent
<1>11. ASSUME Len(shown.degraded) <= 1 PROVE Snapshot = shown
  <2>1. /\ Snapshot.degraded \in Seq(Note) /\ IsInjective(Snapshot.degraded)
        /\ ToSet(Snapshot.degraded) = AllNotes
    BY <1>1, <1>2, FreshListed
  <2>2. shown.degraded \in Seq(Note) /\ ToSet(shown.degraded) = AllNotes
    BY <1>2 DEF ShownCurrent
  <2>3. Snapshot.degraded = shown.degraded
    BY <1>11, <2>1, <2>2, ShortList
  <2>4. Snapshot = [zones |-> read.zones, services |-> read.services,
                    ipsets |-> read.ipsets, direct |-> read.direct, policies |-> read.policies,
                    definitions |-> Restricted(definitions', Referenced[read.zones]),
                    degraded |-> Snapshot.degraded]
    BY <1>1, <1>3 DEF Snapshot, Fetched
  <2>5. shown = [zones |-> firewalld["Zones"], services |-> Answer("Services"),
                 ipsets |-> Answer("IpSets"), direct |-> Answer("DirectRules"),
                 policies |-> Details(NamesNow),
                 definitions |-> Restricted(definitions, Referenced[firewalld["Zones"]]),
                 degraded |-> shown.degraded]
    BY <1>2 DEF ShownCurrent
  <2> QED
    BY <1>4, <1>7, <2>3, <2>4, <2>5
<1> QED
  BY <1>10, <1>11

LEMMA EndReadQuiet == FreshInv /\ NotedInv /\ QuietInv /\ EndRead => QuietInv'
<1> SUFFICES ASSUME FreshInv, NotedInv, QuietInv, EndRead PROVE QuietInv'
  OBVIOUS
<1>1. /\ read' = NoRead /\ Complete /\ UNCHANGED <<firewalld, failing, counted>>
      /\ Staged => verdict' = verdict
      /\ ~Staged => /\ quiet' = quiet /\ shown' = shown
                    /\ verdict' = IF Snapshot = shown THEN "Accepted" ELSE "StaleSnapshot"
  BY DEF EndRead
<1>2. StagedInOrder' /\ ReadOnce' /\ ~Staged' /\ read'.kind = "None"
  BY <1>1, NotReading
<1>3. CacheOutlived' /\ quiet' \in 0..HeavyEvery /\ (~counted' => quiet' = 0)
  BY EndReadCache
<1>4. CASE Staged
  <2>1. verdict' = "None"
    BY <1>1, <1>4 DEF QuietInv
  <2>2. quiet' = HeavyEvery => ShownCurrent'
    BY <1>4, EndReadCache, RefreshShowsCurrent
  <2>3. QuietIsAccepted'
    BY <2>1 DEF QuietIsAccepted
  <2> QED
    BY <1>1, <1>2, <1>3, <2>2, <2>3 DEF QuietInv
<1>5. CASE ~Staged
  <2>1. quiet' = HeavyEvery => ShownCurrent' /\ (Len(shown.degraded) <= 1 => Snapshot = shown)
    BY <1>1, <1>5, PreconditionAgrees
  <2>2. QuietIsAccepted'
    <3> SUFFICES ASSUME verdict' = "StaleSnapshot", quiet' = HeavyEvery
                 PROVE  Len(shown'.degraded) > 1
      BY DEF QuietIsAccepted
    <3>1. Snapshot # shown
      BY <1>1, <1>5
    <3>2. ~(Len(shown.degraded) <= 1)
      BY <2>1, <3>1
    <3>3. Len(shown.degraded) \in Nat
      <4>1. shown.degraded \in Seq(Note)
        BY <1>1, <1>5 DEF QuietInv, ShownCurrent
      <4> QED
        BY <4>1, LenProperties
    <3>4. \A n \in Nat : ~(n <= 1) => n > 1
      OBVIOUS
    <3> QED
      BY <1>1, <1>5, <3>2, <3>3, <3>4
  <2> QED
    BY <1>1, <1>2, <1>3, <2>1, <2>2 DEF QuietInv
<1> QED
  BY <1>4, <1>5

LEMMA QuietStep == FreshInv /\ NotedInv /\ QuietInv /\ [Next]_vars => QuietInv'
<1> SUFFICES ASSUME FreshInv, NotedInv, QuietInv, [Next]_vars PROVE QuietInv'
  OBVIOUS
<1>1. CASE BeginRefresh \/ BeginPrecondition
  BY <1>1, BeginQuiet
<1>2. CASE Backend
  BY <1>2, ReadZonesQuiet, ReadServicesQuiet, ReadPolicyNamesQuiet, ReadIpSetsQuiet,
     ReadDirectRulesQuiet, DecideHeavyQuiet, QueueDetailsQuiet, FetchDetailsQuiet,
     EndDetailsQuiet, ReadPoliciesQuiet, ReadDefinitionsQuiet, EndReadQuiet DEF Backend
<1>3. CASE ReadFails \/ DropRefresh
  BY <1>3, GivenUpQuiet
<1>4. ASSUME NEW part \in Part, Apply(part) \/ ForeignChange(part) \/ Disturbance(part)
      PROVE  QuietInv'
  BY <1>4, ChangesQuiet
<1>5. CASE UNCHANGED vars
  <2>1. UNCHANGED <<firewalld, failing, heavy, definitions, read, shown, verdict, quiet, counted>>
    BY <1>5 DEF vars, caches, outcome, history
  <2>2. /\ MissingDefinitions' = MissingDefinitions /\ \A field : Waiting(field)' <=> Waiting(field)
        /\ Staged' <=> Staged
    BY <2>1 DEF MissingDefinitions, Waiting, Ahead, Staged
  <2>3. StagedInOrder' /\ ReadOnce'
    <3> HIDE DEF MissingDefinitions
    <3> QED
      BY <2>1, <2>2 DEF QuietInv, StagedInOrder, ReadOnce
  <2>4. quiet \in Nat
    BY ReadAssumption DEF QuietInv
  <2>5. CacheOutlived'
    BY <2>1, <2>4, CacheStays DEF QuietInv
  <2>6. (ShownCurrent' <=> ShownCurrent) /\ (QuietIsAccepted' <=> QuietIsAccepted)
    BY <2>1, OldStays
  <2>7. ReadCurrent' <=> ReadCurrent
    <3>1. /\ NamesNow' = NamesNow
          /\ \A part : SectionNotes(part)' = SectionNotes(part) /\ Answer(part)' = Answer(part)
      BY <2>1, OldStays
    <3>2. /\ Details(NamesNow \ read.queue)' = Details(NamesNow \ read.queue)
          /\ Failures(NamesNow \ read.queue)' = Failures(NamesNow \ read.queue)
          /\ Details(MissingDefinitions \ read.queue)' = Details(MissingDefinitions \ read.queue)
          /\ Failures(MissingDefinitions \ read.queue)' = Failures(MissingDefinitions \ read.queue)
      BY <2>1, <2>2, <3>1 DEF Details, Failures
    <3>3. \A field : Current(field)' <=> Current(field)
      BY <2>1, <3>1, <3>2 DEF Current, NotesNow
    <3>4. \A field : Skipped(field)' <=> Skipped(field)
      BY <2>1 DEF Skipped
    <3> QED
      BY <2>2, <3>3, <3>4 DEF ReadCurrent
  <2> QED
    BY <2>1, <2>2, <2>3, <2>5, <2>6, <2>7 DEF QuietInv
<1> QED
  BY <1>1, <1>2, <1>3, <1>4, <1>5 DEF Next

(* A cache cannot lock the person out: once a firewall that nobody changes was
   read as often as the slow sections are reused, what is shown is accepted as
   the basis of a mutation, if at most one thing is degraded. *)
THEOREM QuietFirewallIsAccepted == Spec => []QuietIsAccepted
<1>1. Init => FreshInv /\ NotedInv /\ QuietInv
  BY FreshInit, NotedInit, QuietInit
<1>2. FreshInv /\ NotedInv /\ QuietInv /\ [Next]_vars => (FreshInv /\ NotedInv /\ QuietInv)'
  BY FreshStep, NotedStep, QuietStep
<1>3. FreshInv /\ NotedInv /\ QuietInv => QuietIsAccepted
  BY DEF QuietInv
<1> QED
  BY <1>1, <1>2, <1>3, PTL DEF Spec

=============================================================================
