----------------------- MODULE SnapshotReadsProperties -----------------------
(* What must hold of what is shown and of what a mutation is checked against. *)
EXTENDS SnapshotReads

Since(version, earlier) == version = Nothing \/ version >= earlier

(* A mutation is checked against the firewall of the moment: of every section
   that is compared, apart from the definitions of services, a precondition has
   read a version that was current after it began, whatever was cached. *)
FreshReadIsFresh ==
    verdict # "None" =>
        /\ Since(observed.zones, asOf["Zones"])
        /\ Since(observed.services, asOf["Services"])
        /\ Since(observed.ipsets, asOf["IpSets"])
        /\ Since(observed.direct, asOf["DirectRules"])
        /\ \A policy \in DOMAIN observed.policies : Since(observed.policies[policy], asOf[policy])
        /\ \E list \in asOf["PolicyNames"]..firewalld["PolicyNames"] :
              DOMAIN observed.policies \subseteq Listed[list]

(* A cache cannot lock the person out: once a firewall that nobody changes was
   read as often as the slow sections are reused, what is shown is accepted as
   the basis of a mutation, if at most one thing is degraded. *)
QuietIsAccepted ==
    verdict = "StaleSnapshot" /\ quiet = HeavyEvery => Len(shown.degraded) > 1

(* The same without the exception: an unchanged firewall is not "stale". *)
UnchangedIsAccepted == verdict = "StaleSnapshot" => quiet < HeavyEvery

(* The first refresh after a mutation shows what the mutation did, in every
   section and however the caches stood. *)
OwnChangesShown ==
    [][shown' # shown =>
        /\ Since(shown'.zones, own["Zones"])
        /\ Since(shown'.ipsets, own["IpSets"])
        /\ Since(shown'.direct, own["DirectRules"])
        /\ \A policy \in DOMAIN shown'.policies : Since(shown'.policies[policy], own[policy])
        /\ \A service \in DOMAIN shown'.definitions :
              Since(shown'.definitions[service], own[service])]_vars

(* "An empty ipset list with "ipsets" in here means unknown, not none": what a
   snapshot lacks because it could not be read is in its list of degraded
   sections, also when the section is reused from an earlier read. *)
Reported(snapshot, part) == <<part, "failed">> \in ToSet(snapshot.degraded)

MissingIsReported ==
    \A snapshot \in {shown, observed} \ {NoSnapshot} :
        /\ snapshot.services = Nothing => Reported(snapshot, "Services")
        /\ snapshot.ipsets = Nothing => Reported(snapshot, "IpSets")
        /\ snapshot.direct = Nothing => Reported(snapshot, "DirectRules")
        /\ \A service \in Referenced[snapshot.zones] \ DOMAIN snapshot.definitions :
              Reported(snapshot, service)

=============================================================================
