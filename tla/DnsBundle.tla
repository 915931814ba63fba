------------------------------ MODULE DnsBundle ------------------------------
(***************************************************************************)
(* The DNS providers a configuration names, and the ExternalDNS instances  *)
(* the dns bundle runs for them (util/dns.ts, cli/commands/Dns.ts): one    *)
(* for each provider and namespace, each a Helm release, and a Secret for  *)
(* each provider with credentials.                                         *)
(*                                                                         *)
(* Runs here are the installer's, which checks the configuration before it *)
(* does anything.  Names of providers and namespaces are sequences of the  *)
(* parts between their hyphens.  External: Helm, and ExternalDNS, which    *)
(* writes the records of its namespace in its provider's domains.          *)
(***************************************************************************)
EXTENDS Naturals, Sequences, FiniteSets

CONSTANTS
    Zone, Beneath,   \* domains, and which are inside which
    DnsConfigs,      \* configurations: [providers, target], providers a sequence of
                     \*   [name, domains, exclude, namespaces, credentials, target]
    MaxDnsEdits      \* bound

ASSUME DnsAssumption == MaxDnsEdits \in Nat

Zones == INSTANCE Domains WITH Domain <- Zone, Inside <- Beneath

VARIABLES
    dns,        \* the configuration's "dns",
    mode,       \* and how the Gateway is reached: by an address, or through a router
    secrets,    \* providers whose credentials are in the cluster
    releases,   \* instances that run: a function of releases' names
    dnsSteps,   \* the steps left of the run, {} between runs, and
    reported,   \*   the releases the last one to end reported as left over
    upToDate,   \* history: no edit since a run ended
    dnsEdits    \* bound

dnsVars == <<dns, mode, secrets, releases, dnsSteps, reported, upToDate, dnsEdits>>

\* External-dns-<provider>-<namespace>, without what they all begin with.
ReleaseName(instance) == instance.provider.name \o instance.namespace

\* One of each provider for each of its namespaces.
Instance(c, i, n) ==
    LET p == c.providers[i]
    IN  [provider  |-> p,
         namespace |-> n,
         target    |-> IF p.target # "none" THEN p.target ELSE c.target]

Instances(c) ==
    UNION {{Instance(c, i, n) : n \in c.providers[i].namespaces} : i \in DOMAIN c.providers}

DnsInit ==
    /\ dns \in DnsConfigs
    /\ mode \in {"floating", "port-forward"}
    /\ secrets = {}
    /\ releases = <<>>
    /\ dnsSteps = {}
    /\ reported = {}
    /\ upToDate = FALSE
    /\ dnsEdits = 0

EditDns ==
    /\ dnsSteps = {}
    /\ dnsEdits < MaxDnsEdits
    /\ \E c \in DnsConfigs, m \in {"floating", "port-forward"} :
          <<c, m>> # <<dns, mode>> /\ dns' = c /\ mode' = m
    /\ upToDate' = FALSE
    /\ dnsEdits' = dnsEdits + 1
    /\ UNCHANGED <<secrets, releases, dnsSteps, reported>>

-----------------------------------------------------------------------------
(* What preflight has against it (checkDnsConfig)                          *)

\* Fault: a provider is held against those after it only.
ConflictsWithLater(c, i, j) ==
    i < j /\ c.providers[i].namespaces # c.providers[j].namespaces
          /\ Zones!Overlaps(c.providers[i], c.providers[j])

Conflicts(c, i, j) == i # j /\ Zones!Conflict(c.providers[i], c.providers[j])

HasTarget(c, p) == p.target # "none" \/ c.target # "none"

Accepted(c, m) ==
    /\ \A i \in DOMAIN c.providers :
          LET p == c.providers[i]
          IN  /\ p.domains # {} /\ p.namespaces # {}
              /\ \A j \in DOMAIN c.providers : i # j => c.providers[j].name # p.name
              /\ m = "port-forward" => HasTarget(c, p)
    /\ \A i, j \in DOMAIN c.providers : ~Conflicts(c, i, j)

-----------------------------------------------------------------------------
(* A run                                                                   *)

Secrets(c) ==
    {[does |-> "credentials", of |-> i, namespace |-> <<>>] :
        i \in {j \in DOMAIN c.providers : c.providers[j].credentials}}

Installs(c) ==
    UNION {{[does |-> "install", of |-> i, namespace |-> n] : n \in c.providers[i].namespaces} :
              i \in DOMAIN c.providers}

Inventory == [does |-> "inventory", of |-> 0, namespace |-> <<>>]

Steps(c) ==
    IF Instances(c) = {} THEN {Inventory} ELSE Secrets(c) \union Installs(c) \union {Inventory}

\* Credentials, then what reads them, then a look at what else there is; and
\* the providers in their order, each with its namespaces in some order.
Stage(does) == CASE does = "credentials" -> 1 [] does = "install" -> 2 [] does = "inventory" -> 3

Earlier(s, t) == Stage(s.does) < Stage(t.does) \/ (s.does = t.does /\ s.of < t.of)

StartDns ==
    /\ dnsSteps = {}
    /\ Accepted(dns, mode)
    /\ dnsSteps' = Steps(dns)
    /\ UNCHANGED <<dns, mode, secrets, releases, reported, upToDate, dnsEdits>>

NextStep(s, does) ==
    /\ s.does = does /\ \A t \in dnsSteps : ~Earlier(t, s)
    /\ dnsSteps' = dnsSteps \ {s}

ApplyCredentials ==
    /\ \E s \in dnsSteps :
          /\ NextStep(s, "credentials")
          /\ secrets' = secrets \union {dns.providers[s.of].name}
    /\ UNCHANGED <<dns, mode, releases, reported, upToDate, dnsEdits>>

\* Whatever runs under the name is upgraded to this.
InstallInstance ==
    /\ \E s \in dnsSteps :
          LET instance == Instance(dns, s.of, s.namespace)
          IN  /\ NextStep(s, "install")
              /\ releases' = [r \in DOMAIN releases \union {ReleaseName(instance)} |->
                                IF r = ReleaseName(instance) THEN instance ELSE releases[r]]
    /\ UNCHANGED <<dns, mode, secrets, reported, upToDate, dnsEdits>>

LeftOver(c) == DOMAIN releases \ {ReleaseName(instance) : instance \in Instances(c)}

ReportLeftOver ==
    /\ \E s \in dnsSteps : NextStep(s, "inventory")
    /\ reported' = LeftOver(dns)
    /\ upToDate' = TRUE
    /\ UNCHANGED <<dns, mode, secrets, releases, dnsEdits>>

\* A step fails or the run is interrupted; those that were done stay done.
StopDns ==
    /\ dnsSteps # {}
    /\ dnsSteps' = {}
    /\ UNCHANGED <<dns, mode, secrets, releases, reported, upToDate, dnsEdits>>

\* What a report says how to remove.
UninstallLeftOver ==
    \E r \in reported \intersect DOMAIN releases :
        /\ dnsSteps = {} /\ r \in LeftOver(dns)
        /\ releases' = [q \in DOMAIN releases \ {r} |-> releases[q]]
        /\ UNCHANGED <<dns, mode, secrets, dnsSteps, reported, upToDate, dnsEdits>>

DnsNext ==
    \/ EditDns \/ StartDns \/ ApplyCredentials \/ InstallInstance \/ ReportLeftOver
    \/ StopDns \/ UninstallLeftOver

DnsSpec == DnsInit /\ [][DnsNext]_dnsVars

-----------------------------------------------------------------------------
(* Types; and an instance has the Secret it reads its credentials from     *)
(* from the moment it runs, however far a run got.                         *)
DnsTypeOK ==
    /\ dns \in DnsConfigs /\ mode \in {"floating", "port-forward"}
    /\ \A r \in DOMAIN releases :
          /\ ReleaseName(releases[r]) = r
          /\ releases[r].provider.credentials => releases[r].provider.name \in secrets
    /\ upToDate \in BOOLEAN /\ dnsEdits \in 0..MaxDnsEdits

\* What runs and nobody was told it shouldn't.
Trusted == {releases[r] : r \in DOMAIN releases \ reported}

(* "Two providers, two sets of namespaces, overlapping domains: either set *)
(* of namespaces can write the overlap": after a run of the configuration  *)
(* as it is, no namespaces can write names others hold, whatever ran       *)
(* before, unless it is through an instance the run reported as left over. *)
NobodyElsesNames ==
    upToDate /\ dnsSteps = {} =>
        \A s, t \in Trusted : ~Zones!Conflict(s.provider, t.provider)

(* "A record pointing at that works for nobody outside it": with a router  *)
(* in front, everything that publishes publishes an address that was       *)
(* given, once a run ended, or was reported.                               *)
RouterIsPublished ==
    upToDate /\ dnsSteps = {} /\ mode = "port-forward" =>
        \A s \in Trusted : s.target # "none"

(* "One instance runs for each": does not hold, since two names can join   *)
(* to one release, and the one installed later takes over the other's.     *)
(* No run checks it.                                                       *)
EachHasItsInstance ==
    upToDate /\ dnsSteps = {} =>
        \A instance \in Instances(dns) : \E r \in DOMAIN releases : releases[r] = instance

(* After a run, whatever ran before it, the instances that aren't reported *)
(* as left over can't write each other's names and publish an address that *)
(* can be reached; and each has its credentials however far a run got.     *)
DnsBundleInv ==
    /\ DnsTypeOK
    /\ NobodyElsesNames
    /\ RouterIsPublished
=============================================================================
