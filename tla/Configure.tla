------------------------------ MODULE Configure ------------------------------
(***************************************************************************)
(* The interactive installer (runners/configure.ts, cli/configure): it     *)
(* reads the configuration file into a draft, sections ask about a part    *)
(* of it each, and the draft is written back.  The other reader of the     *)
(* file modelled here is preflight, which accepts it or not.               *)
(*                                                                         *)
(* An answer is validated as it is given, so drafts hold nothing invalid   *)
(* of their own.  Nobody else writes the file while a session is open.     *)
(* Left out: addresses, users and display names of nodes, which are asked  *)
(* about like names; wording; where older settings are offered from.       *)
(***************************************************************************)
EXTENDS Naturals, Integers, Sequences, FiniteSets

CONSTANTS
    HandWritten,  \* the configurations somebody starts with, written by hand
    Domain, NodeName, Region,
    Host,         \* registries: with a dot in their names,
    DottedHost,   \*   or without
    Package,      \* names under "packages",
    Catalogue,    \*   and those the installer knows
    Namespace,    \* who may send mail
    MailServer,   \* [host, security, port] somebody may answer with
    MailUser,
    MaxNodes,     \* bound
    MaxRuns       \* bound: how often the section a behaviour is about is run

None == "none"

Section == <<"cluster", "nodes", "network", "storage", "k3s", "registries", "packages", "mail">>

Sections == {Section[i] : i \in DOMAIN Section}

Service == {"auth", "files"}
Role    == {"worker", "gateway"}
Claim   == {"databaseGb", "objectStorageGb"}

\* What each claim gets when nothing says otherwise; sizes: 0 is not set, -1
\* no size at all.
DefaultGb == [databaseGb |-> 30, objectStorageGb |-> 50]
Size == {30, 50}

-----------------------------------------------------------------------------
(* What a configuration says, in the parts that are asked about            *)

NoServer == [host |-> None, security |-> None, port |-> 0]
NoMail   == [given |-> FALSE, server |-> NoServer, user |-> None, password |-> None]

ServerType ==
    [host : STRING \ {None}, security : {"none", "starttls", "tls"}, port : Nat] \union {NoServer}

SpaceType == [given : BOOLEAN, server : ServerType, user : STRING, password : STRING]

NodeType ==
    [name : NodeName, type : {"Server", "Agent"}, roles : SUBSET Role, gateway : BOOLEAN,
     region : STRING, zone : STRING, labels : {"none", "map", "list"}, fixed : BOOLEAN]

\* Something about each package: nothing, a plain "true" or "false", some text, or
\* what it is set up with, on or off.
ChoiceType == {None, "true", "false", "text", "enabled", "disabled"}

ClusterType  == [main : Domain \union {None}, hosts : [Service -> Domain \union {None}]]
NetworkType  == [congestion : {None, "bbr", "cubic"}, qdisc : STRING,
                 kubeProxy : {None, "replaced", "usual"}, mesh : {None, "mesh"},
                 apiKey : BOOLEAN, addresses : BOOLEAN]
StorageType  == [Claim -> Size \union {0, -1}]
RegistryType == [user : STRING, secret : STRING, more : BOOLEAN]
PackagesType == [chosen : [Package -> ChoiceType], secretKey : BOOLEAN,
                 store : {None, "local", "s3"}]
MailType     == [shape : {None, "cluster", "namespaces"}, defaults : ServerType,
                 spaces : [Namespace -> SpaceType]]

DraftType ==
    [cluster : ClusterType, nodes : Seq(NodeType), network : NetworkType, storage : StorageType,
     k3s : STRING, registries : [Host -> RegistryType], packages : PackagesType, mail : MailType]

(* Roles listed under "labels" are not listed under "roles" too; a login   *)
(* to a registry is a whole one; and what is said of namespaces' mail is   *)
(* said under "namespaces".                                                *)
WellMade(d) ==
    /\ Len(d.nodes) <= MaxNodes
    /\ \A i \in DOMAIN d.nodes : d.nodes[i].labels = "list" => d.nodes[i].roles = {}
    /\ \A h \in Host : (d.registries[h].user = None) = (d.registries[h].secret = None)
    /\ \A n \in Namespace : d.mail.spaces[n].given \/ d.mail.spaces[n] = NoMail
    /\ d.mail.shape # "namespaces" =>
          d.mail.defaults = NoServer /\ \A n \in Namespace : d.mail.spaces[n] = NoMail

(* Answers are validated as they are given; what is written by hand can    *)
(* say anything of the shapes above.                                       *)
ASSUME AnswersAssumption ==
    /\ Domain # {} /\ None \notin Domain
    /\ Region \subseteq STRING
    /\ MailServer \subseteq ServerType \ {NoServer}
    /\ \A server \in MailServer : server.port # 0
    /\ MailUser \subseteq STRING
    /\ Catalogue \subseteq Package
    /\ MaxNodes \in Nat /\ MaxRuns \in Nat

\* What the provers don't know of a literal.
ASSUME LiteralsAssumption ==
    {None, "fq", "generated", "pasted", "ann", "bob", "new"} \subseteq STRING

ASSUME HandWrittenAssumption == \A d \in HandWritten : d \in DraftType /\ WellMade(d)

VARIABLES
    file,      \* the configuration file: whether there is one, and what it says
    session,   \* the session at the terminal: where it is, how it was started, its
               \*   draft, what it loaded, which sections it ran and with Enter only
    subject,   \* bound: the one section in which anything may be answered
    runs,      \* how often that was run
    wrote,     \* history: the sections of the file that are as configure wrote them,
    ticked,    \*   the packages ticked last,
    removed    \*   and whether this session took a node out

configureVars == <<file, session, subject, runs, wrote, ticked, removed>>

-----------------------------------------------------------------------------
(* The sections.  Each is given what the draft says in its part and comes  *)
(* to one of several outcomes, `enter' being whether every answer was the  *)
(* one offered.                                                            *)

\* Hostnames stand for the domain they are under.
ClusterAnswered(c, main, derived, asked) ==
    [is    |-> [main  |-> main,
                hosts |-> [s \in Service |-> IF derived /\ c.hosts[s] = None THEN main ELSE asked[s]]],
     enter |-> /\ main = c.main
               /\ derived = (c.hosts["auth"] = None)
               /\ \A s \in Service : asked[s] = IF c.hosts[s] # None THEN c.hosts[s] ELSE main]

ClusterOutcomes(c) ==
    {ClusterAnswered(c, main, derived, asked) :
        main \in Domain, derived \in BOOLEAN, asked \in [Service -> Domain]}

NewNode ==
    [name |-> None, type |-> "Agent", roles |-> {"worker"}, gateway |-> FALSE,
     region |-> None, zone |-> None, labels |-> "none", fixed |-> FALSE]

\* Roles used to be listed under "labels"; the question doesn't look there.
OfferedRoles(node) == IF node.labels = "list" THEN {"worker"} ELSE node.roles

Placements(node) ==
    {<<None, None>>} \union
    {<<r, z>> : r \in Region, z \in Region \union ({node.zone} \ {None})}

OfferedPlacement(node) ==
    IF node.region = None THEN <<None, None>>
    ELSE <<node.region, IF node.zone # None THEN node.zone ELSE node.region>>

NodeAnswered(node, n, t, r, p) ==
    [is    |-> [node EXCEPT !.name = n, !.type = t, !.roles = r, !.gateway = "gateway" \in r,
                            !.region = p[1], !.zone = p[2],
                            !.labels = IF @ = "list" THEN "none" ELSE @],
     enter |-> n = node.name /\ t = node.type /\ r = OfferedRoles(node) /\ p = OfferedPlacement(node)]

AskAboutNode(node) ==
    {NodeAnswered(node, n, t, r, p) :
        n \in NodeName, t \in {"Server", "Agent"}, r \in SUBSET Role, p \in Placements(node)}

\* One change to the list at a time; another is another run.
NodesOutcomes(nodes) ==
    {[is |-> nodes, enter |-> TRUE]}
    \union {[is |-> Append(nodes, o.is), enter |-> FALSE] :
               o \in IF Len(nodes) < MaxNodes THEN AskAboutNode(NewNode) ELSE {}}
    \union {[is |-> SubSeq(nodes, 1, i - 1) \o SubSeq(nodes, i + 1, Len(nodes)), enter |-> FALSE] :
               i \in DOMAIN nodes}
    \union UNION {{[is |-> [nodes EXCEPT ![i] = o.is], enter |-> o.enter] :
                      o \in AskAboutNode(nodes[i])} : i \in DOMAIN nodes}

\* Pacing needs fq; without it, whatever was there stays.
Qdisc(n, congestion) == IF congestion = "bbr" THEN "fq" ELSE n.qdisc

OfferedCongestion(n) == IF n.congestion = None THEN "bbr" ELSE n.congestion

\* Turning the mesh down leaves what was said of it.  A blank key is left as it is.
NetworkAnswered(n, c, k, joins, key) ==
    [is    |-> [n EXCEPT !.congestion = c, !.qdisc = Qdisc(n, c), !.kubeProxy = k,
                         !.mesh = IF joins THEN "mesh" ELSE @, !.apiKey = @ \/ (joins /\ key)],
     enter |-> /\ c = OfferedCongestion(n)
               /\ k = (IF n.kubeProxy = None THEN "replaced" ELSE n.kubeProxy)
               /\ joins = (n.mesh # None) /\ ~key]

NetworkOutcomes(n) ==
    {NetworkAnswered(n, c, k, joins, key) :
        c \in {"bbr", "cubic"}, k \in {"replaced", "usual"}, joins \in BOOLEAN, key \in BOOLEAN}

\* Fault: what is offered is always the defaults.
OfferedDefaults(s) == DefaultGb

\* The sizes there are, or the defaults for all of them if one can't be read.
OfferedSizes(s) ==
    IF \E c \in Claim : s[c] = -1 THEN DefaultGb
    ELSE [c \in Claim |-> IF s[c] = 0 THEN DefaultGb[c] ELSE s[c]]

StorageOutcomes(s) ==
    {[is |-> sizes, enter |-> sizes = OfferedSizes(s)] : sizes \in [Claim -> Size]}

\* A token that isn't kept is generated, or pasted, or pasted blank.
K3sOutcomes(token) ==
    (IF token = None THEN {} ELSE {[is |-> token, enter |-> TRUE]})
    \union {[is |-> t, enter |-> token = None /\ t = "generated"] : t \in {"generated", "pasted", None}}

NoRegistry == [user |-> None, secret |-> None, more |-> FALSE]

(* A blank secret keeps the one on file, which is looked for by a path     *)
(* that a dotted name falls apart in: there the registry is left alone.    *)
Answered(h, was, user, secret) ==
    IF secret # None THEN [was EXCEPT !.user = user, !.secret = secret]
    ELSE IF h \notin DottedHost /\ was.secret # None THEN [was EXCEPT !.user = user]
    ELSE was

RegistriesOutcomes(registries) ==
    {[is |-> registries, enter |-> TRUE]}
    \union {[is    |-> [registries EXCEPT ![h] = Answered(h, @, u, s)],
             enter |-> FALSE] : h \in Host, u \in {"ann", "bob"}, s \in {None, "new"}}

\* What the checkbox shows ticked, and what the installer takes for enabled: a
\* plain false is neither text nor an object that says otherwise.
Enabled(packages) == {p \in Package : packages[p] \in {"true", "false", "enabled"}}

Select(was, chosen) ==
    IF chosen THEN (IF was \in {None, "true", "text"} THEN "true" ELSE "enabled")
    ELSE IF was \in {"enabled", "disabled"} THEN "disabled" ELSE None

PackagesAnswered(p, some, generate, store) ==
    [is     |-> [chosen    |-> [q \in Package |-> IF q \in Catalogue THEN Select(p.chosen[q], q \in some)
                                                                      ELSE p.chosen[q]],
                 secretKey |-> p.secretKey \/ ("authentik" \in some /\ generate),
                 store     |-> IF "projectsend" \in some /\ p.store = None THEN store ELSE p.store],
     enter  |-> some = Enabled(p.chosen) \intersect Catalogue /\ generate /\ store = "local",
     ticked |-> some]

PackagesOutcomes(p) ==
    {PackagesAnswered(p, some, generate, store) :
        some \in SUBSET Catalogue, generate \in BOOLEAN, store \in {"local", "s3"}}

DefaultPort(security) == CASE security = "starttls" -> 587 [] security = "tls" -> 465 [] OTHER -> 25

\* Somebody who presses Enter is offered the server there is.
OfferedServer(server) ==
    [server EXCEPT !.port = IF @ = 0 THEN DefaultPort(server.security) ELSE @]

AskServer(current) ==
    {[is |-> s, enter |-> current # NoServer /\ s = OfferedServer(current)] :
        s \in MailServer \union (IF current = NoServer THEN {} ELSE {OfferedServer(current)})}

Nobody == [shape |-> None, defaults |-> NoServer, spaces |-> [n \in Namespace |-> NoMail]]

NoLogin == [user |-> None, password |-> None]

\* A blank password keeps the one there is.
Logins(space) ==
    {NoLogin} \union
    {[user |-> u, password |-> IF p # None THEN p ELSE space.password] :
        u \in MailUser, p \in {None, "new"}}

\* Logging in is offered unless nothing would be encrypted.
OfferedLogin(space, security) ==
    IF security = "none" THEN NoLogin ELSE [user |-> space.user, password |-> space.password]

\* A name to log in with has to be given if there was none.
MailAnswered(m, n, d, s, l) ==
    LET space    == m.spaces[n]
        security == (IF s.is = NoServer THEN d.is ELSE s.is).security
    IN  [is    |-> [shape    |-> "namespaces",
                    defaults |-> d.is,
                    spaces   |-> [m.spaces EXCEPT ![n] =
                                    [given |-> TRUE, server |-> s.is, user |-> l.user,
                                     password |-> l.password]]],
         enter |-> /\ space.given /\ d.enter /\ s.enter
                   /\ security = "none" \/ space.user # None
                   /\ l = OfferedLogin(space, security)]

AskOwnServer(current) ==
    {[is |-> NoServer, enter |-> current = NoServer]} \union AskServer(current)

(* The server most namespaces send through, and one namespace; another is  *)
(* another run.  An older shape, a server for the whole cluster, is not    *)
(* seen, and is gone with either answer.                                   *)
MailOutcomes(m) ==
    {[is |-> Nobody, enter |-> m.shape # "namespaces"]}
    \union UNION {{MailAnswered(m, n, d, s, l) :
                      d \in AskServer(m.defaults), s \in AskOwnServer(m.spaces[n].server),
                      l \in Logins(m.spaces[n])} : n \in Namespace}

Outcomes(s, part) ==
    CASE s = "cluster"    -> ClusterOutcomes(part)
      [] s = "nodes"      -> NodesOutcomes(part)
      [] s = "network"    -> NetworkOutcomes(part)
      [] s = "storage"    -> StorageOutcomes(part)
      [] s = "k3s"        -> K3sOutcomes(part)
      [] s = "registries" -> RegistriesOutcomes(part)
      [] s = "packages"   -> PackagesOutcomes(part)
      [] s = "mail"       -> MailOutcomes(part)

\* A section no behaviour is about is gone through with Enter, where it can be.
Usual(outcomes) ==
    IF \E o \in outcomes : o.enter THEN {o \in outcomes : o.enter} ELSE {CHOOSE o \in outcomes : TRUE}

-----------------------------------------------------------------------------
(* A session                                                               *)

NoNodes == <<>>

\* What an empty draft says in each section.
EmptyDraft ==
    [cluster    |-> [main |-> None, hosts |-> [s \in Service |-> None]],
     nodes      |-> NoNodes,
     network    |-> [congestion |-> None, qdisc |-> None, kubeProxy |-> None, mesh |-> None,
                     apiKey |-> FALSE, addresses |-> FALSE],
     storage    |-> [c \in Claim |-> 0],
     k3s        |-> None,
     registries |-> [h \in Host |-> NoRegistry],
     packages   |-> [chosen |-> [p \in Package |-> None], secretKey |-> FALSE, store |-> None],
     mail       |-> [shape |-> None, defaults |-> NoServer, spaces |-> [n \in Namespace |-> NoMail]]]

NoFile == [is |-> "missing", draft |-> EmptyDraft]
Broken  == [is |-> "broken", draft |-> EmptyDraft]

Closed ==
    [at |-> "closed", mode |-> "menu", draft |-> EmptyDraft, loaded |-> EmptyDraft,
     ran |-> {}, entered |-> TRUE]

ConfigureInit ==
    /\ file \in {NoFile, Broken} \union {[is |-> "config", draft |-> d] : d \in HandWritten}
    /\ session = Closed
    /\ subject \in Sections
    /\ runs = 0
    /\ wrote = {}
    /\ ticked = {}
    /\ removed = FALSE

(* A file that isn't JSON is refused.  One that isn't there is walked      *)
(* through section by section, as any is when asked for; a menu, or one    *)
(* section, does otherwise.                                                *)
Open ==
    /\ session.at = "closed"
    /\ file.is # "broken"
    /\ runs < MaxRuns
    /\ \E mode \in IF file.is = "missing" THEN {"walk"} ELSE {"walk", "menu"} :
          session' = [Closed EXCEPT !.at = "open", !.mode = mode, !.draft = file.draft,
                                    !.loaded = file.draft]
    /\ removed' = FALSE
    /\ UNCHANGED <<file, subject, runs, wrote, ticked>>

\* The sections that may be run now: in order, or any that is picked.
Due ==
    IF session.mode = "menu" THEN {subject}
    ELSE {Section[i] : i \in {j \in DOMAIN Section :
             Section[j] \notin session.ran /\ \A k \in 1..j - 1 : Section[k] \in session.ran}}

RunSection(s) ==
    /\ session.at = "open"
    /\ s \in Due
    /\ s = subject => runs < MaxRuns
    /\ runs' = IF s = subject THEN runs + 1 ELSE runs
    /\ LET outcomes == Outcomes(s, session.draft[s])
       IN  \E o \in IF s = subject THEN outcomes ELSE Usual(outcomes) :
              /\ session' = [session EXCEPT !.draft[s] = o.is, !.ran = @ \union {s},
                                            !.entered = @ /\ o.enter]
              /\ ticked' = IF s = "packages" THEN o.ticked ELSE ticked
              /\ removed' = (removed \/ (s = "nodes" /\ Len(o.is) < Len(session.draft.nodes)))
    /\ UNCHANGED <<file, subject, wrote>>

\* Left without saving, or interrupted at a prompt: nothing is written.
Leave ==
    /\ session.at = "open"
    /\ session' = Closed
    /\ UNCHANGED <<file, subject, runs, wrote, ticked, removed>>

\* The file is emptied before the draft is in it.
StartSaving ==
    /\ session.at = "open"
    /\ session.mode = "menu" \/ session.ran = Sections
    /\ file' = Broken
    /\ session' = [session EXCEPT !.at = "writing"]
    /\ UNCHANGED <<subject, runs, wrote, ticked, removed>>

Save ==
    /\ session.at = "writing"
    /\ file' = [is |-> "config", draft |-> session.draft]
    /\ wrote' = wrote \union session.ran
    /\ session' = Closed
    /\ UNCHANGED <<subject, runs, ticked, removed>>

\* Interrupted in between, the file is not JSON any more.
Crash ==
    /\ session.at = "writing"
    /\ session' = Closed
    /\ UNCHANGED <<file, subject, runs, wrote, ticked, removed>>

ConfigureNext ==
    \/ Open \/ Leave \/ StartSaving \/ Save \/ Crash
    \/ \E s \in Sections : RunSection(s)

ConfigureSpec == ConfigureInit /\ [][ConfigureNext]_configureVars

-----------------------------------------------------------------------------
(* What preflight has against a configuration (checkConfiguration)         *)

\* A namespace's own settings over the shared server's, which is none of its
\* business when it has one itself (getNamespaceMail).
ServerOf(m, n) == IF m.spaces[n].server # NoServer THEN m.spaces[n].server ELSE m.defaults

Senders(m) == {n \in Namespace : m.spaces[n].given}

PortOf(server) == IF server.port = 0 THEN DefaultPort(server.security) ELSE server.port

Says(problem, holds) == IF holds THEN {problem} ELSE {}

NamespaceMailProblems(m, n) ==
    LET server == ServerOf(m, n)
        space  == m.spaces[n]
    IN  IF server = NoServer THEN {"no-server"}
        ELSE Says("wrong-port", <<PortOf(server), server.security>> \in {<<465, "starttls">>, <<587, "tls">>})
             \union Says("half-a-login", (space.user = None) # (space.password = None))
             \union Says("in-the-clear", space.password # None /\ server.security = "none")

SharesUser(m, n, o) ==
    m.spaces[n].user # None /\ m.spaces[n].user = m.spaces[o].user
    /\ ServerOf(m, n).host = ServerOf(m, o).host

SomeShare(m) == \E n, o \in Senders(m) : n # o /\ SharesUser(m, n, o)

SpaceProblems(m) == UNION {NamespaceMailProblems(m, n) : n \in Senders(m)}

MailProblems(m) ==
    IF m.shape = None THEN {}
    ELSE IF m.shape = "cluster" THEN {"one-server-for-the-cluster"}
    ELSE Says("nobody-sends", Senders(m) = {})
         \union SpaceProblems(m)
         \union Says("shared-user", SomeShare(m))

NodeProblems(nodes) ==
    LET are(type) == {i \in DOMAIN nodes : nodes[i].type = type}
    IN  Says("servers", Cardinality(are("Server")) # 1)
        \union Says("one-name-twice", \E i, j \in DOMAIN nodes : i # j /\ nodes[i].name = nodes[j].name)

\* A node is a gateway by its flag or by its role.
Gateways(nodes) == {i \in DOMAIN nodes : nodes[i].gateway \/ "gateway" \in nodes[i].roles}

NetworkProblems(d) ==
    Says("no-addresses", Gateways(d.nodes) # {} /\ ~d.network.addresses)
    \union Says("no-gateway", d.network.addresses /\ Gateways(d.nodes) = {})
    \union Says("mesh", (d.network.mesh # None) # d.network.apiKey)

\* Files kept in a bucket need the package that has buckets.
PackageProblems(p) ==
    Says("no-bucket", /\ {"projectsend"} \subseteq Enabled(p.chosen)
                      /\ p.store = "s3" /\ "seaweedfs" \notin Enabled(p.chosen))

Problems(d) ==
    IF d.nodes = NoNodes THEN {"no-nodes"}
    ELSE NodeProblems(d.nodes) \union Says("no-token", d.k3s = None)
         \union NetworkProblems(d) \union MailProblems(d.mail) \union PackageProblems(d.packages)

-----------------------------------------------------------------------------
ConfigureTypeOK ==
    /\ file.is \in {"missing", "broken", "config"}
    /\ session.at \in {"closed", "open", "writing"} /\ session.mode \in {"walk", "menu"}
    /\ session.ran \subseteq Sections /\ session.entered \in BOOLEAN
    /\ \A d \in {file.draft, session.draft, session.loaded} :
          /\ d.cluster.main \in Domain \union {None}
          /\ Len(d.nodes) <= MaxNodes
          /\ \A i \in DOMAIN d.nodes : d.nodes[i].name \in NodeName /\ d.nodes[i].roles \subseteq Role
          /\ d.storage \in [Claim -> Size \union {0, -1}]
          /\ d.packages.chosen \in [Package -> {None, "true", "false", "text", "enabled", "disabled"}]
          /\ \A h \in Host : (d.registries[h].user = None) = (d.registries[h].secret = None)
          /\ \A n \in Namespace : d.mail.spaces[n] # NoMail => d.mail.spaces[n].given
    /\ subject \in Sections
    /\ runs \in 0..MaxRuns
    /\ wrote \subseteq Sections
    /\ ticked \subseteq Catalogue
    /\ removed \in BOOLEAN

Saving == session.at = "writing" /\ file'.is = "config"

\* A node in the shape the section leaves one it asked about.
AsAsked(node) ==
    /\ node.labels # "list"
    /\ node.gateway = ("gateway" \in node.roles)
    /\ (node.region = None) = (node.zone = None)

\* A server with its port, be it the usual one.
WithPort(server) == IF server = NoServer THEN NoServer ELSE OfferedServer(server)

WithPorts(m) ==
    [m EXCEPT !.defaults = WithPort(@),
              !.spaces   = [n \in Namespace |-> [m.spaces[n] EXCEPT !.server = WithPort(@)]]]

\* What a section said, still said; something missing may be added.
Kept(s, old, new) ==
    CASE s = "packages" -> /\ new.chosen = old.chosen
                           /\ old.secretKey => new.secretKey
                           /\ old.store # None => new.store = old.store
      [] s = "nodes"    -> \A i \in DOMAIN old : AsAsked(old[i]) => new[i] = old[i]
      [] s = "k3s"      -> old # None => new = old
      [] s = "mail"     -> MailProblems(old) = {} => WithPorts(new) = WithPorts(old)
      [] OTHER          -> new = old

(* "So that pressing enter through this keeps whatever was decided         *)
(* before": a section configure wrote itself, gone through again with      *)
(* Enter, keeps every setting it had; at most something missing is added,  *)
(* like the port of a mail server.  A login without encryption, which      *)
(* preflight refuses, is not offered again.                                *)
EnterKeeps ==
    [][Saving /\ session.entered =>
          \A s \in wrote \intersect session.ran :
              Kept(s, session.loaded[s], file'.draft[s])]_configureVars

(* "A configuration can hold keys this installer doesn't manage, and       *)
(* editing one section shouldn't disturb them": not what a node says       *)
(* beside, nor the gateway's addresses, nor what a registry or a package   *)
(* is set up with, even one that is turned off.                            *)
BesideKept ==
    [][Saving =>
          LET old == session.loaded
              new == file'.draft
          IN  /\ ~removed => \A i \in DOMAIN old.nodes :
                     /\ new.nodes[i].fixed = old.nodes[i].fixed
                     /\ old.nodes[i].labels = "map" => new.nodes[i].labels = "map"
              /\ new.network.addresses = old.network.addresses
              /\ \A h \in Host : old.registries[h].more => new.registries[h].more
              /\ \A p \in Package :
                     /\ old.packages.chosen[p] \in {"enabled", "disabled"} =>
                           new.packages.chosen[p] \in {"enabled", "disabled"}
                     /\ p \notin Catalogue => new.packages.chosen[p] = old.packages.chosen[p]]_configureVars

(* "What can be chosen is exactly what can actually be installed": after   *)
(* a save, the installer takes for enabled what was ticked, of what there  *)
(* is to tick, in whichever form the file had it.                          *)
TicksAreInstalled ==
    [][Saving /\ "packages" \in session.ran =>
          Enabled(file'.draft.packages.chosen) \intersect Catalogue = ticked]_configureVars

(* Somebody who changes nothing doesn't make a configuration unusable:     *)
(* what preflight accepts it still accepts once every question was         *)
(* answered with Enter.  A node that is a gateway by its flag alone is     *)
(* one no more.                                                            *)
EnterStaysAccepted ==
    [][Saving /\ session.entered /\ Problems(session.loaded) = {}
          /\ (\A i \in DOMAIN session.loaded.nodes :
                  session.loaded.nodes[i].gateway => "gateway" \in session.loaded.nodes[i].roles)
       => Problems(file'.draft) = {}]_configureVars

(* "Each namespace has its own, so that one namespace sending more than it *)
(* should doesn't cost every other its mail": under a configuration that   *)
(* is accepted, however it came about, no two namespaces are one user of   *)
(* one server, and no password goes out unencrypted.                       *)
AcceptedMailIsApart ==
    file.is = "config" /\ Problems(file.draft) = {} =>
        LET m == file.draft.mail
        IN  \A n \in Senders(m) :
               /\ ServerOf(m, n).host # None
               /\ m.spaces[n].password # None => ServerOf(m, n).security # "none"
               /\ \A o \in Senders(m) \ {n} :
                     m.spaces[n].user = None \/ m.spaces[n].user # m.spaces[o].user
                        \/ ServerOf(m, n).host # ServerOf(m, o).host

\* What the menu's line of the packages names.
Summary(packages) == {p \in Package : packages[p] \in {"true", "enabled"}}

(* The line the menu shows of the packages names those the installer would *)
(* install ("so the menu is worth reading").                               *)
(* Doesn't hold, and no run checks it (README, Observed on the way).       *)
SummaryIsTrue ==
    file.is = "config" =>
        Summary(file.draft.packages.chosen) = Enabled(file.draft.packages.chosen)

(* Going through a configuration again changes what was answered and       *)
(* nothing else: Enter keeps, what isn't asked about stays, what was       *)
(* ticked is installed, what was accepted still is, and no namespaces      *)
(* share a mail login.                                                     *)
ConfigureKeeps ==
    /\ [](ConfigureTypeOK /\ AcceptedMailIsApart)
    /\ EnterKeeps
    /\ BesideKept
    /\ TicksAreInstalled
    /\ EnterStaysAccepted
=============================================================================
