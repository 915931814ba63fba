------------------------------- MODULE MCSteps -------------------------------
(***************************************************************************)
(* Things that don't touch each other, explored side by side: what is      *)
(* remembered over a plan of three steps, of a server and an agent with    *)
(* two slots; one bundle of up to three commands; a check-up; a preflight; *)
(* and the port of an application's images.  A behaviour is of one of      *)
(* them, the others staying as they began.                                 *)
(***************************************************************************)
EXTENDS RunMemory, CommandBundle, ImagePort, Doctor, Preflight, TLC

CONSTANTS s1, a1, disks, classes, token, version

MCNode == {s1, a1}
MCSlot == {disks, classes}

-----------------------------------------------------------------------------
\* Bundles of a command that finds a value, one that has a reason to skip, and
\* one that needs the value or the control plane.

Plain ==
    [wanted |-> TRUE, runOn |-> "node", optional |-> FALSE, needs |-> {},
     saves |-> {}, outputs |-> "raw"]

Find    == [Plain EXCEPT !.saves = {token}, !.outputs = "json"]
Refind  == [Plain EXCEPT !.saves = {token, version}, !.optional = TRUE]
Use     == [Plain EXCEPT !.needs = {token}, !.optional = TRUE]
Cluster == [Plain EXCEPT !.runOn = "control-plane", !.saves = {version}]
Change  == [Plain EXCEPT !.wanted = FALSE, !.saves = {token}]

MCBundles ==
    {[commands |-> c, continueOnFailure |-> k, controlPlaneExec |-> e] :
        c \in {<<Find, Use, Plain>>, <<Find, Refind, Cluster>>,
               <<Refind, Change, Use>>, <<Cluster, Use>>},
        k \in BOOLEAN, e \in BOOLEAN}

-----------------------------------------------------------------------------
\* A tag that may stand for an image of one port, of two or of none, and for an
\* index whose amd64 image declares what its others don't.

CONSTANTS main, plain, two, index, config1, config2, ownSecret, defaultSecret

One(c) == [list |-> NoList, config |-> c]

MCHolds ==
    plain :> One(config1) @@ two :> One(config2) @@
    index :> [list |-> << [of |-> two, os |-> "unknown", architecture |-> "unknown"],
                          [of |-> two, os |-> "linux", architecture |-> "arm64"],
                          [of |-> plain, os |-> "linux", architecture |-> "amd64"] >>,
              config |-> NoConfig]

TcpPort(n) == [port |-> n, protocol |-> "tcp"]

MCPorts ==
    config1 :> {TcpPort(3000), [port |-> 53, protocol |-> "udp"]} @@
    config2 :> {TcpPort(9000), TcpPort(9443)}

MCDefaults == <<defaultSecret>>
MCListings == {<<>>, <<ownSecret, defaultSecret>>}

-----------------------------------------------------------------------------
\* A check-up of a server and two agents with up to two troubles, in bundles
\* that are built on each other, one that only looks and one that takes apart.

CONSTANT a2

Asking == [purpose |-> "verify", scope |-> "node", runOn |-> "node", explains |-> {}, remedy |-> <<"own">>]

ForNode(name)    == [name |-> name] @@ Asking
FromServer(name) == [runOn |-> "control-plane"] @@ ForNode(name)
ForCluster(name) == [scope |-> "cluster"] @@ FromServer(name)
Applying         == [name |-> "apply", purpose |-> "apply"] @@ Asking

Made(steps) == [teardown |-> FALSE, covered |-> FALSE, steps |-> steps]

MCDefinition ==
    "preflight" :> Made(<<[purpose |-> "require"] @@ ForNode("sudo")>>) @@
    "nebula"    :> Made(<<Applying, [explains |-> {"refused"}] @@ ForNode("enrolled")>>) @@
    "k3s"       :> Made(<<Applying, ForNode("running"), FromServer("joined")>>) @@
    "charts"    :> Made(<<Applying, ForCluster("released"), [purpose |-> "settle"] @@ ForCluster("rolled")>>) @@
    "gpus"      :> Made(<<[purpose |-> "inspect"] @@ ForNode("driver")>>) @@
    "helm"      :> ([covered |-> TRUE] @@ Made(<<Applying>>)) @@
    "uninstall" :> ([teardown |-> TRUE] @@ Made(<<Applying, ForNode("gone")>>))

Ill(check, n, why) == [step |-> check, computer |-> n, why |-> why]

MCTroubles ==
    {Ill(check, n, "broken") : check \in {"sudo", "running", "joined"}, n \in {s1, a1}}
    \union {Ill("enrolled", a1, "refused"), Ill("released", s1, "broken"), Ill("rolled", s1, "broken"),
            Ill("driver", a1, "silent"), Ill("driver", s1, "silent"), Ill("sudo", a2, "broken")}

MCRegistered == <<"gpus", "helm", "charts", "uninstall", "preflight", "k3s", "nebula">>
MCPipeline == <<"preflight", "nebula", "k3s", "helm", "charts">>
MCIllness == {{t, u} : t \in MCTroubles, u \in MCTroubles} \union {{}}

MCQuestions ==
    [computer : {"all", s1, a1}, bundle : {"all"}, settle : {FALSE}, assert : {FALSE}]
    \union {[computer |-> a1, bundle |-> "charts", settle |-> FALSE, assert |-> TRUE],
            [computer |-> "all", bundle |-> "all", settle |-> TRUE, assert |-> FALSE]}

-----------------------------------------------------------------------------
\* A preflight of a server that is a gateway and of an agent, from a file that
\* is right and from files with a mistake, two of them of three nodes.

Written(name) ==
    [name |-> name, registered |-> name, address |-> name, ip |-> "nothing", shown |-> "nothing",
     region |-> "here", storage |-> name = "server", server |-> name = "server", gateway |-> name = "server"]

Right ==
    [nodes |-> <<Written("server"), Written("agent")>>, token |-> "secret", wrong |-> {},
     packages |-> {"mailer"}, values |-> {"hostname"}, mail |-> "starttls", volumeServers |-> 1,
     mesh |-> [network |-> TRUE, key |-> TRUE, inFile |-> FALSE, settings |-> FALSE],
     placement |-> "shop" :> "here",
     signIn |-> [used |-> TRUE, whole |-> TRUE, groupGetsIn |-> TRUE]]

Third(field, value) ==
    LET other(name) == [Written(name) EXCEPT ![field] = value]
    IN  [Right EXCEPT !.nodes = <<Written("server"), other("agent"), other("spare")>>]

Mistaken ==
    {[Right EXCEPT !.nodes = <<>>], [Right EXCEPT !.nodes[2].server = TRUE], [Right EXCEPT !.token = "malformed"],
     [Right EXCEPT !.wrong = {"token"}], [Right EXCEPT !.wrong = {"elsewhere"}],
     [Right EXCEPT !.nodes[1].registered = "nothing", !.nodes[1].address = "nothing"],
     [Right EXCEPT !.nodes[2].ip = "name"], [Right EXCEPT !.packages = {"mailer", "unheard of"}],
     [Right EXCEPT !.values = {}], [Right EXCEPT !.mail = "none"], [Right EXCEPT !.volumeServers = 2],
     [Right EXCEPT !.mesh.key = FALSE], [Right EXCEPT !.mesh.network = FALSE, !.mesh.settings = TRUE],
     [Right EXCEPT !.placement = "shop" :> "there"], [Right EXCEPT !.signIn.whole = FALSE]}
    \union {Third(field, "twice") : field \in {"registered", "ip", "shown"}}

MCMachines ==
    LET unfit == {{}} \union {{c} : c \in {"check-required-tools", "check-ports-free", "check-clock",
                                          "check-network-support", "check-gateway-interfaces"}}
    IN  [off : {{}, {"server"}, {"agent"}},
         unfit : {"server" :> u @@ "agent" :> v @@ "spare" :> {} : u \in unfit, v \in unfit}]

MCFiles == {Right} \union Mistaken

MCProvided == "mailer" :> [values |-> {"hostname"}, security |-> {"tls", "starttls"}]

-----------------------------------------------------------------------------
VARIABLE part

NoDoctor ==
    /\ stage = "raising" /\ options = [computer |-> "all", bundle |-> "all", settle |-> FALSE, assert |-> FALSE]
    /\ down = {} /\ unbuilt = {} /\ ill = {} /\ fleet = [members |-> {}, borrowed |-> FALSE]
    /\ failures = {} /\ plan = <<>> /\ unplanned = {} /\ next = 1 /\ blocked = {}
    /\ outcomes = {} /\ fixes = <<>>
    /\ report = [problems |-> {}, suggested |-> {}, listed |-> <<>>]

NoPreflight ==
    /\ file = Right /\ only = "all" /\ machines = [off |-> {}, unfit |-> <<>>]
    /\ phase = "configuration" /\ todo = <<>> /\ line = "none" /\ turn = 1 /\ told = {}
    /\ answered = <<>> /\ lostAt = <<>> /\ closed = 0

stepsVars == <<part, memoryVars, bundleVars, portVars, doctorVars, preflightVars>>

StepsInit ==
    /\ part \in {"memory", "bundle", "port", "doctor", "preflight"}
    /\ MemoryInit
    /\ BundleInit
    /\ part # "bundle" => bundle.commands = <<Cluster, Use>> /\ bundle.continueOnFailure
                          /\ bundle.controlPlaneExec
    /\ PortInit
    /\ wanted = main /\ listed = <<>> /\ secrets[ownSecret] = "nothing"
    /\ part # "port" =>
          tag[main] = plain /\ secrets[defaultSecret] = "nothing" /\ door = "open" /\ public
    /\ IF part = "doctor" THEN DoctorInit ELSE NoDoctor
    /\ IF part = "preflight" THEN PreflightInit ELSE NoPreflight
    /\ file # Right => machines.off = {} /\ \A n \in DOMAIN machines.unfit : machines.unfit[n] = {}

StepsNext ==
    \/ part = "memory" /\ MemoryNext
       /\ UNCHANGED <<part, bundleVars, portVars, doctorVars, preflightVars>>
    \/ part = "bundle" /\ BundleNext
       /\ UNCHANGED <<part, memoryVars, portVars, doctorVars, preflightVars>>
    \/ part = "port" /\ PortNext
       /\ UNCHANGED <<part, memoryVars, bundleVars, doctorVars, preflightVars>>
    \/ part = "doctor" /\ DoctorNext
       /\ UNCHANGED <<part, memoryVars, bundleVars, portVars, preflightVars>>
    \/ part = "preflight" /\ PreflightNext
       /\ UNCHANGED <<part, memoryVars, bundleVars, portVars, doctorVars>>

\* The operator's passes go on, and each answer comes.
StepsSpec ==
    /\ StepsInit
    /\ [][StepsNext]_stepsVars
    /\ WF_stepsVars(part = "port" /\ Pass
                    /\ UNCHANGED <<part, memoryVars, bundleVars, doctorVars, preflightVars>>)

-----------------------------------------------------------------------------
(* What ImagePort states of the registry, in its part: it is asked until   *)
(* the port is known, and no longer.                                       *)
PortIsSettled == part = "port" => PortSettles
=============================================================================
