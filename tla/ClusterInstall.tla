--------------------------- MODULE ClusterInstall ---------------------------
(***************************************************************************)
(* A cluster installed, extended and changed, over and over: what          *)
(* runners/{install,addNode}.ts do to its machines and to the cluster,     *)
(* with the bundles of                                                     *)
(* installer/src/cli/commands/{K3s,ClusterSignIn,Registries,NodeLabels,    *)
(* Cilium,GatewayNodes,Nvidia,ClusterConfig,AddNode}.ts and, of module     *)
(* Mesh, those of Nebula.  Storage is NodeStorage's, packages are          *)
(* Packages', and leaving the cluster is NodeLifecycle's.                  *)
(***************************************************************************)
EXTENDS Mesh

CONSTANTS
    Gpu,     \* the nodes with an NVIDIA card
    Held,    \* the nodes that hold the floating address they're given
    Half     \* the registries given half of their credentials

VARIABLES
    disk,      \* what the bundles put on each node for K3s to read
    k3s,       \* each node's K3s, and what it was started with
    byHand,    \* the server's config.yaml has the authentication flag
    cluster    \* what the API server has

machineVars == <<disk, k3s, byHand, cluster>>

vars == <<runVars, meshVars, machineVars>>

NoDisk == [registries |-> 0, toolkit |-> FALSE, driver |-> FALSE, auth |-> 0]

\*   address, flag        its flags: the address to register on, the sign-in
\*   registries, runtime  what it read when it started
\*   joined               registered since; credentials: ever
NoK3s == [up |-> FALSE, address |-> "local", flag |-> FALSE, registries |-> 0,
          runtime |-> FALSE, joined |-> FALSE, credentials |-> FALSE]

NoCluster ==
    [registered |-> [n \in Node |-> "none"], gateways |-> {}, gpus |-> {},
     crds |-> FALSE, cilium |-> "absent", pool |-> {}, policy |-> FALSE,
     gateway |-> {}, record |-> {}]

Init ==
    /\ RunInit
    /\ MeshInit
    /\ disk = [n \in Node |-> NoDisk]
    /\ k3s = [n \in Node |-> NoK3s]
    /\ byHand = FALSE
    /\ cluster = NoCluster

ServerUp == k3s[Server].up

\* The addresses handed out: each gateway's own, or one on the LAN.
Addresses(c) ==
    IF c.gateways = {} THEN {} ELSE IF c.mode = "floating" THEN c.gateways ELSE {"lan"}

HasGateway(c) == Addresses(c) # {}

AddressFor(c, n) == IF OnNetwork(c) /\ n \notin c.pinned THEN "mesh" ELSE "local"

ChecksAddress(c, n) == OnNetwork(c) \/ n \in c.pinned

Restarted(k, d) ==
    [k EXCEPT !.up = TRUE, !.registries = d.registries, !.runtime = d.toolkit,
              !.joined = FALSE]

-----------------------------------------------------------------------------
(* The bundles, and the pipelines made of them                             *)

Registries == <<"check-k3s-service", "write-registries-config", "restart-k3s",
                "verify-registry-access">>

SignIn == <<"write-authentication-config", "verify-authentication-config">>

K3s == <<"find-node-ip">> \o SignIn \o
       <<"install-k3s-server", "install-k3s-agent", "wait-for-k3s", "verify-k3s",
         "verify-node-ip">>

NodeLabels == <<"check-cluster-access", "apply-node-labels", "verify-node-labels">>

Cilium == <<"install-gateway-api", "install-cilium", "wait-for-cilium", "verify-cilium">>

GatewayAddresses ==
    <<"check-gateway-support", "apply-lb-ip-pool", "apply-l2-announcement",
      "verify-gateway", "apply-cluster-gateway", "verify-cluster-gateway">>

Gateway ==
    <<"check-gateway-interfaces", "check-gateway-support", "label-gateway-nodes">>
        \o Tail(GatewayAddresses)

Nvidia == <<"install-nvidia-container-toolkit", "check-k3s-nvidia-runtime",
            "restart-k3s-for-nvidia", "check-nvidia-driver", "label-nvidia-driver",
            "verify-nvidia-runtime">>

Cluster == <<"write-cluster-config", "verify-cluster-config">>

\* Fault: the cluster's record is written as soon as there is a cluster.
InstallRecordingEarly(c) ==
    <<"check-gateway-interfaces">> \o NebulaNetwork(c) \o Nebula(c) \o Registries \o K3s
        \o NodeLabels \o Cluster \o Cilium \o Gateway \o Nvidia

InstallPipeline(c) ==
    <<"check-gateway-interfaces">> \o NebulaNetwork(c) \o Nebula(c) \o Registries \o K3s
        \o NodeLabels \o Cilium \o Gateway \o Nvidia \o Cluster

AddNodePipeline(c) ==
    <<"check-cluster-online", "check-gateway-interfaces">> \o Nebula(c) \o Registries
        \o K3s \o NodeLabels \o GatewayAddresses \o Nvidia \o <<"verify-node-ready">>

PipelineOf(what, c) ==
    CASE what = "install"         -> InstallPipeline(c)
      [] what = "add-node"        -> AddNodePipeline(c)
      [] what = "k3s"             -> K3s
      [] what = "cluster-sign-in" -> SignIn
      [] OTHER                    -> <<>>

\* A step that has nothing to do: skipWhen.
NothingToDo(step, n) ==
    LET c == run.conf
    IN  \/ NothingToEnroll(step, n)
        \/ /\ step = "check-gateway-interfaces"
           /\ ~HasGateway(c) \/ n \notin c.gateways
        \/ /\ step \in {"write-registries-config", "verify-registry-access"}
           /\ c.registries = 0
        \/ step = "restart-k3s" /\ (c.registries = 0 \/ ~know[n].active)
        \/ step = "find-node-ip" /\ ~ChecksAddress(c, n)
        \/ step \in {SignIn[1], SignIn[2]} /\ c.clients = 0
        \/ step = "verify-node-ip" /\ know[n].nodeIp = "none"
        \/ /\ step \in {"label-gateway-nodes", "apply-lb-ip-pool", "verify-gateway",
                        "verify-cluster-gateway"}
           /\ ~HasGateway(c)
        \/ /\ step = "apply-l2-announcement"
           /\ ~HasGateway(c) \/ c.mode # "port-forward"
        \/ step \in {Nvidia[i] : i \in DOMAIN Nvidia} /\ n \notin Gpu
        \/ step = "restart-k3s-for-nvidia" /\ ~know[n].stale

Doing(step, n) == At(step, n) /\ ~NothingToDo(step, n)

PassOver ==
    \E n \in run.todo :
        /\ NothingToDo(Head(run.steps), n)
        /\ Looks(n, TRUE, know[n])
        /\ UNCHANGED <<meshVars, machineVars>>

-----------------------------------------------------------------------------
(* Registries                                                              *)

CheckK3sService(n) ==
    /\ Doing("check-k3s-service", n)
    /\ Looks(n, TRUE, [know[n] EXCEPT !.active = k3s[n].up])
    /\ UNCHANGED machineVars

\* A user without a password, or an empty section, can't be rendered.
Renders(c) == c.registries \notin Half

WriteRegistries(n) ==
    /\ Doing("write-registries-config", n)
    /\ IF Renders(run.conf)
       THEN disk' = [disk EXCEPT ![n].registries = run.conf.registries] /\ Does(n, know[n])
       ELSE UNCHANGED disk /\ Looks(n, FALSE, know[n])
    /\ UNCHANGED <<k3s, byHand, cluster>>

\* An agent is only back once it reaches the server.
RestartK3s(n) ==
    /\ Doing("restart-k3s", n)
    /\ k3s' = [k3s EXCEPT ![n] = Restarted(@, disk[n])]
    /\ Does(n, know[n])
    /\ UNCHANGED <<disk, byHand, cluster>>

VerifyRegistryAccess(n) ==
    /\ Doing("verify-registry-access", n)
    /\ Looks(n, TRUE, know[n])
    /\ UNCHANGED machineVars

-----------------------------------------------------------------------------
(* K3s                                                                     *)

\* A "nodeIp" is one the machine has; else the cluster's network gave it one.
FindNodeIp(n) ==
    /\ Doing("find-node-ip", n)
    /\ LET address == AddressFor(run.conf, n)
       IN  Looks(n, address = "mesh" => client[n].ipv4, [know[n] EXCEPT !.nodeIp = address])
    /\ UNCHANGED machineVars

WriteAuthenticationConfig ==
    /\ Doing("write-authentication-config", Server)
    /\ disk' = [disk EXCEPT ![Server].auth = run.conf.clients]
    /\ Does(Server, know[Server])
    /\ UNCHANGED <<k3s, byHand, cluster>>

\* Fault: that the file is current is all that is checked.
VerifyAuthenticationFile ==
    /\ Doing("verify-authentication-config", Server)
    /\ Looks(Server, disk[Server].auth = run.conf.clients, know[Server])
    /\ UNCHANGED machineVars

\* The file is current, and K3s hands it to the API server.
VerifyAuthenticationConfig ==
    /\ Doing("verify-authentication-config", Server)
    /\ Looks(Server, disk[Server].auth = run.conf.clients /\ (k3s[Server].flag \/ byHand),
             know[Server])
    /\ UNCHANGED machineVars

(* The install script writes the service's flags and restarts it if they   *)
(* changed.  It may anyway: its channel may have moved on.                 *)
InstallK3s(n) ==
    LET flagged == [k3s[n] EXCEPT
                      !.address = IF know[n].nodeIp = "none" THEN "local" ELSE know[n].nodeIp,
                      !.flag = (n = Server /\ run.conf.clients # 0)]
    IN  /\ \/ k3s' = [k3s EXCEPT ![n] = Restarted(flagged, disk[n])]
           \/ flagged = k3s[n] /\ k3s[n].up /\ UNCHANGED k3s
        /\ Does(n, know[n])
        /\ UNCHANGED <<disk, byHand, cluster>>

InstallK3sServer == Doing("install-k3s-server", Server) /\ InstallK3s(Server)

InstallK3sAgent(n) == Doing("install-k3s-agent", n) /\ InstallK3s(n)

WaitForK3s(n) ==
    /\ Doing("wait-for-k3s", n)
    /\ WaitsFor(n, k3s[n].up, k3s[n].up)
    /\ UNCHANGED machineVars

\* A server is asked what the cluster has; an agent, for its credentials.
VerifyK3s(n) ==
    /\ Doing("verify-k3s", n)
    /\ WaitsFor(n, k3s[n].up /\ IF n = Server THEN cluster.registered[n] # "none"
                                              ELSE k3s[n].credentials,
                k3s[n].up)
    /\ UNCHANGED machineVars

(* It is waited for, and then its address has to be right.  A kubelet too  *)
(* late to say where it is now counts as going wrong.                      *)
VerifyNodeIp(n) ==
    /\ Doing("verify-node-ip", n)
    /\ WaitsFor(n, cluster.registered[n] = know[n].nodeIp, ~k3s[n].joined)
    /\ UNCHANGED machineVars

-----------------------------------------------------------------------------
(* Labels                                                                  *)

CheckClusterAccess(n) ==
    /\ Doing("check-cluster-access", n)
    /\ WaitsFor(n, cluster.registered[n] # "none", k3s[n].up)
    /\ UNCHANGED machineVars

\* The role goes to a gateway though nobody wrote it down, and is taken off
\* a node that is none any more.
LabelledAsMeant(n) ==
    IF n \in run.conf.gateways THEN cluster.gateways \cup {n} ELSE cluster.gateways \ {n}

ApplyNodeLabels(n) ==
    /\ Doing("apply-node-labels", n)
    /\ cluster' = [cluster EXCEPT !.gateways = LabelledAsMeant(n)]
    /\ Does(n, know[n])
    /\ UNCHANGED <<disk, k3s, byHand>>

VerifyNodeLabels(n) ==
    /\ Doing("verify-node-labels", n)
    /\ Looks(n, cluster.gateways = LabelledAsMeant(n), know[n])
    /\ UNCHANGED machineVars

-----------------------------------------------------------------------------
(* Cilium, and the way in from outside                                     *)

InstallGatewayApi ==
    /\ Doing("install-gateway-api", Server)
    /\ cluster' = [cluster EXCEPT !.crds = TRUE]
    /\ Does(Server, know[Server])
    /\ UNCHANGED <<disk, k3s, byHand>>

\* Its operator has a Gateway API controller if the resources were there.
InstallCilium ==
    /\ Doing("install-cilium", Server)
    /\ cluster' = [cluster EXCEPT !.cilium =
                      IF @ # "absent" THEN @
                      ELSE IF cluster.crds THEN "with controller" ELSE "without"]
    /\ Does(Server, know[Server])
    /\ UNCHANGED <<disk, k3s, byHand>>

Registered == {n \in Node : cluster.registered[n] # "none"}

\* A restart is too short for a node that was ready to be taken for another.
Ready(n) == n \in Registered /\ k3s[n].up /\ k3s[n].credentials

WaitForCilium(step) ==
    /\ Doing(step, Server)
    /\ WaitsFor(Server, \A n \in Registered : Ready(n), \A n \in Registered : k3s[n].up)
    /\ UNCHANGED machineVars

\* A floating address has to be on the node; another, Cilium answers for.
CheckGatewayInterfaces(n) ==
    /\ Doing("check-gateway-interfaces", n)
    /\ Looks(n, run.conf.mode = "floating" => n \in Held, know[n])
    /\ UNCHANGED machineVars

CheckGatewaySupport ==
    /\ Doing("check-gateway-support", Server)
    /\ Looks(Server, cluster.cilium # "absent", know[Server])
    /\ UNCHANGED machineVars

LabelGatewayNodes ==
    /\ Doing("label-gateway-nodes", Server)
    /\ IF run.conf.gateways \subseteq Registered
       THEN /\ cluster' = [cluster EXCEPT !.gateways = @ \cup run.conf.gateways]
            /\ Does(Server, know[Server])
       ELSE UNCHANGED cluster /\ Looks(Server, FALSE, know[Server])
    /\ UNCHANGED <<disk, k3s, byHand>>

ApplyLbIpPool ==
    /\ Doing("apply-lb-ip-pool", Server)
    /\ cluster' = [cluster EXCEPT !.pool = Addresses(run.conf)]
    /\ Does(Server, know[Server])
    /\ UNCHANGED <<disk, k3s, byHand>>

ApplyL2Announcement ==
    /\ Doing("apply-l2-announcement", Server)
    /\ cluster' = [cluster EXCEPT !.policy = TRUE]
    /\ Does(Server, know[Server])
    /\ UNCHANGED <<disk, k3s, byHand>>

VerifyGateway ==
    /\ Doing("verify-gateway", Server)
    /\ WaitsFor(Server, cluster.pool # {}, FALSE)
    /\ UNCHANGED machineVars

\* The Gateway applications attach to, on the addresses there are.
ApplyClusterGateway ==
    /\ Doing("apply-cluster-gateway", Server)
    /\ cluster' = [cluster EXCEPT !.gateway = Addresses(run.conf)]
    /\ Does(Server, know[Server])
    /\ UNCHANGED <<disk, k3s, byHand>>

\* Programmed by Cilium's controller, on an address the pool has.
VerifyClusterGateway ==
    /\ Doing("verify-cluster-gateway", Server)
    /\ WaitsFor(Server, /\ cluster.cilium = "with controller"
                        /\ cluster.gateway # {} /\ cluster.gateway \subseteq cluster.pool,
                FALSE)
    /\ UNCHANGED machineVars

-----------------------------------------------------------------------------
(* NVIDIA's runtime                                                        *)

InstallToolkit(n) ==
    /\ Doing("install-nvidia-container-toolkit", n)
    /\ disk' = [disk EXCEPT ![n].toolkit = TRUE]
    /\ Does(n, know[n])
    /\ UNCHANGED <<k3s, byHand, cluster>>

CheckRuntime(n) ==
    /\ Doing("check-k3s-nvidia-runtime", n)
    /\ Looks(n, TRUE, [know[n] EXCEPT !.stale = (k3s[n].up /\ ~k3s[n].runtime)])
    /\ UNCHANGED machineVars

RestartForNvidia(n) ==
    /\ Doing("restart-k3s-for-nvidia", n)
    /\ k3s' = [k3s EXCEPT ![n] = Restarted(@, disk[n])]
    /\ Does(n, know[n])
    /\ UNCHANGED <<disk, byHand, cluster>>

CheckDriver(n) ==
    /\ Doing("check-nvidia-driver", n)
    /\ Looks(n, TRUE, [know[n] EXCEPT !.driver = disk[n].driver])
    /\ UNCHANGED machineVars

LabelDriver(n) ==
    /\ Doing("label-nvidia-driver", n)
    /\ cluster' = [cluster EXCEPT !.gpus =
                      IF know[n].driver THEN @ \cup {n} ELSE @ \ {n}]
    /\ Does(n, know[n])
    /\ UNCHANGED <<disk, k3s, byHand>>

VerifyRuntime(n) ==
    /\ Doing("verify-nvidia-runtime", n)
    /\ Looks(n, disk[n].toolkit /\ (k3s[n].up => k3s[n].runtime), know[n])
    /\ UNCHANGED machineVars

-----------------------------------------------------------------------------
(* The cluster's own record, and a node's joining                          *)

\* {} until there is one.
WriteClusterConfig ==
    /\ Doing("write-cluster-config", Server)
    /\ cluster' = [cluster EXCEPT !.record = {run.conf}]
    /\ Does(Server, know[Server])
    /\ UNCHANGED <<disk, k3s, byHand>>

VerifyClusterConfig ==
    /\ Doing("verify-cluster-config", Server)
    /\ Looks(Server, cluster.record = {run.conf}, know[Server])
    /\ UNCHANGED machineVars

CheckClusterOnline ==
    /\ Doing("check-cluster-online", Server)
    /\ Looks(Server, ServerUp, know[Server])
    /\ UNCHANGED machineVars

VerifyNodeReady(n) ==
    /\ Doing("verify-node-ready", n)
    /\ WaitsFor(n, Ready(n), k3s[n].up)
    /\ UNCHANGED machineVars

BundleStep ==
    \/ InstallGatewayApi \/ InstallCilium
    \/ WaitForCilium("wait-for-cilium") \/ WaitForCilium("verify-cilium")
    \/ CheckGatewaySupport \/ LabelGatewayNodes \/ ApplyLbIpPool
    \/ ApplyL2Announcement \/ VerifyGateway \/ ApplyClusterGateway
    \/ VerifyClusterGateway \/ WriteClusterConfig \/ VerifyClusterConfig
    \/ CheckClusterOnline \/ WriteAuthenticationConfig \/ VerifyAuthenticationConfig
    \/ InstallK3sServer
    \/ \E n \in Node :
          \/ CheckGatewayInterfaces(n) \/ CheckK3sService(n) \/ WriteRegistries(n)
          \/ RestartK3s(n) \/ VerifyRegistryAccess(n) \/ FindNodeIp(n)
          \/ InstallK3sAgent(n) \/ WaitForK3s(n) \/ VerifyK3s(n) \/ VerifyNodeIp(n)
          \/ CheckClusterAccess(n) \/ ApplyNodeLabels(n) \/ VerifyNodeLabels(n)
          \/ InstallToolkit(n) \/ CheckRuntime(n) \/ RestartForNvidia(n)
          \/ CheckDriver(n) \/ LabelDriver(n) \/ VerifyRuntime(n) \/ VerifyNodeReady(n)

-----------------------------------------------------------------------------
(* The commands                                                            *)

\* Nothing stands in the way.
Able(c, nodes) ==
    /\ AbleToMesh(c, nodes)
    /\ Renders(c)
    /\ c.clients = 0 \/ k3s[Server].flag \/ byHand
    /\ c.mode = "floating" => c.gateways \cap nodes \subseteq Held

BeginInstall ==
    Begin("install", config.nodes, InstallPipeline(config),
          /\ Able(config, config.nodes)
          /\ OnNetwork(config) => RolesInOrder(config)
          /\ \A n \in Registered \ config.nodes : k3s[n].up)

BeginAddNode ==
    \E n \in config.nodes \ {Server} :
        Begin("add-node", {n}, AddNodePipeline(config),
              /\ Able(config, {n})
              /\ OnNetwork(config) => DefaultRole \in Existing
              /\ ServerUp /\ cluster.cilium = "with controller")

\* run-bundle, of one of the bundles.
BeginBundle ==
    \E bundle \in Unverified :
        Begin(bundle, config.nodes, PipelineOf(bundle, config), FALSE)

Verify ==
    /\ run.what \in {"install", "add-node"}
    /\ StartVerifying(PipelineOf(run.what, run.conf))

RunStep == StepBreaks \/ Verify \/ Ends \/ Abandon \/ Reconfigure

-----------------------------------------------------------------------------
(* What others do                                                          *)

\* A kubelet that reaches the server registers on the address it was given.
Joins(n) ==
    /\ k3s[n].up /\ ~k3s[n].joined /\ ServerUp
    /\ k3s' = [k3s EXCEPT ![n].joined = TRUE, ![n].credentials = TRUE]
    /\ cluster' = [cluster EXCEPT !.registered[n] = k3s[n].address]
    /\ UNCHANGED <<runVars, meshVars, disk, byHand>>

\* An agent's machine is set up afresh, under the name it had.
Rebuild(n) ==
    /\ n # Server /\ Edit
    /\ k3s[n].up \/ client[n] # NoClient
    /\ client' = [client EXCEPT ![n] = NoClient]
    /\ disk' = [disk EXCEPT ![n] = NoDisk]
    /\ k3s' = [k3s EXCEPT ![n] = NoK3s]
    /\ UNCHANGED <<config, run, know, faults, hosts, roles, byHand, cluster>>

InstallDriver(n) ==
    /\ n \in Gpu /\ ~disk[n].driver /\ Edit
    /\ disk' = [disk EXCEPT ![n].driver = TRUE]
    /\ UNCHANGED <<config, run, know, faults, meshVars, k3s, byHand, cluster>>

SetUpByHand ==
    /\ ~byHand /\ Edit
    /\ byHand' = TRUE
    /\ UNCHANGED <<config, run, know, faults, meshVars, disk, k3s, cluster>>

Next ==
    \/ (BeginInstall \/ BeginAddNode \/ BeginBundle) /\ UNCHANGED <<meshVars, machineVars>>
    \/ RunStep /\ UNCHANGED <<meshVars, machineVars>>
    \/ PassOver
    \/ MeshStep /\ UNCHANGED machineVars
    \/ BundleStep /\ UNCHANGED meshVars
    \/ \E n \in Node :
          \/ DnclientPolls(n) /\ UNCHANGED machineVars
          \/ (MadeInDashboard(n) \/ Block(n)) /\ UNCHANGED machineVars
          \/ Joins(n) \/ Rebuild(n) \/ InstallDriver(n)
    \/ SetUpByHand

Spec == Init /\ [][Next]_vars

-----------------------------------------------------------------------------
(* What makes it correct                                                   *)

TypeOK ==
    /\ RunTypeOK
    /\ MeshTypeOK
    /\ disk \in [Node -> [registries : Nat, toolkit : BOOLEAN, driver : BOOLEAN, auth : Nat]]
    /\ DOMAIN k3s = Node
    /\ byHand \in BOOLEAN
    /\ cluster.cilium \in {"absent", "without", "with controller"}
    /\ cluster.record \subseteq Configs

(* An install, or an add-node, that nothing stood in the way of and        *)
(* nothing went wrong with succeeds, whatever runs before it left: cut     *)
(* short anywhere, their answers lost, their configuration another.  The   *)
(* bundles are idempotent, and their checks ask for nothing that a step    *)
(* before them didn't bring about.                                         *)
RerunSucceeds == run.able /\ ~run.faulted => ~run.failed

(* When an install, or an add-node, has said that it's done, its nodes are *)
(* registered with the cluster on the address the configuration means: on  *)
(* the mesh, with a tunnel that has it, or the one they're given.          *)
MembersMeet ==
    Succeeded =>
        \A n \in run.nodes :
            /\ ChecksAddress(run.conf, n) =>
                  cluster.registered[n] = AddressFor(run.conf, n)
            /\ OnNetwork(run.conf) => client[n].ipv4

GatewayParts(c) ==
    /\ c.nodes \cap cluster.gateways = c.gateways
    /\ HasGateway(c) => cluster.pool = Addresses(c)
    /\ cluster.gateway = Addresses(c)
    /\ HasGateway(c) /\ c.mode = "port-forward" => cluster.policy

(* After an install the gateway is what the configuration says: the nodes  *)
(* labelled, the pool and the Gateway on its addresses, and Cilium         *)
(* announcing them where nothing else does.                                *)
GatewayInForce == Succeeded /\ run.what = "install" => GatewayParts(run.conf)

(* After an install, or an add-node, the K3s that runs on each of its      *)
(* nodes has loaded the registries and the runtime that are on its disk,   *)
(* and the node is offered for GPU work if and only if its driver works.   *)
LoadedWhatIsThere ==
    Succeeded =>
        \A n \in run.nodes :
            /\ k3s[n].up
            /\ run.conf.registries # 0 => k3s[n].registries = run.conf.registries
            /\ n \in Gpu => k3s[n].runtime /\ (n \in cluster.gpus <=> disk[n].driver)

(* When an install, or one of the bundles, has passed on a configuration   *)
(* with applications that sign in, the API server reads the current ones.  *)
SignInIsRead ==
    /\ \/ Succeeded /\ run.what = "install"
       \/ Done /\ run.what \in Unverified
    /\ run.conf.clients # 0
    => disk[Server].auth = run.conf.clients /\ (k3s[Server].flag \/ byHand)

(* A node of a cluster on a network is never moved to its local address,   *)
(* where nodes at other sites couldn't reach it, unless it's given that    *)
(* one (K3s.ts, find-node-ip).                                             *)
NeverLocal ==
    [][\A n \in Node :
          k3s'[n].up /\ k3s'[n].address = "local" /\ k3s[n] # k3s'[n]
              /\ ~(k3s[n].up /\ k3s[n].address = "local")
          => AddressFor(run.conf, n) = "local"]_vars

(* An agent's K3s is started only where there is a server to join          *)
(* (K3s.ts: "there has to be a server listening before any agent tries").  *)
AgentJoinsAServer == [][\A n \in Node : k3s'[n].up /\ ~k3s[n].up /\ n # Server => ServerUp]_vars

(* The cluster is never recorded as built from a configuration that isn't  *)
(* in force in it yet: its nodes registered and labelled, its gateway      *)
(* there.  The check-up compares what follows with that record.            *)
RecordedWhenTrue ==
    [][cluster'.record # cluster.record =>
          /\ cluster'.record = {run.conf}
          /\ run.conf.nodes \subseteq Registered
          /\ GatewayParts(run.conf)]_vars

(* A node that is a gateway and labelled so keeps its label: the policy    *)
(* that announces the addresses selects on it (NodeLabels.ts: "the two     *)
(* have to agree").                                                        *)
GatewayStays ==
    [][\A n \in cluster.gateways : n \notin cluster'.gateways => n \notin run.conf.gateways]_vars

(* An install can be run again over whatever the runs before it left, and  *)
(* makes nothing on the mesh twice.                                        *)
InstallInv ==
    /\ TypeOK
    /\ RolesOnce
    /\ RerunSucceeds

(* When a run has said that it is done, what the configuration asks for is *)
(* in force: the addresses the nodes are registered on, the gateway, and   *)
(* the settings K3s has loaded.                                            *)
InForce ==
    /\ MembersMeet
    /\ GatewayInForce
    /\ LoadedWhatIsThere
    /\ SignInIsRead

(* What no step of a run may do: register a node of the mesh on its local  *)
(* address, start an agent with no server to join, record what isn't in    *)
(* force, or take a gateway's label off.                                   *)
InOrder ==
    /\ NeverLocal
    /\ AgentJoinsAServer
    /\ RecordedWhenTrue
    /\ GatewayStays
=============================================================================
