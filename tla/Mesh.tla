-------------------------------- MODULE Mesh --------------------------------
(***************************************************************************)
(* The nodes of a cluster put on its Nebula network, a mesh run by Defined *)
(* Networking: the bundles of                                              *)
(* installer/src/cli/commands/{NebulaNetwork,Nebula}.ts.                   *)
(*                                                                         *)
(* The account's roles and hosts are in the service, and outlive a run cut *)
(* short between making one and hearing of it, a machine that is           *)
(* reinstalled, and whoever works on them in the service's dashboard.      *)
(***************************************************************************)
EXTENDS InstallRun

CONSTANTS
    Networks,     \* the networks the account has
    DefaultRole   \* the role a host is given

VARIABLES
    hosts,    \* the hosts registered on the network
    roles,    \* how many roles of a name it has
    client    \* each node's dnclient: what it's enrolled as, its address

meshVars == <<hosts, roles, client>>

RoleNames == UNION {RolesOf(c) : c \in Configs} \cup {DefaultRole}

NoClient == [installed |-> FALSE, as |-> "none", ipv4 |-> FALSE]

MeshInit ==
    /\ hosts = {}
    /\ roles = [r \in RoleNames |-> 0]
    /\ client = [n \in Node |-> NoClient]

OnNetwork(c) == c.network # "none"

Existing == {r \in RoleNames : roles[r] > 0}

-----------------------------------------------------------------------------
(* The network and its roles, once for the cluster                         *)

NebulaNetwork(c) ==
    IF OnNetwork(c)
    THEN <<"find-network-once", "list-roles-once">>
            \o [i \in DOMAIN c.roles |-> c.roles[i].name] \o <<"verify-nebula-roles">>
    ELSE <<>>

FindNetworkOnce ==
    /\ At("find-network-once", Server)
    /\ Looks(Server, run.conf.network \in Networks, know[Server])
    /\ UNCHANGED meshVars

ListRolesOnce ==
    /\ At("list-roles-once", Server)
    /\ Looks(Server, TRUE, [know[Server] EXCEPT !.roles = Existing])
    /\ UNCHANGED meshVars

(* A role that's there is left alone.  One with a rule for a role that     *)
(* isn't known can't be written.                                           *)
CreateRole(role) ==
    /\ At(role.name, Server)
    /\ LET known == know[Server].roles
       IN  \/ /\ role.name \in known
              /\ Looks(Server, TRUE, know[Server])
              /\ UNCHANGED roles
           \/ /\ role.name \notin known /\ role.allows \notin known \cup {"none"}
              /\ Looks(Server, FALSE, know[Server])
              /\ UNCHANGED roles
           \/ /\ role.name \notin known /\ role.allows \in known \cup {"none"}
              /\ roles' = [roles EXCEPT ![role.name] = @ + 1]
              /\ Does(Server, [know[Server] EXCEPT !.roles = known \cup {role.name}])
    /\ UNCHANGED <<hosts, client>>

VerifyRoles ==
    /\ At("verify-nebula-roles", Server)
    /\ Looks(Server, RolesOf(run.conf) \cup {DefaultRole} \subseteq Existing,
             [know[Server] EXCEPT !.roles = Existing])
    /\ UNCHANGED meshVars

-----------------------------------------------------------------------------
(* A node's enrolment                                                      *)

Nebula(c) ==
    IF OnNetwork(c)
    THEN <<"check-nebula-enrollment", "find-nebula-network", "list-nebula-roles",
           "find-nebula-host", "create-nebula-host", "create-nebula-enrollment-code",
           "add-nebula-ipv4-address", "install-dnclient", "enroll-nebula-host",
           "refresh-nebula-config", "verify-nebula-host">>
    ELSE <<>>

\* A step that has nothing to do: skipWhen.
NothingToEnroll(step, n) ==
    \/ step = "create-nebula-host" /\ (know[n].enrolled \/ know[n].host # "none")
    \/ step = "create-nebula-enrollment-code" /\ (know[n].enrolled \/ know[n].code)
    \/ step = "add-nebula-ipv4-address" /\ (know[n].host = "none" \/ know[n].ipv4)
    \/ step = "enroll-nebula-host" /\ know[n].enrolled
    \/ step = "refresh-nebula-config" /\ ~(know[n].added /\ know[n].enrolled)

CheckEnrollment(n) ==
    /\ At("check-nebula-enrollment", n)
    /\ Looks(n, TRUE, [know[n] EXCEPT !.enrolled = (client[n].as # "none")])
    /\ UNCHANGED meshVars

FindNetwork(n) ==
    /\ At("find-nebula-network", n)
    /\ Looks(n, run.conf.network \in Networks, know[n])
    /\ UNCHANGED meshVars

ListRoles(n) ==
    /\ At("list-nebula-roles", n)
    /\ Looks(n, TRUE, [know[n] EXCEPT !.roles = Existing])
    /\ UNCHANGED meshVars

\* Fault: only a host called exactly what the node is is its own.
HostsCalledExactly(n) == {h \in hosts : h.node = n /\ h.name = "as configured"}

\* Whatever the case of its name: the dashboard tends to capitalise it.
HostsOf(n) == {h \in hosts : h.node = n}

FindHost(n) ==
    /\ At("find-nebula-host", n)
    /\ \/ HostsOf(n) = {} /\ Looks(n, TRUE, know[n])
       \/ \E h \in HostsOf(n) :
             Looks(n, ~h.blocked, [know[n] EXCEPT !.host = h.name, !.ipv4 = h.ipv4])
    /\ UNCHANGED meshVars

\* The service refuses a second host of a name.
CreateHost(n) ==
    /\ At("create-nebula-host", n)
    /\ ~NothingToEnroll("create-nebula-host", n)
    /\ IF DefaultRole \in know[n].roles /\ ~\E h \in hosts : h.node = n
       THEN /\ hosts' = hosts \cup
                  {[node |-> n, name |-> "as configured", ipv4 |-> TRUE, blocked |-> FALSE]}
            /\ Does(n, [know[n] EXCEPT !.host = "as configured", !.ipv4 = TRUE, !.code = TRUE])
       ELSE UNCHANGED hosts /\ Looks(n, FALSE, know[n])
    /\ UNCHANGED <<roles, client>>

CreateEnrollmentCode(n) ==
    /\ At("create-nebula-enrollment-code", n)
    /\ ~NothingToEnroll("create-nebula-enrollment-code", n)
    /\ Looks(n, know[n].host # "none", [know[n] EXCEPT !.code = TRUE])
    /\ UNCHANGED meshVars

AddIPv4Address(n) ==
    /\ At("add-nebula-ipv4-address", n)
    /\ ~NothingToEnroll("add-nebula-ipv4-address", n)
    /\ hosts' = {IF h.node = n THEN [h EXCEPT !.ipv4 = TRUE] ELSE h : h \in hosts}
    /\ Does(n, [know[n] EXCEPT !.ipv4 = TRUE, !.added = TRUE])
    /\ UNCHANGED <<roles, client>>

InstallDnclient(n) ==
    /\ At("install-dnclient", n)
    /\ client' = [client EXCEPT ![n].installed = TRUE]
    /\ Does(n, know[n])
    /\ UNCHANGED <<hosts, roles>>

AddressOf(n) == \E h \in hosts : h.node = n /\ h.ipv4 /\ ~h.blocked

EnrollHost(n) ==
    /\ At("enroll-nebula-host", n)
    /\ ~NothingToEnroll("enroll-nebula-host", n)
    /\ IF know[n].code /\ client[n].installed
       THEN /\ client' = [client EXCEPT ![n].as = know[n].host, ![n].ipv4 = AddressOf(n)]
            /\ Does(n, know[n])
       ELSE UNCHANGED client /\ Looks(n, FALSE, know[n])
    /\ UNCHANGED <<hosts, roles>>

RefreshConfig(n) ==
    /\ At("refresh-nebula-config", n)
    /\ ~NothingToEnroll("refresh-nebula-config", n)
    /\ client' = [client EXCEPT ![n].ipv4 = AddressOf(n)]
    /\ Does(n, know[n])
    /\ UNCHANGED <<hosts, roles>>

\* A host it knows no address of only has to be enrolled.
VerifyHost(n) ==
    /\ At("verify-nebula-host", n)
    /\ WaitsFor(n, client[n].as # "none" /\ (know[n].ipv4 => client[n].ipv4),
                client[n].as # "none" /\ AddressOf(n))
    /\ UNCHANGED meshVars

MeshStep ==
    \/ FindNetworkOnce \/ ListRolesOnce \/ VerifyRoles
    \/ \E i \in DOMAIN run.conf.roles : CreateRole(run.conf.roles[i])
    \/ \E n \in Node :
          \/ CheckEnrollment(n) \/ FindNetwork(n) \/ ListRoles(n) \/ FindHost(n)
          \/ CreateHost(n) \/ CreateEnrollmentCode(n) \/ AddIPv4Address(n)
          \/ InstallDnclient(n) \/ EnrollHost(n) \/ RefreshConfig(n) \/ VerifyHost(n)

-----------------------------------------------------------------------------
(* What others do                                                          *)

\* dnclient asks for its configuration now and then; a blocked host gets none.
DnclientPolls(n) ==
    /\ client[n].as # "none"
    /\ client[n].ipv4 # AddressOf(n)
    /\ client' = [client EXCEPT ![n].ipv4 = AddressOf(n)]
    /\ UNCHANGED <<runVars, hosts, roles>>

(* Somebody makes the host in the dashboard, with no IPv4 address, and     *)
(* may enroll the machine as it too.                                       *)
MadeInDashboard(n) ==
    /\ Edit
    /\ ~\E h \in hosts : h.node = n
    /\ hosts' = hosts \cup
          {[node |-> n, name |-> "capitalised", ipv4 |-> FALSE, blocked |-> FALSE]}
    /\ \/ UNCHANGED client
       \/ client' = [client EXCEPT ![n].installed = TRUE, ![n].as = "capitalised"]
    /\ UNCHANGED <<config, run, know, faults, roles>>

Block(n) ==
    /\ Edit
    /\ \E h \in hosts :
          /\ h.node = n
          /\ hosts' = (hosts \ {h}) \cup {[h EXCEPT !.blocked = ~@]}
    /\ UNCHANGED <<config, run, know, faults, roles, client>>

-----------------------------------------------------------------------------
(* What the bundles need, and what they promise                            *)

\* Each role after those its rules let in, and the default role among them.
RolesInOrder(c) ==
    /\ DefaultRole \in RolesOf(c) \cup Existing
    /\ \A i \in DOMAIN c.roles :
          \/ c.roles[i].name \in Existing
          \/ c.roles[i].allows \in Existing \cup {"none"}
          \/ \E j \in 1..i - 1 : c.roles[j].name = c.roles[i].allows

AbleToMesh(c, nodes) ==
    OnNetwork(c) =>
        /\ c.network \in Networks
        /\ ~\E h \in hosts : h.node \in nodes /\ h.blocked

MeshTypeOK ==
    /\ hosts \subseteq [node : Node, name : {"as configured", "capitalised"},
                        ipv4 : BOOLEAN, blocked : BOOLEAN]
    /\ roles \in [RoleNames -> Nat]
    /\ client \in [Node -> [installed : BOOLEAN, ipv4 : BOOLEAN,
                            as : {"none", "as configured", "capitalised"}]]

(* No role is made twice, neither by the nodes of one run nor by a run     *)
(* that follows one cut short between making it and hearing of it          *)
(* (NebulaNetwork.ts: "two nodes never race to create the same role").     *)
RolesOnce == \A r \in RoleNames : roles[r] <= 1
=============================================================================
