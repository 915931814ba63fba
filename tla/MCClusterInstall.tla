-------------------------- MODULE MCClusterInstall --------------------------
(***************************************************************************)
(* A server and an agent, and configurations that differ in what the       *)
(* bundles tell apart.                                                     *)
(***************************************************************************)
EXTENDS ClusterInstall

CONSTANTS s, a

Roles == <<[name |-> "access", allows |-> "none"], [name |-> "gateways", allows |-> "access"]>>

Local == [nodes |-> {s, a}, network |-> "none", roles |-> <<>>, pinned |-> {},
          registries |-> 1, clients |-> 0, gateways |-> {s}, mode |-> "floating"]

OnMesh == [Local EXCEPT !.network = "net", !.roles = Roles, !.registries = 2,
                        !.gateways = {a}, !.mode = "port-forward"]

SignedIn == [OnMesh EXCEPT !.clients = 1, !.pinned = {s}]

Wrong == [OnMesh EXCEPT !.nodes = {s}, !.roles = <<Roles[2], Roles[1]>>, !.clients = 2,
                        !.registries = 3, !.gateways = {s}, !.mode = "floating"]

MCConfigs == {Local, OnMesh, SignedIn, Wrong}
MCNetworks == {"net"}
MCNode == {s, a}
MCAgent == {a}
MCServer == {s}
MCHalf == {3}
=============================================================================
