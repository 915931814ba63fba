----------------------------- MODULE InstallRun -----------------------------
(***************************************************************************)
(* A run of the installer over the nodes of a cluster, as the modules of   *)
(* its bundles see it: which step is under way and on which nodes, what    *)
(* the run has learned, and how it comes to its end.                       *)
(*                                                                         *)
(* pipeline/{plan,run,execute}.ts.  Pipeline.tla models that engine in     *)
(* detail; here every step is taken on all its nodes before the next, the  *)
(* first that fails ends the run once the other nodes are through it, and  *)
(* a run that got to its end is verified by asking its checks again.       *)
(***************************************************************************)
EXTENDS Naturals, Sequences

CONSTANTS
    Node,        \* the machines there are
    Server,      \* the one the control plane is on
    Configs,     \* the configurations there may be
    MaxEdits,    \* bound: how many times somebody changes something
    MaxFaults    \* bound: how many times something goes wrong

ASSUME ConstantsAssumption ==
    /\ Server \in Node
    /\ \A c \in Configs : Server \in c.nodes /\ c.nodes \subseteq Node
    /\ MaxEdits \in Nat /\ MaxFaults \in Nat

(*  A configuration, in what the bundles tell apart:                       *)
(*    nodes       its nodes                                                *)
(*    network     the Nebula network it names, or "none"                   *)
(*    roles       the Nebula roles it lists: [name, allows], allows being  *)
(*                a role one of its rules lets in, or "none"               *)
(*    pinned      the nodes given a "nodeIp", a local one                  *)
(*    registries  which registries it lists; 0 for none                    *)
(*    clients     which applications sign in; 0 for none                   *)
(*    gateways    the nodes marked as gateways                             *)
(*    mode        how an address outside reaches them                      *)
(*  A role listed twice would be made at the first of its steps and passed *)
(*  over at the second.                                                    *)
ASSUME ConfigsAssumption ==
    \A c \in Configs :
        /\ c.roles \in Seq([name : STRING, allows : STRING])
        /\ \A i, j \in DOMAIN c.roles : c.roles[i].name = c.roles[j].name => i = j
        /\ c.registries \in Nat /\ c.clients \in Nat
        /\ c.gateways \subseteq c.nodes

VARIABLES
    config,      \* what the configuration file says
    run,         \* the run under way
    know,        \* what it has learned of each node
    edits,       \* how many times somebody changed something
    faults       \* how many times something went wrong

runVars == <<config, run, know, edits, faults>>

\*   what    the command that was given      conf    the configuration it read
\*   nodes   its target                      steps   what is left of its steps
\*   todo    the nodes yet to do the first of them
\*   able    history: nothing stood in its way when it began
\*   faulted history: something went wrong during it
Idle(c) == [what |-> "nothing", conf |-> c, nodes |-> {}, steps |-> <<>>, todo |-> {},
            failed |-> FALSE, verifying |-> FALSE, able |-> FALSE, faulted |-> FALSE]

Nothing == [enrolled |-> FALSE, host |-> "none", ipv4 |-> FALSE, code |-> FALSE,
            added |-> FALSE, roles |-> {}, active |-> FALSE, nodeIp |-> "none",
            stale |-> FALSE, driver |-> FALSE]

NothingKnown == [n \in Node |-> Nothing]

RunInit ==
    /\ config \in Configs
    /\ run = Idle(config)
    /\ know = NothingKnown
    /\ edits = 0
    /\ faults = 0

Resting == run.what = "nothing"

-----------------------------------------------------------------------------
(* Which nodes a step is for, and which steps there are                    *)

OnServers == {"write-authentication-config", "verify-authentication-config",
              "install-k3s-server"}

OnAgents == {"install-k3s-agent"}

\* What changes nothing and answers at once: all that a verification asks.
Prompt ==
    {"find-network-once", "list-roles-once", "verify-nebula-roles",
     "check-nebula-enrollment", "find-nebula-network", "list-nebula-roles",
     "find-nebula-host", "verify-nebula-host", "check-k3s-service",
     "verify-registry-access", "find-node-ip", "verify-authentication-config",
     "verify-k3s", "verify-node-ip", "check-cluster-access", "verify-node-labels",
     "verify-cilium", "check-gateway-interfaces", "check-gateway-support",
     "verify-gateway", "verify-cluster-gateway", "check-k3s-nvidia-runtime",
     "check-nvidia-driver", "verify-nvidia-runtime", "verify-cluster-config",
     "check-cluster-online", "verify-node-ready"}

\* What changes something, or waits for something to change.
Applied ==
    {"create-nebula-host", "create-nebula-enrollment-code", "add-nebula-ipv4-address",
     "install-dnclient", "enroll-nebula-host", "refresh-nebula-config",
     "write-registries-config", "restart-k3s", "write-authentication-config",
     "install-k3s-server", "install-k3s-agent", "wait-for-k3s", "apply-node-labels",
     "install-gateway-api", "install-cilium", "wait-for-cilium", "label-gateway-nodes",
     "apply-lb-ip-pool", "apply-l2-announcement", "apply-cluster-gateway",
     "install-nvidia-container-toolkit", "restart-k3s-for-nvidia", "label-nvidia-driver",
     "write-cluster-config"}

RolesOf(c) == {c.roles[i].name : i \in DOMAIN c.roles}

\* The step that makes a role goes by the name of the role.
ASSUME NamesAssumption == \A c \in Configs : RolesOf(c) \cap (Prompt \cup Applied) = {}

\* Once for the cluster, from its server, whichever nodes the run is for.
OnceFor(c) ==
    RolesOf(c) \cup
        {"find-network-once", "list-roles-once", "verify-nebula-roles",
         "install-gateway-api", "install-cilium", "wait-for-cilium", "verify-cilium",
         "check-gateway-support", "label-gateway-nodes", "apply-lb-ip-pool",
         "apply-l2-announcement", "verify-gateway", "apply-cluster-gateway",
         "verify-cluster-gateway", "write-cluster-config", "verify-cluster-config",
         "check-cluster-online"}

ScopeOf(c, nodes, step) ==
    CASE step \in OnceFor(c) -> {Server}
      [] step \in OnServers  -> nodes \cap {Server}
      [] step \in OnAgents   -> nodes \ {Server}
      [] OTHER               -> nodes

\* A step there is a node for; a verification only asks its checks.
Due(r, step) ==
    /\ ScopeOf(r.conf, r.nodes, step) # {}
    /\ r.verifying => step \in Prompt

StartingOn(r, steps) ==
    LET due == {i \in DOMAIN steps : Due(r, steps[i])}
    IN  IF due = {} THEN [r EXCEPT !.steps = <<>>, !.todo = {}]
        ELSE LET first == CHOOSE i \in due : \A j \in due : i <= j
             IN  [r EXCEPT !.steps = SubSeq(steps, first, Len(steps)),
                           !.todo = ScopeOf(r.conf, r.nodes, steps[first])]

Begin(what, nodes, pipeline, able) ==
    /\ Resting
    /\ run' = StartingOn([Idle(config) EXCEPT !.what = what, !.nodes = nodes, !.able = able],
                         pipeline)
    /\ know' = NothingKnown
    /\ UNCHANGED <<config, edits, faults>>

-----------------------------------------------------------------------------
(* A step, on a node                                                       *)

At(step, n) == run.steps # <<>> /\ Head(run.steps) = step /\ n \in run.todo

\* The run once node n is through the step.  A verification asks all of its
\* checks; any other run takes no step after one that failed.
After(n, ok, wrong) ==
    LET r == [run EXCEPT !.failed = @ \/ ~ok, !.faulted = @ \/ wrong]
        left == r.todo \ {n}
    IN  IF left # {} THEN [r EXCEPT !.todo = left]
        ELSE StartingOn(r, IF r.failed /\ ~r.verifying THEN <<>> ELSE Tail(r.steps))

Fault == faults < MaxFaults /\ faults' = faults + 1

Passes(n) == run' = After(n, TRUE, FALSE) /\ UNCHANGED faults

Fails(n) == run' = After(n, FALSE, FALSE) /\ UNCHANGED faults

\* It did its work, and the answer never came back.
LosesAnswer(n) == Fault /\ run' = After(n, FALSE, TRUE)

\* A step that changes something; what it answers is learned.
Does(n, learned) ==
    /\ \/ Passes(n) /\ know' = [know EXCEPT ![n] = learned]
       \/ LosesAnswer(n) /\ UNCHANGED know
    /\ UNCHANGED <<config, edits>>

\* A step that only looks, and passes if what it looks for is so.
Looks(n, isSo, learned) ==
    /\ IF isSo THEN Passes(n) /\ know' = [know EXCEPT ![n] = learned]
               ELSE Fails(n) /\ UNCHANGED know
    /\ UNCHANGED <<config, edits>>

\* One that waits for it first, and gives up if it can't come to be so.
WaitsFor(n, isSo, mayCome) ==
    /\ \/ isSo /\ Passes(n)
       \/ ~isSo /\ (run.verifying \/ ~mayCome) /\ Fails(n)
    /\ UNCHANGED <<config, know, edits>>

\* Its connection is lost, or what it asks doesn't answer, before it did
\* anything; or what it waits for takes too long.
StepBreaks ==
    /\ \E n \in run.todo : LosesAnswer(n)
    /\ UNCHANGED <<config, know, edits>>

-----------------------------------------------------------------------------
(* How a run ends                                                          *)

\* run-bundle, of one of these, verifies nothing.
Unverified == {"k3s", "cluster-sign-in"}

Done == run.steps = <<>> /\ ~run.failed

\* It got to its end, and what it was to bring about was found so.
Succeeded == run.what \in {"install", "add-node"} /\ Done /\ run.verifying

\* The same checks again, with nothing remembered.
StartVerifying(pipeline) ==
    /\ Done /\ ~run.verifying
    /\ run' = StartingOn([run EXCEPT !.verifying = TRUE], pipeline)
    /\ know' = NothingKnown
    /\ UNCHANGED <<config, edits, faults>>

Ends ==
    /\ ~Resting /\ run.steps = <<>>
    /\ run.failed \/ run.verifying \/ run.what \in Unverified
    /\ run' = Idle(config)
    /\ know' = NothingKnown
    /\ UNCHANGED <<config, edits, faults>>

\* Somebody stops it, or the machine it runs on does.
Abandon ==
    /\ ~Resting /\ run.steps # <<>> /\ ~run.verifying
    /\ Fault
    /\ run' = Idle(config)
    /\ know' = NothingKnown
    /\ UNCHANGED <<config, edits>>

\* Between runs, somebody changes something.
Edit == Resting /\ edits < MaxEdits /\ edits' = edits + 1

Reconfigure ==
    /\ Edit
    /\ \E c \in Configs \ {config} : config' = c /\ run' = Idle(c)
    /\ UNCHANGED <<know, faults>>

RunTypeOK ==
    /\ config \in Configs
    /\ run.conf \in Configs
    /\ run.what \in {"nothing", "install", "add-node"} \cup Unverified
    /\ run.nodes \subseteq Node
    /\ run.todo \subseteq Node
    /\ run.todo = {} <=> run.steps = <<>>
    /\ {run.failed, run.verifying, run.able, run.faulted} \subseteq BOOLEAN
    /\ DOMAIN know = Node
    /\ edits \in 0..MaxEdits
    /\ faults \in 0..MaxFaults
=============================================================================
