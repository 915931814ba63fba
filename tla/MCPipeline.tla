----------------------------- MODULE MCPipeline -----------------------------
(***************************************************************************)
(* Runs of every shape the installer's commands ask for, over a server and *)
(* two agents.                                                             *)
(***************************************************************************)
EXTENDS Pipeline, TLC

CONSTANTS s1, a1, a2, preflight, k3s, cilium, labels, m1, m2, m3

MCNode == {s1, a1, a2}
MCBundle == {preflight, k3s, cilium, labels}
MCMachine == {m1, m2, m3}

Command(bundle, scope, runOn, purpose) ==
    [bundle |-> bundle, scope |-> scope, runOn |-> runOn, purpose |-> purpose]

Sudo       == Command(preflight, "each-node", "node", "require")
InstallK3s == Command(k3s, "each-server", "node", "apply")
JoinK3s    == Command(k3s, "each-agent", "node", "apply")
WaitReady  == Command(k3s, "cluster", "control-plane", "settle")
NodeIp     == Command(k3s, "each-node", "control-plane", "verify")
Install    == Command(cilium, "cluster", "control-plane", "apply")
Status     == Command(cilium, "cluster", "control-plane", "verify")
Apply      == Command(labels, "each-node", "control-plane", "apply")

Own == (s1 :> m1) @@ (a1 :> m2) @@ (a2 :> m3)

Base ==
    [nodes |-> <<s1, a1, a2>>, servers |-> {s1}, host |-> s1, machine |-> Own,
     commands |-> <<Sudo, InstallK3s, JoinK3s, NodeIp, Status>>,
     unplannable |-> {}, purposes |-> Purpose, gate |-> NoBundle,
     dryRun |-> FALSE, partial |-> FALSE, tolerant |-> FALSE,
     keepGoing |-> FALSE, verify |-> FALSE]

\* installer install: everything, everywhere, verified at the end
Everything ==
    [Base EXCEPT !.verify = TRUE,
                 !.commands = <<InstallK3s, JoinK3s, WaitReady, Install, Status>>]

Installs ==
    {Everything, [Everything EXCEPT !.keepGoing = TRUE,
                          !.commands = <<Sudo, JoinK3s, Install>>],
     [Everything EXCEPT !.dryRun = TRUE],
     [Everything EXCEPT !.unplannable = {cilium}],
     [Base EXCEPT !.machine = (s1 :> m1) @@ (a1 :> m2) @@ (a2 :> m2),
                  !.commands = <<Sudo, NodeIp>>]}

\* One bundle, on agents only: a server is borrowed when it needs one, and
\* there may be none to borrow
Agents == [Base EXCEPT !.nodes = <<a1, a2>>]

Bundles ==
    {[Agents EXCEPT !.commands = <<Apply, NodeIp>>],
     [Agents EXCEPT !.commands = <<Sudo, JoinK3s>>],
     [Agents EXCEPT !.commands = <<Apply, NodeIp>>, !.servers = {}, !.host = NoNode],
     [Agents EXCEPT !.commands = <<Install>>, !.servers = {}, !.host = NoNode]}

\* installer doctor: only questions, past whatever is down
Checkup ==
    [Base EXCEPT !.commands = <<Sudo, NodeIp, Status>>,
                 !.purposes = PromptPurposes, !.gate = preflight,
                 !.partial = TRUE, !.tolerant = TRUE, !.keepGoing = TRUE]

Checkups ==
    {Checkup, [Checkup EXCEPT !.unplannable = {cilium}],
     [Checkup EXCEPT !.nodes = <<a1>>],
     [Checkup EXCEPT !.machine = (s1 :> m1) @@ (a1 :> m2) @@ (a2 :> m2)]}

MCChanges == Installs \union Bundles
MCAll == MCChanges \union Checkups
=============================================================================
