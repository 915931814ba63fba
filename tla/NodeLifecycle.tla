---------------------------- MODULE NodeLifecycle ----------------------------
(***************************************************************************)
(* What becomes of one agent of the cluster as the installer adds it,      *)
(* uninstalls it and cleans it: the bundles of                             *)
(* installer/src/cli/commands/{K3s,AddNode,Drain,Uninstall,Clean}.ts, run  *)
(* as runners/{addNode,uninstall,clean,runPipeline}.ts put them together.  *)
(*                                                                         *)
(* A run may be cut short anywhere, in the middle of a command too, and    *)
(* somebody runs it, or another, again: the machine is then whatever was   *)
(* left of it.  Meanwhile the kubelet registers the node, the scheduler    *)
(* puts pods on it and its pods write to a volume under /var/lib/kubelet.  *)
(***************************************************************************)
EXTENDS Naturals, Sequences, SequencesExt

CONSTANTS
    KeepGoing,   \* what --keep-going may be, a subset of BOOLEAN
    MaxFaults    \* bound: how many times something goes wrong

ASSUME ConstantsAssumption == KeepGoing \subseteq BOOLEAN /\ MaxFaults \in Nat

VARIABLES
    k3s,       \* what of K3s is on the machine, and whether it runs
    kept,      \* the directories an uninstall keeps, and the credentials there
    work,      \* the pods bound to the node, their containers and their mount
    storage,   \* the volume group of ours, and what is stored in it
    object,    \* the cluster's Node object
    run,       \* the run of the installer under way
    out,       \* history: an uninstall succeeded and nothing was added since
    faults     \* how many things have gone wrong

vars == <<k3s, kept, work, storage, object, run, out, faults>>

NoK3s == [unit |-> FALSE, enabled |-> FALSE, binary |-> FALSE, killall |-> FALSE,
          active |-> FALSE, connected |-> FALSE]

NoWork == [bound |-> FALSE, containers |-> FALSE, mounted |-> FALSE]

-----------------------------------------------------------------------------
(* The bundles, and the pipelines made of them                             *)

K3s == <<"install-k3s-agent", "wait-for-k3s", "verify-k3s">>
Drain == <<"check-node-in-cluster", "cordon-node", "drain-node", "verify-node-drained">>
K3sUninstall == <<"check-k3s-present", "stop-k3s", "remove-k3s", "verify-k3s-removed">>
NodeRemoved == <<"remove-node", "verify-node-removed">>
Clean == <<"check-ready-to-clean", "remove-k3s-state", "verify-clean">>
StorageRemove == <<"read-volume-groups", "check-storage-approved",
                   "remove-volume-groups", "verify-volume-groups-removed">>

AddNodePipeline ==
    <<"check-cluster-online", "create-volume-groups">> \o K3s
        \o <<"check-cluster-access", "verify-node-ready">>

UninstallPipeline(skipDrain) ==
    <<"check-cluster-online">> \o (IF skipDrain THEN <<>> ELSE Drain)
        \o K3sUninstall \o NodeRemoved

CleanPipeline(full) == IF full THEN Clean \o StorageRemove ELSE Clean

\* What changes nothing and answers at once: all that a verification asks.
Prompt ==
    {"check-cluster-online", "verify-k3s", "check-cluster-access", "verify-node-ready",
     "check-node-in-cluster", "verify-node-drained", "check-k3s-present",
     "verify-k3s-removed", "verify-node-removed", "check-ready-to-clean",
     "verify-clean", "read-volume-groups", "check-storage-approved",
     "verify-volume-groups-removed"}

-----------------------------------------------------------------------------
(* A run: its steps in order, stopping at the first that fails             *)

\*   what       the command that was given: a runner's, or run-bundle
\*   steps      what is left of its steps
\*   draining, approved   the options --skip-drain (not), --full --yes
\*   inCluster, installed, owned   what its own Inspect steps found
\*   able       history: nothing stood in its way when it began
\*   faulted    history: something went wrong during it
Idle == [what |-> "nothing", steps |-> <<>>, verifying |-> FALSE, keepGoing |-> FALSE,
         draining |-> FALSE, approved |-> FALSE, inCluster |-> FALSE,
         installed |-> FALSE, owned |-> FALSE, failed |-> FALSE,
         able |-> FALSE, faulted |-> FALSE]

Init ==
    /\ k3s = NoK3s
    /\ kept = [dirs |-> FALSE, credentials |-> FALSE]
    /\ work = NoWork
    /\ storage = [group |-> FALSE, data |-> FALSE]
    /\ object = "absent"
    /\ run = Idle
    /\ out = FALSE
    /\ faults = 0

Fault == faults < MaxFaults /\ faults' = faults + 1

machine == <<k3s, kept, work, storage, object>>

Begin(what, steps, options) ==
    /\ run = Idle
    /\ run' = [Idle EXCEPT !.what = what, !.steps = steps,
                           !.keepGoing = options.keepGoing,
                           !.draining = options.draining,
                           !.approved = options.approved,
                           !.able = options.able]
    /\ UNCHANGED <<machine, faults>>

BeginAddNode ==
    /\ \E k \in KeepGoing :
          Begin("add-node", AddNodePipeline,
                [keepGoing |-> k, draining |-> FALSE, approved |-> FALSE, able |-> TRUE])
    /\ out' = FALSE

(* Pods bound to a node whose K3s doesn't run are never seen to go, so     *)
(* only --skip-drain gets past them.                                       *)
BeginUninstall(skipDrain) ==
    /\ \E k \in KeepGoing :
          Begin("uninstall", UninstallPipeline(skipDrain),
                [keepGoing |-> k, draining |-> ~skipDrain, approved |-> FALSE,
                 able |-> skipDrain \/ ~work.bound \/ k3s.active])
    /\ UNCHANGED out

BeginClean(full, yes) ==
    /\ \E k \in KeepGoing :
          Begin("clean", CleanPipeline(full),
                [keepGoing |-> k, draining |-> FALSE, approved |-> full /\ yes,
                 able |-> out /\ (full => yes)])
    /\ UNCHANGED out

\* run-bundle, which approves nothing and verifies nothing.
BeginBundle ==
    /\ \E k \in KeepGoing, bundle \in {Drain, K3sUninstall, NodeRemoved, StorageRemove} :
          Begin("run-bundle", bundle,
                [keepGoing |-> k, draining |-> FALSE, approved |-> FALSE, able |-> FALSE])
    /\ UNCHANGED out

At(step) == run.steps # <<>> /\ Head(run.steps) = step

\* The run after a step that did its work, with what it found.
Onward(found) == run' = [found EXCEPT !.steps = Tail(@)]

Passes == Onward(run)

\* The run after a step that failed: over, unless it was told to keep going.
FailsWith(wrong) ==
    run' = [run EXCEPT !.failed = TRUE, !.faulted = @ \/ wrong,
                       !.steps = IF run.keepGoing THEN Tail(@) ELSE <<>>]

\* A step that has nothing to do: skipWhen.
NothingToDo(step) ==
    \/ step \in {"cordon-node", "drain-node", "verify-node-drained"} /\ ~run.inCluster
    \/ step \in {"stop-k3s", "remove-k3s"} /\ ~run.installed
    \/ step = "remove-volume-groups" /\ ~(run.owned /\ run.approved)

PassOver ==
    /\ run.steps # <<>>
    /\ \/ NothingToDo(Head(run.steps))
       \/ run.verifying /\ Head(run.steps) \notin Prompt
    /\ Passes
    /\ UNCHANGED <<machine, out, faults>>

Doing(step) ==
    /\ At(step)
    /\ ~NothingToDo(step)
    /\ run.verifying => step \in Prompt

\* Its connection is lost, or the API server doesn't answer, before it did anything.
StepBreaks ==
    /\ run.steps # <<>>
    /\ Fault
    /\ FailsWith(TRUE)
    /\ UNCHANGED <<machine, out>>

\* A step that only looks, and passes if what it looks for is so.
Checks(step, isSo) ==
    /\ Doing(step)
    /\ IF isSo THEN Passes ELSE FailsWith(FALSE)
    /\ UNCHANGED <<machine, out, faults>>

\* One that waits for it first.  With no K3s running there is nothing to
\* wait for, and it gives up; giving up early counts as going wrong.
WaitsFor(step, isSo) ==
    /\ Doing(step)
    /\ \/ isSo /\ Passes
       \/ ~isSo /\ ~k3s.active /\ FailsWith(FALSE)
    /\ UNCHANGED <<machine, out, faults>>

\* A command that takes steps of its own on the machine, and may be cut
\* short after any of them.
Changes(step, states) ==
    /\ Doing(step)
    /\ \/ Passes /\ k3s' = Last(states) /\ UNCHANGED faults
       \/ \E i \in 1..Len(states) - 1 : k3s' = states[i] /\ Fault /\ FailsWith(TRUE)

-----------------------------------------------------------------------------
(* Adding a node                                                           *)

CheckClusterOnline == Checks("check-cluster-online", TRUE)

CreateVolumeGroups ==
    /\ Doing("create-volume-groups")
    /\ storage' = [storage EXCEPT !.group = TRUE]
    /\ Passes
    /\ UNCHANGED <<k3s, kept, work, object, out, faults>>

\* The install script: the binary, the scripts, the unit, then systemd.
InstallK3sAgent ==
    LET binary  == [k3s EXCEPT !.binary = TRUE]
        scripts == [binary EXCEPT !.killall = TRUE]
        unit    == [scripts EXCEPT !.unit = TRUE]
        enabled == [unit EXCEPT !.enabled = TRUE]
        started == [enabled EXCEPT !.active = TRUE, !.connected = FALSE]
    IN  /\ Changes("install-k3s-agent", <<binary, scripts, unit, enabled, started>>)
        /\ kept' = [kept EXCEPT !.dirs = TRUE]
        /\ UNCHANGED <<work, storage, object, out>>

WaitForK3s == WaitsFor("wait-for-k3s", k3s.active)

\* An agent has no way to ask the cluster: its credentials are looked for.
VerifyK3s == WaitsFor("verify-k3s", kept.credentials /\ k3s.active)

CheckClusterAccess == WaitsFor("check-cluster-access", object # "absent")

VerifyNodeReady == WaitsFor("verify-node-ready", object # "absent" /\ k3s.connected)

-----------------------------------------------------------------------------
(* Draining it                                                             *)

\* An API server that doesn't answer reads as a node it doesn't have.
CheckNodeInCluster ==
    /\ Doing("check-node-in-cluster")
    /\ \/ Onward([run EXCEPT !.inCluster = (object # "absent")]) /\ UNCHANGED faults
       \/ Fault /\ Onward([run EXCEPT !.inCluster = FALSE, !.faulted = TRUE])
    /\ UNCHANGED <<machine, out>>

CordonNode ==
    /\ Doing("cordon-node")
    /\ IF object = "absent" THEN FailsWith(FALSE) /\ UNCHANGED object
       ELSE object' = "cordoned" /\ Passes
    /\ UNCHANGED <<k3s, kept, work, storage, out, faults>>

\* Fault: a drain returns before its pods are gone, and counts for one.
DrainNodeAtOnce ==
    /\ Doing("drain-node")
    /\ object' = "cordoned"
    /\ Passes
    /\ UNCHANGED <<k3s, kept, work, storage, out, faults>>

(* Evicted pods go once the kubelet has stopped them, and those of a       *)
(* kubelet that is gone don't.                                             *)
DrainNode ==
    /\ Doing("drain-node")
    /\ object' = "cordoned"
    /\ \/ /\ ~work.bound \/ k3s.active
          /\ work' = NoWork
          /\ Passes
          /\ UNCHANGED faults
       \/ /\ work.bound /\ ~k3s.active
          /\ FailsWith(FALSE)
          /\ UNCHANGED <<work, faults>>
    /\ UNCHANGED <<k3s, kept, storage, out>>

\* And one that doesn't answer, as one that has no pods there.
VerifyNodeDrained ==
    \/ Checks("verify-node-drained", ~work.bound)
    \/ /\ Doing("verify-node-drained")
       /\ Fault
       /\ Onward([run EXCEPT !.faulted = TRUE])
       /\ UNCHANGED <<machine, out>>

-----------------------------------------------------------------------------
(* Taking K3s off it                                                       *)

\* Fault: a machine with no unit has no K3s.
UnitPresent == k3s.unit

Present == k3s.unit \/ k3s.binary

CheckK3sPresent ==
    /\ Doing("check-k3s-present")
    /\ Onward([run EXCEPT !.installed = Present])
    /\ UNCHANGED <<machine, out, faults>>

\* The killall script takes the containers and the mounts with it; without
\* it there is only the service to stop.
Killed ==
    IF k3s.killall THEN [work EXCEPT !.containers = FALSE, !.mounted = FALSE] ELSE work

StopK3s ==
    LET stopped  == [k3s EXCEPT !.active = FALSE, !.connected = FALSE]
        disabled == [stopped EXCEPT !.enabled = FALSE]
    IN  /\ Changes("stop-k3s", <<stopped, disabled>>)
        /\ work' = Killed
        /\ UNCHANGED <<kept, storage, object, out>>

RemoveK3s ==
    LET unit    == [k3s EXCEPT !.unit = FALSE]
        scripts == [unit EXCEPT !.killall = FALSE]
        binary  == [scripts EXCEPT !.binary = FALSE]
    IN  /\ Changes("remove-k3s", <<unit, scripts, binary>>)
        /\ UNCHANGED <<kept, work, storage, object, out>>

VerifyK3sRemoved == Checks("verify-k3s-removed", ~k3s.unit /\ ~k3s.binary /\ ~k3s.active)

\* Pods bound to a node that is gone are collected.
RemoveNode ==
    /\ Doing("remove-node")
    /\ object' = "absent"
    /\ work' = [work EXCEPT !.bound = FALSE]
    /\ k3s' = [k3s EXCEPT !.connected = FALSE]
    /\ Passes
    /\ UNCHANGED <<kept, storage, out, faults>>

VerifyNodeRemoved ==
    \/ Checks("verify-node-removed", object = "absent")
    \/ /\ Doing("verify-node-removed")
       /\ Fault
       /\ Onward([run EXCEPT !.faulted = TRUE])
       /\ UNCHANGED <<machine, out>>

-----------------------------------------------------------------------------
(* Cleaning it                                                             *)

ReadyToClean == ~k3s.active /\ ~work.mounted

CheckReadyToClean == Checks("check-ready-to-clean", ReadyToClean)

\* rm -rf goes through a mount to what is in the volume.
RemoveK3sState ==
    /\ Doing("remove-k3s-state")
    /\ \/ /\ kept' = [dirs |-> FALSE, credentials |-> FALSE]
          /\ k3s' = [k3s EXCEPT !.unit = FALSE]
          /\ Passes
          /\ UNCHANGED faults
       \/ /\ Fault
          /\ kept' = [kept EXCEPT !.credentials = FALSE]
          /\ FailsWith(TRUE)
          /\ UNCHANGED k3s
    /\ storage' = [storage EXCEPT !.data = @ /\ ~work.mounted]
    /\ UNCHANGED <<work, object, out>>

VerifyClean == Checks("verify-clean", ~kept.dirs)

ReadVolumeGroups ==
    /\ Doing("read-volume-groups")
    /\ Onward([run EXCEPT !.owned = storage.group])
    /\ UNCHANGED <<machine, out, faults>>

CheckStorageApproved == Checks("check-storage-approved", run.owned => run.approved)

\* LVM doesn't remove a group with a volume in use.
RemoveVolumeGroups ==
    /\ Doing("remove-volume-groups")
    /\ IF work.mounted THEN FailsWith(FALSE) /\ UNCHANGED storage
       ELSE storage' = [group |-> FALSE, data |-> FALSE] /\ Passes
    /\ UNCHANGED <<k3s, kept, work, object, out, faults>>

VerifyVolumeGroupsRemoved == Checks("verify-volume-groups-removed", ~storage.group)

-----------------------------------------------------------------------------
(* How a run ends                                                          *)

Verified == run.what \in {"add-node", "uninstall", "clean"}

\* Fault: a verification that is over is followed by another.
StartVerifyingAgain(steps) ==
    /\ run # Idle /\ run.steps = <<>>
    /\ Verified /\ ~run.failed
    /\ run' = [run EXCEPT !.verifying = TRUE, !.keepGoing = TRUE, !.steps = steps,
                          !.inCluster = FALSE, !.installed = FALSE, !.owned = FALSE]
    /\ UNCHANGED <<machine, out, faults>>

\* Its own checks are asked again, all of them whatever they say, with
\* nothing remembered of what it found.
StartVerifying(steps) ==
    /\ run # Idle /\ run.steps = <<>>
    /\ Verified /\ ~run.failed /\ ~run.verifying
    /\ run' = [run EXCEPT !.verifying = TRUE, !.keepGoing = TRUE, !.steps = steps,
                          !.inCluster = FALSE, !.installed = FALSE, !.owned = FALSE]
    /\ UNCHANGED <<machine, out, faults>>

Verify ==
    \/ run.what = "add-node" /\ StartVerifying(AddNodePipeline)
    \/ run.what = "uninstall" /\ StartVerifying(UninstallPipeline(~run.draining))
    \/ run.what = "clean" /\ StartVerifying(CleanPipeline(run.approved))

Ends ==
    /\ run # Idle /\ run.steps = <<>>
    /\ run.failed \/ run.verifying \/ ~Verified
    /\ run' = Idle
    /\ out' = (out \/ (run.what = "uninstall" /\ ~run.failed))
    /\ UNCHANGED <<machine, faults>>

-----------------------------------------------------------------------------
(* The cluster and the machine                                             *)

\* The agent reaches a server, and its kubelet registers.
Joins ==
    /\ k3s.active /\ ~k3s.connected
    /\ k3s' = [k3s EXCEPT !.connected = TRUE]
    /\ kept' = [dirs |-> TRUE, credentials |-> TRUE]
    /\ object' = IF object = "absent" THEN "schedulable" ELSE object
    /\ UNCHANGED <<work, storage, run, out, faults>>

Schedule ==
    /\ object = "schedulable" /\ k3s.connected
    /\ ~work.bound
    /\ work' = [work EXCEPT !.bound = TRUE]
    /\ UNCHANGED <<k3s, kept, storage, object, run, out, faults>>

StartPods ==
    /\ work.bound /\ k3s.connected /\ storage.group
    /\ ~work.containers
    /\ work' = [work EXCEPT !.containers = TRUE, !.mounted = TRUE]
    /\ storage' = [storage EXCEPT !.data = TRUE]
    /\ UNCHANGED <<k3s, kept, object, run, out, faults>>

\* Somebody stops the service: what K3s started is left running.
StopByHand ==
    /\ run = Idle
    /\ k3s.active
    /\ k3s' = [k3s EXCEPT !.active = FALSE, !.connected = FALSE]
    /\ UNCHANGED <<kept, work, storage, object, run, out, faults>>

\* The kubelet stops what isn't bound to its node any more.
StopPods ==
    /\ ~work.bound /\ k3s.connected
    /\ work.containers
    /\ work' = NoWork
    /\ UNCHANGED <<k3s, kept, storage, object, run, out, faults>>

\* The machine restarts, and with it a K3s that is enabled.  A run that was
\* at work on it loses its connection.
Reboot ==
    /\ Fault
    /\ k3s' = [k3s EXCEPT !.active = k3s.unit /\ k3s.enabled /\ k3s.binary,
                          !.connected = FALSE]
    /\ work' = [work EXCEPT !.containers = FALSE, !.mounted = FALSE]
    /\ run' = IF run = Idle THEN Idle
              ELSE [run EXCEPT !.failed = TRUE, !.faulted = TRUE, !.steps = <<>>]
    /\ UNCHANGED <<kept, storage, object, out>>

\* The installer is stopped in the middle of a run.
Abandon ==
    /\ run # Idle
    /\ Fault
    /\ run' = Idle
    /\ UNCHANGED <<machine, out>>

-----------------------------------------------------------------------------
AddNodeStep ==
    \/ CreateVolumeGroups \/ InstallK3sAgent \/ WaitForK3s \/ VerifyK3s
    \/ CheckClusterAccess \/ VerifyNodeReady

UninstallStep ==
    \/ CheckNodeInCluster \/ CordonNode \/ DrainNode \/ VerifyNodeDrained
    \/ CheckK3sPresent \/ StopK3s \/ RemoveK3s \/ VerifyK3sRemoved
    \/ RemoveNode \/ VerifyNodeRemoved

CleanStep ==
    \/ CheckReadyToClean \/ RemoveK3sState \/ VerifyClean
    \/ ReadVolumeGroups \/ CheckStorageApproved \/ RemoveVolumeGroups
    \/ VerifyVolumeGroupsRemoved

Run ==
    \/ PassOver \/ CheckClusterOnline
    \/ AddNodeStep \/ UninstallStep \/ CleanStep
    \/ Verify \/ Ends

Operator ==
    \/ BeginAddNode
    \/ \E skipDrain \in BOOLEAN : BeginUninstall(skipDrain)
    \/ \E full, yes \in BOOLEAN : (yes => full) /\ BeginClean(full, yes)
    \/ BeginBundle
    \/ StopByHand

Next ==
    \/ Run \/ StepBreaks \/ Abandon
    \/ Operator
    \/ Joins \/ Schedule \/ StartPods \/ StopPods \/ Reboot

Spec == Init /\ [][Next]_vars

(* A run gets on with its steps, and the agent it started keeps trying to  *)
(* join.  Nobody has to run anything.                                      *)
FairSpec == Spec /\ WF_vars(Run) /\ WF_vars(Joins)

-----------------------------------------------------------------------------
TypeOK ==
    /\ k3s \in [unit : BOOLEAN, enabled : BOOLEAN, binary : BOOLEAN, killall : BOOLEAN,
                active : BOOLEAN, connected : BOOLEAN]
    /\ kept \in [dirs : BOOLEAN, credentials : BOOLEAN]
    /\ work \in [bound : BOOLEAN, containers : BOOLEAN, mounted : BOOLEAN]
    /\ storage \in [group : BOOLEAN, data : BOOLEAN]
    /\ storage.data => storage.group
    /\ object \in {"absent", "schedulable", "cordoned"}
    /\ DOMAIN run = DOMAIN Idle
    /\ run.what \in {"nothing", "add-node", "uninstall", "clean", "run-bundle"}
    /\ out \in BOOLEAN
    /\ faults \in 0..MaxFaults

(* What the applications stored is lost to nothing but removing the volume *)
(* groups, in a run that was told to: not to a clean that goes through a   *)
(* mount, however the runs before it were left (the head of                *)
(* runners/clean.ts).                                                      *)
DataKept ==
    [][storage.data /\ ~storage'.data =>
          run.approved /\ At("remove-volume-groups")]_vars

(* An uninstall that found the node in the cluster and wasn't told to skip *)
(* the drain stops K3s only once nothing runs there, and nothing has come  *)
(* back since the drain (the head of commands/Drain.ts).                   *)
MovedNotDropped ==
    [][Doing("stop-k3s") /\ StopK3s /\ run.draining /\ run.inCluster => ~work.containers]_vars

(* Once an uninstall has succeeded the node stays out: it doesn't register *)
(* again, K3s doesn't come back with a reboot, and nothing of it is left   *)
(* running or mounted, so that it can be cleaned.                          *)
StaysOut ==
    out => /\ object = "absent" /\ ~k3s.active
           /\ ~work.containers /\ ~work.mounted

(* However the runs before it were left, a run in which nothing goes wrong *)
(* succeeds: an add-node always, an uninstall unless it would have to      *)
(* drain a node that is down, a clean once the node was uninstalled.       *)
RerunSucceeds == run.able /\ ~run.faulted => ~run.failed

(* Every run comes to an end, whatever it waits for and however it was    *)
(* interrupted.                                                            *)
RunEnds == [](run # Idle => <>(run = Idle))

(* The two that follow don't hold, and no run checks them: see the README. *)
(*                                                                         *)
(* An uninstall that drains stops no container.  A node that is only just  *)
(* joining reads as one the cluster doesn't have, and isn't drained.       *)
NothingDropped ==
    [][Doing("stop-k3s") /\ StopK3s /\ run.draining => ~work.containers]_vars

(* A node that was added takes work.  One that an uninstall cordoned and   *)
(* gave up on is Ready, and stays cordoned.                                *)
AddedTakesWork ==
    [][run.what = "add-node" /\ run.verifying /\ run' = Idle /\ ~run.failed /\ ~run.faulted
          => object = "schedulable"]_vars

(* A node that was taken out stays out with nothing of it running or       *)
(* mounted, and what earlier runs left, cut short anywhere, stands in no   *)
(* later run's way.                                                        *)
LifecycleInv ==
    /\ TypeOK
    /\ StaysOut
    /\ RerunSucceeds

(* Neither data nor pods are lost to the removal of a node: its volume     *)
(* groups go only when that was asked for, and its K3s stops only when     *)
(* nothing runs there.                                                     *)
NothingLost ==
    /\ DataKept
    /\ MovedNotDropped
=============================================================================
