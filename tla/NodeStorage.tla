----------------------------- MODULE NodeStorage -----------------------------
(***************************************************************************)
(* The disks of the nodes, and which lvmd is told to serve what from them. *)
(*                                                                         *)
(* commands/LVM.ts finds the disks nobody uses and puts them in the volume *)
(* groups TopoLVM's device classes name; commands/NodeLabels.ts writes     *)
(* what a node serves, its shape, in a label; commands/Helm.ts reads the   *)
(* labels and util/template.ts renders one lvmd configuration for each     *)
(* shape (util/storage.ts).  lvmd doesn't start on a node that lacks one   *)
(* group of those it is told about.                                        *)
(*                                                                         *)
(* Somebody fits disks, pulls them, uses them and makes groups of their    *)
(* own meanwhile, a run is cut short in the middle of a command, and the   *)
(* API server doesn't answer.                                              *)
(***************************************************************************)
EXTENDS Naturals, Sequences, FiniteSets

CONSTANTS
    Nodes,        \* the nodes with the storage-local role
    Disks,        \* the places for a disk in each of them
    Classes,      \* the device classes of the TopoLVM values
    Fitted,       \* what is in each place at first
    Hardware,     \* the class each place's hardware suggests
    Whats,        \* bound: what people run, a subset of the DOMAIN of Pipelines
    MaxChanges,   \* bound: how many times somebody does something to a disk
    MaxFaults     \* bound: how many times something goes wrong

NoGroup == "no group"
Theirs == "theirs"

VARIABLES
    disk,      \* what each disk holds, and as LVM has it, its group and its tag
    tagged,    \* the groups of each node that carry the installer's tags
    class,     \* the class each disk is configured to be in
    label,     \* the shape in each node's label, {} when it has none
    lvmd,      \* the configurations rendered last: a shape and its nodes each
    run,       \* the run under way
    changes,   \* how many changes people made
    faults     \* how many things went wrong

vars == <<disk, tagged, class, label, lvmd, run, changes, faults>>

Empty(holds) == [holds |-> holds, group |-> NoGroup, tagged |-> FALSE]

InGroup(group) == [holds |-> "volume", group |-> group, tagged |-> FALSE]

Bare == InGroup(NoGroup)

ASSUME ConstantsAssumption ==
    /\ IsFiniteSet(Nodes) /\ IsFiniteSet(Disks) /\ IsFiniteSet(Classes)
    /\ {NoGroup, Theirs} \cap Classes = {}
    /\ Fitted \in [Nodes -> [Disks -> {"absent", "files", "blank"}]]
    /\ Hardware \in [Nodes -> [Disks -> Classes]]
    /\ MaxChanges \in Nat /\ MaxFaults \in Nat

-----------------------------------------------------------------------------
(* What is where                                                           *)

In(n, c) == {d \in Disks : disk[n][d].group = c}

\* The groups TopoLVM looks for that a node has.
Groups(n) == {c \in Classes : In(n, c) # {}}

\* A configuration selects the nodes whose label is its shape, or everyone.
Selects(config, n) == config.everyone \/ label[n] = config.shape

Selecting(n) == {config \in lvmd : Selects(config, n)}

\* lvmd's own check: every group it is told about.
Starts(n) == \A config \in Selecting(n) : config.serves \subseteq Groups(n)

-----------------------------------------------------------------------------
(* A run: its steps over its nodes, a step on every node before the next   *)

Lvm == <<"find-disks", "tag-volume-groups", "create-physical-volumes",
         "create-volume-groups", "verify-volume-groups">>
Labels == <<"apply-node-labels", "verify-node-labels">>
Charts == <<"read-storage-shapes", "helm-install-topolvm">>
Remove == <<"remove-volume-groups">>

Pipelines ==
    [install     |-> Lvm \o Labels \o Charts,
     addNode     |-> Lvm \o Labels,
     lvm         |-> Lvm,
     nodeLabels  |-> <<"find-disks">> \o Labels,
     helmCharts  |-> Charts,
     cleanFull   |-> Remove]

ASSUME WhatsAssumption == Whats \subseteq DOMAIN Pipelines

\* What find-disks remembers of a node.
NothingFound == [free |-> {}, serving |-> {}, untagged |-> {}]

\*   left       the nodes that haven't done the step at the head
\*   found      what find-disks saved, for each node
\*   shapes     what read-storage-shapes saved
\*   disturbed  history: something changed or went wrong while it ran
Idle == [what |-> "nothing", nodes |-> {}, left |-> {}, steps |-> <<>>,
         found |-> [n \in Nodes |-> NothingFound], shapes |-> {},
         failed |-> FALSE, disturbed |-> FALSE]

Init ==
    /\ disk = [n \in Nodes |-> [d \in Disks |-> Empty(Fitted[n][d])]]
    /\ tagged = [n \in Nodes |-> {}]
    /\ class = Hardware
    /\ label = [n \in Nodes |-> {}]
    /\ lvmd = {}
    /\ run = Idle
    /\ changes = 0
    /\ faults = 0

Over(what) == IF what \in {"install", "helmCharts"} THEN {Nodes} ELSE {{n} : n \in Nodes}

Begin ==
    /\ run = Idle
    /\ \E what \in Whats : \E nodes \in Over(what) :
          run' = [Idle EXCEPT !.what = what, !.nodes = nodes, !.left = nodes,
                              !.steps = Pipelines[what]]
    /\ UNCHANGED <<disk, tagged, class, label, lvmd, changes, faults>>

At(step) == run.steps # <<>> /\ Head(run.steps) = step

OnNode(step, n) == At(step) /\ n \in run.left

\* The barrier: the last of its nodes takes the run to its next step, or
\* stops it when one of them failed.
Onward(left, failed) ==
    IF left # {} THEN run.steps ELSE IF failed THEN <<>> ELSE Tail(run.steps)

Reports(n, ok, found) ==
    LET left == run.left \ {n}
    IN  run' = [run EXCEPT !.found[n] = found,
                           !.failed = @ \/ ~ok,
                           !.left = IF left = {} THEN run.nodes ELSE left,
                           !.steps = Onward(left, run.failed \/ ~ok)]

Succeeds(n) == Reports(n, TRUE, run.found[n])
Fails(n) == Reports(n, FALSE, run.found[n])

Fault == faults < MaxFaults /\ faults' = faults + 1

CutShort(n) ==
    /\ Fault
    /\ LET left == run.left \ {n}
       IN  run' = [run EXCEPT !.failed = TRUE, !.disturbed = TRUE,
                              !.left = IF left = {} THEN run.nodes ELSE left,
                              !.steps = Onward(left, TRUE)]

-----------------------------------------------------------------------------
(* The lvm bundle                                                          *)

\* Ours by its tag, or by the name of its group, which is what lvmd goes by.
Claimed(n, d) ==
    disk[n][d].holds = "volume" /\ (disk[n][d].tagged \/ disk[n][d].group \in Classes)

\* Nothing on it, or a physical volume in no group, which holds nothing.
Free(n, d) == disk[n][d] = Empty("blank") \/ disk[n][d] = Bare

\* Fault: the configuration has the last word.
ConfiguredClass(n, d) == class[n][d]

\* The group a disk is in decides, then the configuration.
StorageClass(n, d) ==
    IF disk[n][d].group \in Classes THEN disk[n][d].group ELSE class[n][d]

Untagged(n, d) ==
    /\ Claimed(n, d) /\ disk[n][d].group \in Classes
    /\ ~disk[n][d].tagged \/ disk[n][d].group \notin tagged[n]

ReadDisks(n) ==
    [free     |-> {d \in Disks : Free(n, d)},
     serving  |-> {StorageClass(n, d) : d \in {e \in Disks : Free(n, e) \/ Claimed(n, e)}},
     untagged |-> {d \in Disks : Untagged(n, d)}]

FindDisks(n) ==
    /\ OnNode("find-disks", n)
    /\ Reports(n, TRUE, ReadDisks(n))
    /\ UNCHANGED <<disk, tagged, class, label, lvmd, changes, faults>>

Tag(node, disks) == [d \in Disks |-> IF d \in disks THEN [node[d] EXCEPT !.tagged = TRUE] ELSE node[d]]

\* The groups first, then the disks; a group that is gone can't be tagged.
TagVolumeGroups(n) ==
    LET wanted == run.found[n].untagged
        found  == {d \in wanted : disk[n][d].group \in Classes}
        Groupings(disks) == {disk[n][d].group : d \in disks}
    IN  /\ OnNode("tag-volume-groups", n)
        /\ \/ /\ found = wanted
              /\ tagged' = [tagged EXCEPT ![n] = @ \cup Groupings(wanted)]
              /\ disk' = [disk EXCEPT ![n] = Tag(@, wanted)]
              /\ Succeeds(n) /\ UNCHANGED faults
           \/ /\ \E groups \in SUBSET Groupings(found) :
                    tagged' = [tagged EXCEPT ![n] = @ \cup groups]
              /\ UNCHANGED disk
              /\ \/ found # wanted /\ Fails(n) /\ UNCHANGED faults
                 \/ wanted # {} /\ CutShort(n)
        /\ UNCHANGED <<class, label, lvmd, changes>>

\* Fault: pvcreate is told to wipe what it finds.
RefusesNothing(n, d) == disk[n][d].holds = "absent"

\* pvcreate asks before it wipes what somebody has put on the disk since it
\* was found, and nobody answers.
Refuses(n, d) == disk[n][d].holds \in {"files", "absent"}

\* A disk that is a volume already is left as it is.
CreatePhysicalVolumes(n) ==
    LET free    == run.found[n].free
        refused == {d \in free : Refuses(n, d)}
        makes   == {d \in free \ refused : disk[n][d].holds # "volume"}
        Made(made) == [disk EXCEPT ![n] = [d \in Disks |-> IF d \in made THEN Bare ELSE @[d]]]
    IN  /\ OnNode("create-physical-volumes", n)
        /\ \/ refused = {} /\ disk' = Made(makes) /\ Succeeds(n) /\ UNCHANGED faults
           \/ /\ \E made \in SUBSET makes : disk' = Made(made)
              /\ \/ refused # {} /\ Fails(n) /\ UNCHANGED faults
                 \/ free # {} /\ CutShort(n)
        /\ UNCHANGED <<tagged, class, label, lvmd, changes>>

\* For each class: the group extended or made with its disks and tagged,
\* then its disks tagged.  LVM takes all the disks or none, and one it
\* doesn't take can't be tagged, which is where the step notices.
CreateVolumeGroups(n) ==
    LET free == run.found[n].free
        Wanted(d) == class[n][d]
        All == {Wanted(d) : d \in free}
        lost == {Wanted(d) : d \in {e \in free : disk[n][e] \notin {Bare, Empty("blank")}}}
        Grouped(classes) ==
            [disk EXCEPT ![n] =
                [d \in Disks |-> IF d \in free /\ Wanted(d) \in classes
                                  THEN InGroup(Wanted(d)) ELSE @[d]]]
        Whole(classes) ==
            [Grouped(classes) EXCEPT ![n] = Tag(@, {d \in free : Wanted(d) \in classes})]
    IN  /\ OnNode("create-volume-groups", n)
        /\ UNCHANGED <<class, label, lvmd, changes>>
        /\ \/ /\ lost = {}
              /\ disk' = Whole(All)
              /\ tagged' = [tagged EXCEPT ![n] = @ \cup All]
              /\ Succeeds(n) /\ UNCHANGED faults
           \/ \E classes \in SUBSET (All \ lost), c \in lost :
                 /\ disk' = Whole(classes)
                 /\ tagged' = [tagged EXCEPT ![n] = @ \cup classes \cup ({c} \cap Groups(n))]
                 /\ Fails(n) /\ UNCHANGED faults
           \/ \E classes \in SUBSET (All \ lost) :
                 /\ free # {}
                 /\ disk' = Grouped(classes)
                 /\ tagged' = [tagged EXCEPT ![n] = @ \cup classes]
                 /\ CutShort(n)

VerifyVolumeGroups(n) ==
    /\ OnNode("verify-volume-groups", n)
    /\ IF run.found[n].serving \subseteq Groups(n) THEN Succeeds(n) ELSE Fails(n)
    /\ UNCHANGED <<disk, tagged, class, label, lvmd, changes, faults>>

-----------------------------------------------------------------------------
(* The nodeLabels bundle                                                   *)

Shape(n) == run.found[n].serving

\* A label is written over, and never taken off.
ApplyNodeLabels(n) ==
    /\ OnNode("apply-node-labels", n)
    /\ \/ /\ label' = [label EXCEPT ![n] = IF Shape(n) = {} THEN @ ELSE Shape(n)]
          /\ Succeeds(n)
          /\ UNCHANGED faults
       \/ CutShort(n) /\ UNCHANGED label
    /\ UNCHANGED <<disk, tagged, class, lvmd, changes>>

VerifyNodeLabels(n) ==
    /\ OnNode("verify-node-labels", n)
    /\ IF Shape(n) \in {{}, label[n]} THEN Succeeds(n) ELSE Fails(n)
    /\ UNCHANGED <<disk, tagged, class, label, lvmd, changes, faults>>

-----------------------------------------------------------------------------
(* What helm-charts does about them                                        *)

\* A step for the cluster rather than for each of the run's nodes.
ClusterDone(ok, shapes) ==
    run' = [run EXCEPT !.shapes = shapes, !.failed = @ \/ ~ok,
                       !.steps = IF ok THEN Tail(@) ELSE <<>>]

\* An API server that doesn't answer reads as nodes without labels.
ReadStorageShapes ==
    /\ At("read-storage-shapes")
    /\ \/ ClusterDone(TRUE, {label[n] : n \in Nodes} \ {{}}) /\ UNCHANGED faults
       \/ Fault /\ run' = [run EXCEPT !.shapes = {}, !.disturbed = TRUE, !.steps = Tail(@)]
    /\ UNCHANGED <<disk, tagged, class, label, lvmd, changes>>

Config(shape, everyone) == [shape |-> shape, everyone |-> everyone, serves |-> shape]

\* Fault: the configuration of the values file stays everyone's.
RenderedForEveryone(shapes) ==
    {Config(Classes, TRUE)} \cup {Config(shape, FALSE) : shape \in shapes \ {Classes}}

\* The configuration of the values file names every class, and is for
\* everyone until a shape is known; then for those that have them all.
Rendered(shapes) ==
    IF shapes = {} THEN {Config(Classes, TRUE)}
    ELSE {Config(Classes, FALSE)} \cup {Config(shape, FALSE) : shape \in shapes \ {Classes}}

\* Helm waits for the DaemonSets, and doesn't mind one pod of each missing.
HelmInstallTopolvm ==
    /\ At("helm-install-topolvm")
    /\ lvmd' = Rendered(run.shapes)
    /\ UNCHANGED <<disk, tagged, class, label, changes, faults>>
    /\ \/ ClusterDone(TRUE, run.shapes)
       \/ (\E n \in Nodes : ~Starts(n)') /\ ClusterDone(FALSE, run.shapes)

-----------------------------------------------------------------------------
(* Taking the groups away, and how a run ends                              *)

\* The groups that carry the tag, and the disks that do or are in one.
RemoveVolumeGroups(n) ==
    LET ours == {d \in Disks : disk[n][d].tagged \/ disk[n][d].group \in tagged[n]}
    IN  /\ OnNode("remove-volume-groups", n)
        /\ disk' = [disk EXCEPT ![n] = [d \in Disks |-> IF d \in ours THEN Empty("blank") ELSE @[d]]]
        /\ tagged' = [tagged EXCEPT ![n] = {}]
        /\ Succeeds(n)
        /\ UNCHANGED <<class, label, lvmd, changes, faults>>

Ends ==
    /\ run # Idle /\ run.steps = <<>>
    /\ run' = Idle
    /\ UNCHANGED <<disk, tagged, class, label, lvmd, changes, faults>>

-----------------------------------------------------------------------------
(* What people do to the disks                                             *)

Changed(n, d, to) ==
    /\ changes < MaxChanges
    /\ changes' = changes + 1
    /\ disk' = [disk EXCEPT ![n][d] = to]
    /\ run' = IF run = Idle THEN Idle ELSE [run EXCEPT !.disturbed = TRUE]
    /\ tagged' = [tagged EXCEPT ![n] = @ \ ({disk[n][d].group} \ {disk'[n][e].group : e \in Disks})]
    /\ UNCHANGED <<class, label, lvmd, faults>>

Fit(n, d) ==
    /\ disk[n][d].holds = "absent"
    /\ \E holds \in {"blank", "files"} : Changed(n, d, Empty(holds))

\* One that is alone in its group, or in none.
Pull(n, d) ==
    /\ disk[n][d].holds # "absent"
    /\ disk[n][d].group \in {NoGroup, Theirs} \/ In(n, disk[n][d].group) = {d}
    /\ Changed(n, d, Empty("absent"))

Format(n, d) == disk[n][d].holds = "blank" /\ Changed(n, d, Empty("files"))

\* A group of their own, or one by a name that TopoLVM looks for.
MakeGroup(n, d) ==
    /\ run = Idle
    /\ Free(n, d)
    /\ \E group \in Classes \cup {Theirs} :
          In(n, group) = {} /\ Changed(n, d, InGroup(group))

Reclassify(n, d) ==
    /\ run = Idle
    /\ changes < MaxChanges
    /\ changes' = changes + 1
    /\ \E c \in Classes \ {class[n][d]} : class' = [class EXCEPT ![n][d] = c]
    /\ UNCHANGED <<disk, tagged, label, lvmd, run, faults>>

-----------------------------------------------------------------------------
Step ==
    \/ \E n \in Nodes :
          \/ FindDisks(n) \/ TagVolumeGroups(n) \/ CreatePhysicalVolumes(n)
          \/ CreateVolumeGroups(n) \/ VerifyVolumeGroups(n)
          \/ ApplyNodeLabels(n) \/ VerifyNodeLabels(n) \/ RemoveVolumeGroups(n)
    \/ ReadStorageShapes \/ HelmInstallTopolvm \/ Ends

People ==
    \E n \in Nodes, d \in Disks :
        Fit(n, d) \/ Pull(n, d) \/ Format(n, d) \/ MakeGroup(n, d) \/ Reclassify(n, d)

Next == Begin \/ Step \/ People

Spec == Init /\ [][Next]_vars

-----------------------------------------------------------------------------
DiskType ==
    {Empty(holds) : holds \in {"absent", "files", "blank"}}
        \cup [holds : {"volume"}, group : Classes \cup {NoGroup, Theirs}, tagged : BOOLEAN]

TypeOK ==
    /\ disk \in [Nodes -> [Disks -> DiskType]]
    /\ \A n \in Nodes : tagged[n] \subseteq Groups(n)
    /\ class \in [Nodes -> [Disks -> Classes]]
    /\ label \in [Nodes -> SUBSET Classes]
    /\ \A config \in lvmd : config.serves \subseteq Classes
    /\ run.nodes \subseteq Nodes /\ run.left \subseteq run.nodes
    /\ changes \in 0..MaxChanges /\ faults \in 0..MaxFaults

Finished(whats) == run.what \in whats /\ Ends /\ ~run.failed

(* An install that nothing disturbed leaves every node that has a group    *)
(* served by one lvmd, told of exactly the groups it has, whatever was     *)
(* left half made, made by hand, labelled or rendered before it            *)
(* (util/storage.ts: one configuration per combination).                   *)
InstallServes ==
    [][Finished({"install"}) /\ ~run.disturbed =>
          \A n \in Nodes : Groups(n) # {} =>
             \E config \in lvmd : Selecting(n) = {config} /\ config.serves = Groups(n)]_vars

(* Two lvmds never run on one node: they would share a socket.             *)
OneLvmd == \A n \in Nodes : Cardinality(Selecting(n)) <= 1

(* What somebody keeps on a disk is left alone: a run changes no disk that *)
(* holds files or is in a group of theirs, though it was blank when found  *)
(* ("On destroying things", the head of commands/LVM.ts).                  *)
OthersLeftAlone ==
    [][Step => \A n \in Nodes, d \in Disks :
          disk[n][d].holds = "files" \/ disk[n][d].group = Theirs => disk'[n][d] = disk[n][d]]_vars

(* Once the lvm bundle has succeeded, nothing is left of a run before it   *)
(* that was cut short: no volume in no group, no disk unused, no group and *)
(* no disk of one without its tags, which is what clean goes by.           *)
LvmTakesAll ==
    [][Finished({"lvm"}) /\ ~run.disturbed =>
          \A n \in run.nodes :
             /\ \A d \in Disks : disk[n][d] \notin {Empty("blank"), Bare}
             /\ \A d \in Disks : disk[n][d].group \in Classes =>
                    disk[n][d].tagged /\ disk[n][d].group \in tagged[n]]_vars

(* What a run sets a node up with its label says, when the run made the    *)
(* groups itself (getStorageLabels).                                       *)
LabelledAsServed ==
    [][Finished({"addNode", "install"}) /\ ~run.disturbed =>
          \A n \in run.nodes : Groups(n) # {} => label[n] = Groups(n)]_vars

(* A node is labelled with the classes it actually has volume groups for   *)
(* (getStorageLabels).  Doesn't hold when nodeLabels is run on its own;    *)
(* no run checks it.                                                       *)
LabelIsTrue ==
    [][\A n \in Nodes : label'[n] # label[n] => label'[n] \subseteq Groups(n)]_vars

(* Said of a node nothing is known of, and true only while nothing is      *)
(* known of any: it is offered every class (read-storage-shapes).          *)
(* Doesn't hold, and no run checks it (README, Observed on the way).       *)
UnlabelledIsOffered ==
    [][Finished({"install", "helmCharts"}) /\ ~run.disturbed =>
          \A n \in Nodes : label[n] = {} => Selecting(n) # {}]_vars

(* No node ever has two lvmds, whatever classes its disks are in and       *)
(* whenever it was labelled.                                               *)
StorageInv ==
    /\ TypeOK
    /\ OneLvmd

(* What an undisturbed run leaves, over whatever runs cut short left half  *)
(* made: no free disk and no untagged group, labels that say which groups  *)
(* there are, and one lvmd that serves them.                               *)
InstallLeavesServed ==
    /\ InstallServes
    /\ LvmTakesAll
    /\ LabelledAsServed
=============================================================================
