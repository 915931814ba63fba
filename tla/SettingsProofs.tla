--------------------------- MODULE SettingsProofs ---------------------------
(***************************************************************************)
(* What things a configuration says come to, proved for any values of the  *)
(* constants: the drives and partitions its nodes name, the plugins it     *)
(* enables, the DNS providers it names, and what preflight says of it and  *)
(* of its machines.  They share no variable, and each part has an          *)
(* invariant of its own.                                                   *)
(***************************************************************************)
EXTENDS NodeStorage, Plugins, DnsBundle, Preflight, FiniteSetTheorems, SequenceTheorems, TLAPS

-----------------------------------------------------------------------------
(* NodeStorage: the inductive invariant                                    *)

FoundType == [free : SUBSET Disks, serving : SUBSET Classes, untagged : SUBSET Disks]

StepNames ==
    {"find-disks", "tag-volume-groups", "create-physical-volumes", "create-volume-groups",
     "verify-volume-groups", "apply-node-labels", "verify-node-labels",
     "read-storage-shapes", "helm-install-topolvm", "remove-volume-groups"}

RunType ==
    [what : DOMAIN Pipelines \cup {"nothing"},
     nodes : SUBSET Nodes, left : SUBSET Nodes, steps : Seq(StepNames),
     found : [Nodes -> FoundType], shapes : SUBSET SUBSET Classes,
     failed : BOOLEAN, disturbed : BOOLEAN]

StrongTypeOK ==
    /\ disk \in [Nodes -> [Disks -> DiskType]]
    /\ tagged \in [Nodes -> SUBSET Classes]
    /\ class \in [Nodes -> [Disks -> Classes]]
    /\ label \in [Nodes -> SUBSET Classes]
    /\ run \in RunType
    /\ run.left \subseteq run.nodes
    /\ changes \in 0..MaxChanges /\ faults \in 0..MaxFaults

\* A group that carries the tag has a disk in it.
TagsHold == \A n \in Nodes : tagged[n] \subseteq Groups(n)

\* A disk that carries the tag is in a group that lvmd goes by.
TaggedAreOurs == \A n \in Nodes, d \in Disks : disk[n][d].tagged => disk[n][d].group \in Classes

\* One configuration for everyone, or each for the nodes of its shape.
ConfigsApart ==
    \/ lvmd = {Config(Classes, TRUE)}
    \/ \A config \in lvmd : config.shape \subseteq Classes /\ config = Config(config.shape, FALSE)

StorageIInv ==
    /\ StrongTypeOK
    /\ TagsHold
    /\ TaggedAreOurs
    /\ ConfigsApart

\* What the runs may not do to a disk (OthersLeftAlone).
LeftAlone ==
    \A n \in Nodes, d \in Disks :
        disk[n][d].holds = "files" \/ disk[n][d].group = Theirs => disk'[n][d] = disk[n][d]

-----------------------------------------------------------------------------
(* Disks                                                                   *)

(* What there is to know of any disk.                                      *)
LEMMA DiskFacts ==
    ASSUME NEW x \in DiskType
    PROVE  /\ x.holds \in {"absent", "files", "blank", "volume"}
           /\ x.group \in Classes \cup {NoGroup, Theirs} /\ x.tagged \in BOOLEAN
           /\ x.holds # "volume" => x.group = NoGroup /\ ~x.tagged /\ x = Empty(x.holds)
           /\ x.holds = "volume" =>
                 /\ [x EXCEPT !.tagged = TRUE] \in DiskType
                 /\ [x EXCEPT !.tagged = TRUE].group = x.group
<1> DEFINE Volumes == [holds : {"volume"}, group : Classes \cup {NoGroup, Theirs}, tagged : BOOLEAN]
           y == [x EXCEPT !.tagged = TRUE]
<1>1. CASE x \in Volumes
  <2>1. y \in Volumes /\ y.group = x.group
    BY <1>1
  <2>2. QED
    BY <1>1, <2>1 DEF DiskType
<1>2. CASE \E holds \in {"absent", "files", "blank"} : x = Empty(holds)
  <2>1. PICK holds \in {"absent", "files", "blank"} : x = Empty(holds)
    BY <1>2
  <2>2. x.holds = holds /\ x.group = NoGroup /\ x.tagged = FALSE
    BY <2>1 DEF Empty
  <2>3. QED
    BY <2>1, <2>2
<1>3. QED
  BY <1>1, <1>2 DEF DiskType

(* What is fitted or made carries no tag.                                *)
LEMMA MadeTypes ==
    /\ \A holds \in {"absent", "files", "blank"} :
          Empty(holds) \in DiskType /\ ~Empty(holds).tagged /\ Empty(holds).group = NoGroup
    /\ \A g \in Classes \cup {NoGroup, Theirs} :
          /\ InGroup(g) \in DiskType /\ ~InGroup(g).tagged
          /\ InGroup(g).group = g /\ InGroup(g).holds = "volume"
BY DEF DiskType, Empty, InGroup

(* No class has the name of a group of theirs.                           *)
LEMMA NamesApart ==
    NoGroup # Theirs /\ NoGroup \notin Classes /\ Theirs \notin Classes
BY ConstantsAssumption DEF NoGroup, Theirs

(* A step over the disks of one node answers for those only.               *)
LEMMA NodeStep ==
    ASSUME StorageIInv, NEW n \in Nodes,
           NEW node \in [Disks -> DiskType], NEW tags \in SUBSET Classes,
           disk' = [disk EXCEPT ![n] = node], tagged' = [tagged EXCEPT ![n] = tags],
           \A d \in Disks : node[d].tagged => node[d].group \in Classes,
           \A c \in tags : \E d \in Disks : node[d].group = c,
           run' \in RunType, run'.left \subseteq run'.nodes,
           changes' \in 0..MaxChanges, faults' \in 0..MaxFaults,
           UNCHANGED <<class, label, lvmd>>
    PROVE  StorageIInv'
<1>1. StrongTypeOK
  BY DEF StorageIInv
<1>2. /\ disk' \in [Nodes -> [Disks -> DiskType]] /\ disk'[n] = node
      /\ \A m \in Nodes \ {n} : disk'[m] = disk[m]
  BY <1>1 DEF StrongTypeOK
<1>3. /\ tagged' \in [Nodes -> SUBSET Classes] /\ tagged'[n] = tags
      /\ \A m \in Nodes \ {n} : tagged'[m] = tagged[m]
  BY <1>1 DEF StrongTypeOK
<1>4. StrongTypeOK'
  BY <1>1, <1>2, <1>3 DEF StrongTypeOK
<1>5. TagsHold'
  <2>1. SUFFICES ASSUME NEW m \in Nodes, NEW c \in tagged'[m]
                 PROVE  c \in Groups(m)'
    BY DEF TagsHold
  <2>2. c \in Classes
    BY <1>3, <2>1
  <2>3. \E d \in Disks : disk'[m][d].group = c
    <3>1. CASE m = n
      BY <1>2, <1>3, <2>1, <3>1
    <3>2. CASE m # n
      <4>1. c \in Groups(m)
        BY <1>3, <2>1, <3>2 DEF StorageIInv, TagsHold
      <4>2. \E d \in Disks : disk[m][d].group = c
        BY <4>1 DEF Groups, In
      <4>3. QED
        BY <1>2, <3>2, <4>2
    <3>3. QED
      BY <3>1, <3>2
  <2>4. QED
    BY <2>2, <2>3 DEF Groups, In
<1>6. TaggedAreOurs'
  BY <1>2 DEF StorageIInv, TaggedAreOurs
<1>7. ConfigsApart'
  BY DEF StorageIInv, ConfigsApart
<1>8. QED
  BY <1>4, <1>5, <1>6, <1>7 DEF StorageIInv

(* A step that keeps one node's disks of theirs keeps everyone's.        *)
LEMMA NodeLeftAlone ==
    ASSUME StorageIInv, NEW n \in Nodes,
           NEW node \in [Disks -> DiskType], disk' = [disk EXCEPT ![n] = node],
           \A d \in Disks : disk[n][d].holds = "files" \/ disk[n][d].group = Theirs
                               => node[d] = disk[n][d]
    PROVE  LeftAlone
BY DEF StorageIInv, StrongTypeOK, LeftAlone

(* A step that leaves the disks as they are.                               *)
LEMMA QuietStep ==
    ASSUME StorageIInv, UNCHANGED <<disk, tagged>>,
           run' \in RunType, run'.left \subseteq run'.nodes,
           class' \in [Nodes -> [Disks -> Classes]], label' \in [Nodes -> SUBSET Classes],
           changes' \in 0..MaxChanges, faults' \in 0..MaxFaults, ConfigsApart'
    PROVE  StorageIInv' /\ LeftAlone
<1>1. StrongTypeOK'
  BY DEF StorageIInv, StrongTypeOK
<1>2. TagsHold' /\ TaggedAreOurs'
  BY DEF StorageIInv, TagsHold, TaggedAreOurs, Groups, In
<1>3. QED
  BY <1>1, <1>2 DEF StorageIInv, LeftAlone

-----------------------------------------------------------------------------
(* A run                                                                   *)

(* The barrier moves along the run's steps.                              *)
LEMMA OnwardType ==
    ASSUME StrongTypeOK, run.steps # <<>>, NEW left, NEW failed
    PROVE  Onward(left, failed) \in Seq(StepNames)
<1>1. run.steps \in Seq(StepNames)
  BY DEF StrongTypeOK, RunType
<1>2. Tail(run.steps) \in Seq(StepNames)
  BY <1>1, HeadTailProperties
<1>3. <<>> \in Seq(StepNames)
  OBVIOUS
<1>4. QED
  BY <1>1, <1>2, <1>3 DEF Onward

(* What a node reports leaves a run.                                     *)
LEMMA ReportsType ==
    ASSUME StrongTypeOK, run.steps # <<>>, NEW n \in Nodes, NEW ok \in BOOLEAN,
           NEW found \in FoundType, Reports(n, ok, found)
    PROVE  run' \in RunType /\ run'.left \subseteq run'.nodes
<1> DEFINE left == run.left \ {n}
           next == IF left = {} THEN run.nodes ELSE left
           failed == run.failed \/ ~ok
           steps == Onward(left, failed)
           all == [run.found EXCEPT ![n] = found]
<1>1. run \in RunType /\ run.left \subseteq run.nodes
  BY DEF StrongTypeOK
<1>2. run' = [run EXCEPT !.found = all, !.failed = failed, !.left = next, !.steps = steps]
  BY <1>1 DEF Reports, RunType
<1>3. /\ next \in SUBSET Nodes /\ next \subseteq run.nodes /\ failed \in BOOLEAN
      /\ steps \in Seq(StepNames) /\ all \in [Nodes -> FoundType]
  BY <1>1, OnwardType DEF RunType
<1> HIDE DEF next, failed, steps, all
<1>4. QED
  BY <1>1, <1>2, <1>3 DEF RunType

(* So does a command cut short, which takes one of the faults.           *)
LEMMA CutShortType ==
    ASSUME StrongTypeOK, run.steps # <<>>, NEW n \in Nodes, CutShort(n)
    PROVE  run' \in RunType /\ run'.left \subseteq run'.nodes /\ faults' \in 0..MaxFaults
<1> DEFINE left == run.left \ {n}
           next == IF left = {} THEN run.nodes ELSE left
           steps == Onward(left, TRUE)
<1>1. run \in RunType /\ run.left \subseteq run.nodes
  BY DEF StrongTypeOK
<1>2. run' = [run EXCEPT !.failed = TRUE, !.disturbed = TRUE, !.left = next, !.steps = steps]
  BY DEF CutShort
<1>3. next \in SUBSET Nodes /\ next \subseteq run.nodes /\ steps \in Seq(StepNames)
  BY <1>1, OnwardType DEF RunType
<1>4. faults' \in 0..MaxFaults
  <2>1. faults \in 0..MaxFaults /\ MaxFaults \in Nat
    BY ConstantsAssumption DEF StrongTypeOK
  <2>2. faults < MaxFaults /\ faults' = faults + 1
    BY DEF CutShort, Fault
  <2>3. QED
    BY <2>1, <2>2
<1> HIDE DEF next, steps
<1>5. QED
  BY <1>1, <1>2, <1>3, <1>4 DEF RunType

(* And a success or a failure.                                           *)
LEMMA AnswersType ==
    ASSUME StrongTypeOK, run.steps # <<>>, NEW n \in Nodes, Succeeds(n) \/ Fails(n)
    PROVE  run' \in RunType /\ run'.left \subseteq run'.nodes
<1>1. run.found[n] \in FoundType
  BY DEF StrongTypeOK, RunType
<1>2. QED
  BY <1>1, ReportsType DEF Succeeds, Fails

(* And a step for the whole cluster.                                     *)
LEMMA ClusterDoneType ==
    ASSUME StrongTypeOK, run.steps # <<>>, NEW ok \in BOOLEAN,
           NEW shapes \in SUBSET SUBSET Classes, ClusterDone(ok, shapes)
    PROVE  run' \in RunType /\ run'.left \subseteq run'.nodes
<1> DEFINE steps == IF ok THEN Tail(run.steps) ELSE <<>>
           failed == run.failed \/ ~ok
<1>1. run \in RunType /\ run.left \subseteq run.nodes
  BY DEF StrongTypeOK
<1>2. run' = [run EXCEPT !.shapes = shapes, !.failed = failed, !.steps = steps]
  BY DEF ClusterDone
<1>3. steps \in Seq(StepNames) /\ failed \in BOOLEAN
  <2>1. run.steps \in Seq(StepNames) /\ run.failed \in BOOLEAN
    BY <1>1 DEF RunType
  <2>2. Tail(run.steps) \in Seq(StepNames)
    BY <2>1, HeadTailProperties
  <2>3. <<>> \in Seq(StepNames)
    OBVIOUS
  <2>4. QED
    BY <2>1, <2>2, <2>3
<1> HIDE DEF steps, failed
<1>4. QED
  BY <1>1, <1>2, <1>3 DEF RunType

-----------------------------------------------------------------------------
(* The lvm bundle                                                          *)

(* find-disks remembers disks and classes there are.                     *)
LEMMA FindDisksKeeps ==
    ASSUME StorageIInv, NEW n \in Nodes, FindDisks(n)
    PROVE  StorageIInv' /\ LeftAlone
<1>1. StrongTypeOK
  BY DEF StorageIInv
<1>2. /\ run.steps # <<>> /\ Reports(n, TRUE, ReadDisks(n))
      /\ UNCHANGED <<disk, tagged, class, label, lvmd, changes, faults>>
  BY DEF FindDisks, OnNode, At
<1>3. ReadDisks(n) \in FoundType
  <2>1. \A d \in Disks : StorageClass(n, d) \in Classes
    BY <1>1 DEF StrongTypeOK, StorageClass
  <2>2. QED
    BY <2>1 DEF ReadDisks, FoundType
<1>4. run' \in RunType /\ run'.left \subseteq run'.nodes
  BY <1>1, <1>2, <1>3, ReportsType
<1>5. QED
  BY <1>1, <1>2, <1>4, QuietStep DEF StrongTypeOK, StorageIInv, ConfigsApart

(* Tags go to disks that are in a group lvmd goes by.                      *)
LEMMA TagVolumeGroupsKeeps ==
    ASSUME StorageIInv, NEW n \in Nodes, TagVolumeGroups(n)
    PROVE  StorageIInv' /\ LeftAlone
<1> DEFINE wanted == run.found[n].untagged
           found == {d \in wanted : disk[n][d].group \in Classes}
           Groupings(disks) == {disk[n][d].group : d \in disks}
<1>1. StrongTypeOK /\ disk[n] \in [Disks -> DiskType] /\ wanted \subseteq Disks
  BY DEF StorageIInv, StrongTypeOK, RunType, FoundType
<1>2. /\ run.steps # <<>>
      /\ UNCHANGED <<class, label, lvmd, changes>>
      /\ \/ /\ found = wanted
            /\ tagged' = [tagged EXCEPT ![n] = @ \cup Groupings(wanted)]
            /\ disk' = [disk EXCEPT ![n] = Tag(@, wanted)]
            /\ Succeeds(n) /\ UNCHANGED faults
         \/ /\ \E groups \in SUBSET Groupings(found) :
                  tagged' = [tagged EXCEPT ![n] = @ \cup groups]
            /\ UNCHANGED disk
            /\ \/ Fails(n) /\ UNCHANGED faults
               \/ CutShort(n)
  BY DEF TagVolumeGroups, OnNode, At
<1>3. PICK groups \in SUBSET Groupings(found) :
          /\ tagged' = [tagged EXCEPT ![n] = tagged[n] \cup groups]
          /\ \/ disk' = [disk EXCEPT ![n] = Tag(disk[n], found)]
             \/ disk' = disk
          /\ ((Succeeds(n) \/ Fails(n)) /\ UNCHANGED faults) \/ CutShort(n)
  BY <1>2
<1> DEFINE node == IF disk' = disk THEN disk[n] ELSE Tag(disk[n], found)
           tags == tagged[n] \cup groups
<1>4. disk' = [disk EXCEPT ![n] = node] /\ tagged' = [tagged EXCEPT ![n] = tags]
  BY <1>1, <1>3 DEF StrongTypeOK
<1>5. ASSUME NEW d \in Disks
      PROVE  /\ node[d] \in DiskType /\ node[d].group = disk[n][d].group
             /\ node[d].tagged => node[d].group \in Classes
             /\ d \notin found => node[d] = disk[n][d]
  <2>1. disk[n][d] \in DiskType /\ (disk[n][d].tagged => disk[n][d].group \in Classes)
    BY <1>1 DEF StorageIInv, TaggedAreOurs
  <2>2. CASE node[d] = disk[n][d]
    BY <2>1, <2>2
  <2>3. CASE node[d] # disk[n][d]
    <3>1. d \in found /\ node[d] = [disk[n][d] EXCEPT !.tagged = TRUE]
      BY <1>1, <2>3 DEF Tag
    <3>2. disk[n][d].group \in Classes
      BY <3>1
    <3>3. disk[n][d].holds = "volume"
      BY <2>1, <3>2, DiskFacts, NamesApart
    <3> PICK x \in DiskType : x = disk[n][d]
      BY <2>1
    <3>4. [x EXCEPT !.tagged = TRUE] \in DiskType /\ [x EXCEPT !.tagged = TRUE].group = x.group
      BY <3>3, DiskFacts
    <3>5. node[d] = [x EXCEPT !.tagged = TRUE]
      BY <3>1
    <3> HIDE DEF node
    <3>6. QED
      BY <3>1, <3>2, <3>4, <3>5
  <2>4. QED
    BY <2>2, <2>3
<1>6. node \in [Disks -> DiskType]
  <2>1. node = [d \in Disks |-> node[d]]
    BY <1>1 DEF Tag
  <2>2. QED
    BY <1>5, <2>1
<1>7. /\ tags \in SUBSET Classes
      /\ \A c \in tags : \E d \in Disks : node[d].group = c
  <2>1. \A c \in tagged[n] : c \in Classes /\ \E d \in Disks : disk[n][d].group = c
    BY <1>1 DEF StorageIInv, StrongTypeOK, TagsHold, Groups, In
  <2>2. \A c \in groups : c \in Classes /\ \E d \in Disks : disk[n][d].group = c
    BY <1>1, <1>3
  <2>3. QED
    BY <1>5, <2>1, <2>2
<1>8. \A d \in Disks : disk[n][d].holds = "files" \/ disk[n][d].group = Theirs => node[d] = disk[n][d]
  <2>1. \A d \in found : disk[n][d].group \in Classes
    OBVIOUS
  <2>2. \A d \in found : disk[n][d].holds = "volume" /\ disk[n][d].group # Theirs
    BY <1>1, <2>1, DiskFacts, NamesApart
  <2>3. QED
    BY <1>5, <2>2
<1>9. run' \in RunType /\ run'.left \subseteq run'.nodes /\ faults' \in 0..MaxFaults
  BY <1>1, <1>2, <1>3, AnswersType, CutShortType DEF StrongTypeOK
<1>10. changes' \in 0..MaxChanges
  BY <1>1, <1>2 DEF StrongTypeOK
<1>11. UNCHANGED <<class, label, lvmd>> /\ \A d \in Disks : node[d].tagged => node[d].group \in Classes
  BY <1>2, <1>5
<1> HIDE DEF node, tags
<1>12. StorageIInv'
  BY <1>4, <1>6, <1>7, <1>9, <1>10, <1>11, NodeStep
<1>13. LeftAlone
  BY <1>4, <1>6, <1>8, NodeLeftAlone
<1>14. QED
  BY <1>12, <1>13

(* A volume is made of a disk with nothing on it.                          *)
LEMMA CreatePhysicalVolumesKeeps ==
    ASSUME StorageIInv, NEW n \in Nodes, CreatePhysicalVolumes(n)
    PROVE  StorageIInv' /\ LeftAlone
<1> DEFINE free == run.found[n].free
           kept == {d \in free : Refuses(n, d)}
           makes == {d \in free \ kept : disk[n][d].holds # "volume"}
<1>1. StrongTypeOK /\ disk[n] \in [Disks -> DiskType] /\ free \subseteq Disks
  BY DEF StorageIInv, StrongTypeOK, RunType, FoundType
<1>2. /\ run.steps # <<>>
      /\ UNCHANGED <<tagged, class, label, lvmd, changes>>
  BY DEF CreatePhysicalVolumes, OnNode, At
<1>3. PICK made \in SUBSET makes :
          /\ disk' = [disk EXCEPT ![n] = [d \in Disks |-> IF d \in made THEN Bare ELSE disk[n][d]]]
          /\ ((Succeeds(n) \/ Fails(n)) /\ UNCHANGED faults) \/ CutShort(n)
  <2>1. \/ /\ disk' = [disk EXCEPT ![n] = [d \in Disks |-> IF d \in makes THEN Bare ELSE disk[n][d]]]
           /\ Succeeds(n) /\ UNCHANGED faults
        \/ /\ \E made \in SUBSET makes :
                 disk' = [disk EXCEPT ![n] = [d \in Disks |-> IF d \in made THEN Bare ELSE disk[n][d]]]
           /\ (Fails(n) /\ UNCHANGED faults) \/ CutShort(n)
    BY DEF CreatePhysicalVolumes
  <2>2. makes \in SUBSET makes
    OBVIOUS
  <2> HIDE DEF makes
  <2>3. QED
    BY <2>1, <2>2
<1> DEFINE node == [d \in Disks |-> IF d \in made THEN Bare ELSE disk[n][d]]
           tags == tagged[n]
<1>4. ASSUME NEW d \in Disks
      PROVE  /\ node[d] \in DiskType
             /\ node[d].tagged => node[d].group \in Classes
             /\ disk[n][d].holds = "files" \/ disk[n][d].group = Theirs => node[d] = disk[n][d]
             /\ disk[n][d].group \in Classes => node[d] = disk[n][d]
  <2>1. disk[n][d] \in DiskType /\ (disk[n][d].tagged => disk[n][d].group \in Classes)
    BY <1>1 DEF StorageIInv, TaggedAreOurs
  <2>2. CASE d \notin made
    BY <2>1, <2>2
  <2>3. CASE d \in made
    <3>1. ~Refuses(n, d) /\ disk[n][d].holds # "volume"
      BY <1>3, <2>3
    <3>2. disk[n][d].holds # "files" /\ disk[n][d].group = NoGroup
      BY <2>1, <3>1, DiskFacts DEF Refuses
    <3>3. Bare \in DiskType /\ ~Bare.tagged
      BY MadeTypes DEF Bare
    <3>4. node[d] = Bare
      BY <2>3
    <3>5. QED
      BY <3>2, <3>3, <3>4, NamesApart
  <2>4. QED
    BY <2>2, <2>3
<1>5. node \in [Disks -> DiskType]
  BY <1>4
<1>6. disk' = [disk EXCEPT ![n] = node] /\ tagged' = [tagged EXCEPT ![n] = tags]
  BY <1>1, <1>2, <1>3 DEF StrongTypeOK
<1>7. /\ tags \in SUBSET Classes
      /\ \A c \in tags : \E d \in Disks : node[d].group = c
  <2>1. \A c \in tagged[n] : c \in Classes /\ \E d \in Disks : disk[n][d].group = c
    BY <1>1 DEF StorageIInv, StrongTypeOK, TagsHold, Groups, In
  <2> HIDE DEF node
  <2>2. QED
    BY <1>4, <2>1
<1>8. run' \in RunType /\ run'.left \subseteq run'.nodes /\ faults' \in 0..MaxFaults
  BY <1>1, <1>2, <1>3, AnswersType, CutShortType DEF StrongTypeOK
<1>9. changes' \in 0..MaxChanges
  BY <1>1, <1>2 DEF StrongTypeOK
<1> HIDE DEF node, tags
<1>10. UNCHANGED <<class, label, lvmd>> /\ \A d \in Disks : node[d].tagged => node[d].group \in Classes
  BY <1>2, <1>4
<1>11. \A d \in Disks : disk[n][d].holds = "files" \/ disk[n][d].group = Theirs => node[d] = disk[n][d]
  BY <1>4
<1>12. StorageIInv'
  BY <1>5, <1>6, <1>7, <1>8, <1>9, <1>10, NodeStep
<1>13. LeftAlone
  BY <1>5, <1>6, <1>11, NodeLeftAlone
<1>14. QED
  BY <1>12, <1>13

(* Only disks that were in no group are put in one, and a group is tagged  *)
(* that has a disk by then.                                                *)
LEMMA CreateVolumeGroupsKeeps ==
    ASSUME StorageIInv, NEW n \in Nodes, CreateVolumeGroups(n)
    PROVE  StorageIInv' /\ LeftAlone
<1> DEFINE free == run.found[n].free
           Intended(d) == class[n][d]
           All == {Intended(d) : d \in free}
           lost == {Intended(d) : d \in {e \in free : disk[n][e] \notin {Bare, Empty("blank")}}}
           Moved(classes) == {d \in free : Intended(d) \in classes}
           Joined(classes) ==
               [d \in Disks |-> IF d \in free /\ Intended(d) \in classes
                                 THEN InGroup(Intended(d)) ELSE disk[n][d]]
           Signed(classes) == Tag(Joined(classes), Moved(classes))
<1>1. /\ StrongTypeOK /\ disk[n] \in [Disks -> DiskType] /\ free \subseteq Disks
      /\ \A d \in Disks : Intended(d) \in Classes
  BY DEF StorageIInv, StrongTypeOK, RunType, FoundType
<1>2. /\ run.steps # <<>>
      /\ UNCHANGED <<class, label, lvmd, changes>>
  BY DEF CreateVolumeGroups, OnNode, At
<1>3. PICK classes \in SUBSET (All \ lost), extra \in SUBSET Groups(n) :
          /\ \/ disk' = [disk EXCEPT ![n] = Joined(classes)]
             \/ disk' = [disk EXCEPT ![n] = Signed(classes)]
          /\ tagged' = [tagged EXCEPT ![n] = tagged[n] \cup classes \cup extra]
          /\ ((Succeeds(n) \/ Fails(n)) /\ UNCHANGED faults) \/ CutShort(n)
  <2> DEFINE Grouped(classes) == [disk EXCEPT ![n] = Joined(classes)]
             Whole(classes) == [Grouped(classes) EXCEPT ![n] = Tag(@, Moved(classes))]
  <2>1. \A classes : Whole(classes) = [disk EXCEPT ![n] = Signed(classes)]
    BY <1>1 DEF StrongTypeOK
  <2>2. \/ /\ lost = {}
           /\ disk' = Whole(All)
           /\ tagged' = [tagged EXCEPT ![n] = tagged[n] \cup All]
           /\ Succeeds(n) /\ UNCHANGED faults
        \/ \E classes \in SUBSET (All \ lost), c \in lost :
              /\ disk' = Whole(classes)
              /\ tagged' = [tagged EXCEPT ![n] = tagged[n] \cup classes \cup ({c} \cap Groups(n))]
              /\ Fails(n) /\ UNCHANGED faults
        \/ \E classes \in SUBSET (All \ lost) :
              /\ disk' = Grouped(classes)
              /\ tagged' = [tagged EXCEPT ![n] = tagged[n] \cup classes]
              /\ CutShort(n)
    BY DEF CreateVolumeGroups
  <2> HIDE DEF Whole, All, lost, Joined, Signed
  <2>3. CASE /\ lost = {}
             /\ disk' = Whole(All)
             /\ tagged' = [tagged EXCEPT ![n] = tagged[n] \cup All]
             /\ Succeeds(n) /\ UNCHANGED faults
    <3>1. All \in SUBSET (All \ lost) /\ {} \in SUBSET Groups(n)
      BY <2>3
    <3>2. tagged[n] \cup All = tagged[n] \cup All \cup {}
      OBVIOUS
    <3>3. QED
      BY <2>1, <2>3, <3>1, <3>2
  <2>4. CASE \E classes \in SUBSET (All \ lost), c \in lost :
                /\ disk' = Whole(classes)
                /\ tagged' = [tagged EXCEPT ![n] = tagged[n] \cup classes \cup ({c} \cap Groups(n))]
                /\ Fails(n) /\ UNCHANGED faults
    <3>1. PICK classes \in SUBSET (All \ lost), c \in lost :
                /\ disk' = Whole(classes)
                /\ tagged' = [tagged EXCEPT ![n] = tagged[n] \cup classes \cup ({c} \cap Groups(n))]
                /\ Fails(n) /\ UNCHANGED faults
      BY <2>4
    <3>2. {c} \cap Groups(n) \in SUBSET Groups(n)
      OBVIOUS
    <3>3. QED
      BY <2>1, <3>1, <3>2
  <2>5. CASE \E classes \in SUBSET (All \ lost) :
                /\ disk' = Grouped(classes)
                /\ tagged' = [tagged EXCEPT ![n] = tagged[n] \cup classes]
                /\ CutShort(n)
    <3>1. PICK classes \in SUBSET (All \ lost) :
                /\ disk' = Grouped(classes)
                /\ tagged' = [tagged EXCEPT ![n] = tagged[n] \cup classes]
                /\ CutShort(n)
      BY <2>5
    <3>2. {} \in SUBSET Groups(n) /\ tagged[n] \cup classes = tagged[n] \cup classes \cup {}
      OBVIOUS
    <3>3. QED
      BY <3>1, <3>2
  <2>6. QED
    BY <2>2, <2>3, <2>4, <2>5
<1> DEFINE node == IF disk' = [disk EXCEPT ![n] = Joined(classes)]
                   THEN Joined(classes) ELSE Signed(classes)
           tags == tagged[n] \cup classes \cup extra
<1>4. disk' = [disk EXCEPT ![n] = node] /\ tagged' = [tagged EXCEPT ![n] = tags]
  BY <1>3
<1>5. ASSUME NEW d \in Moved(classes)
      PROVE  /\ disk[n][d] \in {Bare, Empty("blank")}
             /\ node[d] \in {InGroup(Intended(d)), [InGroup(Intended(d)) EXCEPT !.tagged = TRUE]}
  <2>1. d \in free /\ d \in Disks /\ Intended(d) \in classes /\ Intended(d) \notin lost
    BY <1>1, <1>3, <1>5
  <2>2. disk[n][d] \in {Bare, Empty("blank")}
    BY <2>1
  <2>3. Joined(classes)[d] = InGroup(Intended(d))
    BY <2>1
  <2>4. Signed(classes)[d] = [InGroup(Intended(d)) EXCEPT !.tagged = TRUE]
    BY <2>1, <2>3 DEF Tag
  <2>5. QED
    BY <2>2, <2>3, <2>4
<1>6. \A d \in Disks \ Moved(classes) : node[d] = disk[n][d]
  BY DEF Tag
<1>7. node = [d \in Disks |-> node[d]]
  BY DEF Tag
<1> HIDE DEF node
<1>8. ASSUME NEW d \in Moved(classes)
      PROVE  /\ node[d] \in DiskType /\ node[d].group = Intended(d) /\ Intended(d) \in Classes
             /\ disk[n][d].group = NoGroup /\ disk[n][d].holds # "files"
  <2>1. d \in Disks /\ Intended(d) \in Classes
    BY <1>1, <1>8
  <2>2. InGroup(Intended(d)) \in DiskType /\ InGroup(Intended(d)).group = Intended(d)
        /\ InGroup(Intended(d)).holds = "volume"
    BY <2>1, MadeTypes
  <2>3. node[d] \in DiskType /\ node[d].group = Intended(d)
    <3>1. CASE node[d] = InGroup(Intended(d))
      BY <2>2, <3>1
    <3>2. CASE node[d] = [InGroup(Intended(d)) EXCEPT !.tagged = TRUE]
      BY <2>2, <3>2, DiskFacts
    <3>3. QED
      BY <1>5, <1>8, <3>1, <3>2
  <2>4. disk[n][d].group = NoGroup /\ disk[n][d].holds # "files"
    BY <1>5, <1>8 DEF Bare, InGroup, Empty
  <2>5. QED
    BY <2>1, <2>3, <2>4
<1>9. ASSUME NEW d \in Disks \ Moved(classes)
      PROVE  node[d] \in DiskType /\ (node[d].tagged => node[d].group \in Classes)
  <2>1. disk[n][d] \in DiskType /\ (disk[n][d].tagged => disk[n][d].group \in Classes)
    BY <1>1 DEF StorageIInv, TaggedAreOurs
  <2>2. QED
    BY <1>6, <2>1
<1>10. /\ node \in [Disks -> DiskType]
       /\ \A d \in Disks : node[d].tagged => node[d].group \in Classes
  BY <1>7, <1>8, <1>9
<1>11. /\ tags \in SUBSET Classes
       /\ \A c \in tags : \E d \in Disks : node[d].group = c
  <2>1. ASSUME NEW c \in tagged[n] \cup extra
        PROVE  c \in Classes /\ \E d \in Disks : node[d].group = c
    <3>1. c \in Groups(n)
      BY <1>3, <2>1 DEF StorageIInv, TagsHold
    <3>2. c \in Classes /\ \E d \in Disks : disk[n][d].group = c
      BY <3>1 DEF Groups, In
    <3>3. PICK d \in Disks : disk[n][d].group = c
      BY <3>2
    <3>4. d \notin Moved(classes)
      BY <1>8, <3>2, <3>3, NamesApart
    <3>5. QED
      BY <1>6, <3>2, <3>3, <3>4
  <2>2. ASSUME NEW c \in classes
        PROVE  c \in Classes /\ \E d \in Disks : node[d].group = c
    <3>1. PICK d \in free : c = Intended(d)
      BY <1>3, <2>2
    <3>2. d \in Moved(classes) /\ d \in Disks
      BY <1>1, <2>2, <3>1
    <3>3. QED
      BY <1>8, <3>1, <3>2
  <2>3. QED
    BY <2>1, <2>2
<1>12. run' \in RunType /\ run'.left \subseteq run'.nodes /\ faults' \in 0..MaxFaults
  BY <1>1, <1>2, <1>3, AnswersType, CutShortType DEF StrongTypeOK
<1>13. changes' \in 0..MaxChanges
  BY <1>1, <1>2 DEF StrongTypeOK
<1>14. \A d \in Disks : disk[n][d].holds = "files" \/ disk[n][d].group = Theirs => node[d] = disk[n][d]
  BY <1>6, <1>8, NamesApart
<1> HIDE DEF tags
<1>15. StorageIInv'
  BY <1>2, <1>4, <1>10, <1>11, <1>12, <1>13, NodeStep
<1>16. LeftAlone
  BY <1>4, <1>10, <1>14, NodeLeftAlone
<1>17. QED
  BY <1>15, <1>16

(* Verifying changes nothing but the run.                                *)
LEMMA VerifyVolumeGroupsKeeps ==
    ASSUME StorageIInv, NEW n \in Nodes, VerifyVolumeGroups(n)
    PROVE  StorageIInv' /\ LeftAlone
<1>1. StrongTypeOK
  BY DEF StorageIInv
<1>2. /\ run.steps # <<>> /\ (Succeeds(n) \/ Fails(n))
      /\ UNCHANGED <<disk, tagged, class, label, lvmd, changes, faults>>
  BY DEF VerifyVolumeGroups, OnNode, At
<1>3. run' \in RunType /\ run'.left \subseteq run'.nodes
  BY <1>1, <1>2, AnswersType
<1>4. QED
  BY <1>1, <1>2, <1>3, QuietStep DEF StrongTypeOK, StorageIInv, ConfigsApart

-----------------------------------------------------------------------------
(* The labels, and what helm-charts does about them                        *)

(* A label names classes: those that find-disks found.                   *)
LEMMA ApplyNodeLabelsKeeps ==
    ASSUME StorageIInv, NEW n \in Nodes, ApplyNodeLabels(n)
    PROVE  StorageIInv' /\ LeftAlone
<1>1. StrongTypeOK
  BY DEF StorageIInv
<1>2. run.steps # <<>> /\ UNCHANGED <<disk, tagged, class, lvmd, changes>>
  BY DEF ApplyNodeLabels, OnNode, At
<1>3. Shape(n) \in SUBSET Classes
  BY <1>1 DEF StrongTypeOK, RunType, FoundType, Shape
<1>4. label' \in [Nodes -> SUBSET Classes]
  <2>1. \/ label' = [label EXCEPT ![n] = IF Shape(n) = {} THEN label[n] ELSE Shape(n)]
        \/ label' = label
    BY DEF ApplyNodeLabels
  <2>2. QED
    BY <1>1, <1>3, <2>1 DEF StrongTypeOK
<1>5. (Succeeds(n) /\ UNCHANGED faults) \/ CutShort(n)
  BY DEF ApplyNodeLabels
<1>6. run' \in RunType /\ run'.left \subseteq run'.nodes /\ faults' \in 0..MaxFaults
  BY <1>1, <1>2, <1>5, AnswersType, CutShortType DEF StrongTypeOK
<1>7. QED
  BY <1>1, <1>2, <1>4, <1>6, QuietStep DEF StrongTypeOK, StorageIInv, ConfigsApart

(* Verifying the labels changes nothing but the run.                     *)
LEMMA VerifyNodeLabelsKeeps ==
    ASSUME StorageIInv, NEW n \in Nodes, VerifyNodeLabels(n)
    PROVE  StorageIInv' /\ LeftAlone
<1>1. StrongTypeOK
  BY DEF StorageIInv
<1>2. /\ run.steps # <<>> /\ (Succeeds(n) \/ Fails(n))
      /\ UNCHANGED <<disk, tagged, class, label, lvmd, changes, faults>>
  BY DEF VerifyNodeLabels, OnNode, At
<1>3. run' \in RunType /\ run'.left \subseteq run'.nodes
  BY <1>1, <1>2, AnswersType
<1>4. QED
  BY <1>1, <1>2, <1>3, QuietStep DEF StrongTypeOK, StorageIInv, ConfigsApart

(* The shapes read are sets of classes, or none when it fails.           *)
LEMMA ReadStorageShapesKeeps ==
    ASSUME StorageIInv, ReadStorageShapes
    PROVE  StorageIInv' /\ LeftAlone
<1>1. StrongTypeOK
  BY DEF StorageIInv
<1>2. run.steps # <<>> /\ UNCHANGED <<disk, tagged, class, label, lvmd, changes>>
  BY DEF ReadStorageShapes, At
<1>3. run' \in RunType /\ run'.left \subseteq run'.nodes /\ faults' \in 0..MaxFaults
  <2>1. CASE ClusterDone(TRUE, {label[n] : n \in Nodes} \ {{}}) /\ UNCHANGED faults
    <3> DEFINE shapes == {label[n] : n \in Nodes} \ {{}}
    <3>1. shapes \in SUBSET SUBSET Classes
      BY <1>1 DEF StrongTypeOK
    <3>2. ClusterDone(TRUE, shapes) /\ faults' \in 0..MaxFaults
      BY <1>1, <2>1 DEF StrongTypeOK
    <3> HIDE DEF shapes
    <3>3. QED
      BY <1>1, <1>2, <3>1, <3>2, ClusterDoneType
  <2>2. CASE Fault /\ run' = [run EXCEPT !.shapes = {}, !.disturbed = TRUE, !.steps = Tail(run.steps)]
    <3> DEFINE steps == Tail(run.steps)
    <3>1. run \in RunType /\ run.left \subseteq run.nodes
      BY <1>1 DEF StrongTypeOK
    <3>2. steps \in Seq(StepNames)
      BY <1>2, <3>1, HeadTailProperties DEF RunType
    <3>3. faults' \in 0..MaxFaults
      <4>1. faults \in 0..MaxFaults /\ MaxFaults \in Nat
        BY <1>1, ConstantsAssumption DEF StrongTypeOK
      <4>2. faults < MaxFaults /\ faults' = faults + 1
        BY <2>2 DEF Fault
      <4>3. QED
        BY <4>1, <4>2
    <3>4. run' = [run EXCEPT !.shapes = {}, !.disturbed = TRUE, !.steps = steps]
      BY <2>2
    <3> HIDE DEF steps
    <3>5. QED
      BY <3>1, <3>2, <3>3, <3>4 DEF RunType
  <2>3. QED
    BY <2>1, <2>2 DEF ReadStorageShapes
<1>4. QED
  BY <1>1, <1>2, <1>3, QuietStep DEF StrongTypeOK, StorageIInv, ConfigsApart

(* What is rendered is told apart by its shape, whatever shapes are known. *)
LEMMA RenderedApart ==
    ASSUME NEW shapes \in SUBSET SUBSET Classes, lvmd' = Rendered(shapes)
    PROVE  ConfigsApart'
<1>1. CASE shapes = {}
  BY <1>1 DEF Rendered, ConfigsApart
<1>2. CASE shapes # {}
  <2>1. ASSUME NEW config \in lvmd'
        PROVE  config.shape \subseteq Classes /\ config = Config(config.shape, FALSE)
    <3>1. \E shape \in SUBSET Classes : config = Config(shape, FALSE)
      BY <1>2, <2>1 DEF Rendered
    <3>2. QED
      BY <3>1 DEF Config
  <2>2. QED
    BY <2>1 DEF ConfigsApart
<1>3. QED
  BY <1>1, <1>2

(* The chart is installed with what was rendered.                        *)
LEMMA HelmInstallTopolvmKeeps ==
    ASSUME StorageIInv, HelmInstallTopolvm
    PROVE  StorageIInv' /\ LeftAlone
<1>1. StrongTypeOK
  BY DEF StorageIInv
<1>2. /\ run.steps # <<>> /\ UNCHANGED <<disk, tagged, class, label, changes, faults>>
      /\ lvmd' = Rendered(run.shapes)
      /\ ClusterDone(TRUE, run.shapes) \/ ClusterDone(FALSE, run.shapes)
  BY DEF HelmInstallTopolvm, At
<1>3. run.shapes \in SUBSET SUBSET Classes
  BY <1>1 DEF StrongTypeOK, RunType
<1>4. run' \in RunType /\ run'.left \subseteq run'.nodes
  BY <1>1, <1>2, <1>3, ClusterDoneType
<1>5. ConfigsApart'
  BY <1>2, <1>3, RenderedApart
<1>6. QED
  BY <1>1, <1>2, <1>4, <1>5, QuietStep DEF StrongTypeOK

-----------------------------------------------------------------------------
(* Removal, and the beginning and the end of a run                         *)

(* What goes is in a group lvmd goes by, so no disk of theirs goes.        *)
LEMMA RemoveVolumeGroupsKeeps ==
    ASSUME StorageIInv, NEW n \in Nodes, RemoveVolumeGroups(n)
    PROVE  StorageIInv' /\ LeftAlone
<1> DEFINE ours == {d \in Disks : disk[n][d].tagged \/ disk[n][d].group \in tagged[n]}
           node == [d \in Disks |-> IF d \in ours THEN Empty("blank") ELSE disk[n][d]]
           tags == {}
<1>1. StrongTypeOK /\ disk[n] \in [Disks -> DiskType] /\ tagged[n] \subseteq Classes
  BY DEF StorageIInv, StrongTypeOK
<1>2. /\ run.steps # <<>> /\ Succeeds(n) /\ UNCHANGED <<class, label, lvmd, changes, faults>>
      /\ disk' = [disk EXCEPT ![n] = node] /\ tagged' = [tagged EXCEPT ![n] = tags]
  BY DEF RemoveVolumeGroups, OnNode, At
<1>3. ASSUME NEW d \in Disks
      PROVE  /\ node[d] \in DiskType
             /\ node[d].tagged => node[d].group \in Classes
             /\ disk[n][d].holds = "files" \/ disk[n][d].group = Theirs => node[d] = disk[n][d]
  <2>1. disk[n][d] \in DiskType /\ (disk[n][d].tagged => disk[n][d].group \in Classes)
    BY <1>1 DEF StorageIInv, TaggedAreOurs
  <2>2. CASE d \notin ours
    BY <2>1, <2>2
  <2>3. CASE d \in ours
    <3>1. disk[n][d].group \in Classes
      BY <1>1, <2>1, <2>3
    <3>2. disk[n][d].holds # "files" /\ disk[n][d].group # Theirs
      BY <2>1, <3>1, DiskFacts, NamesApart
    <3>3. node[d] = Empty("blank")
      BY <2>3
    <3>4. QED
      BY <3>2, <3>3, MadeTypes
  <2>4. QED
    BY <2>2, <2>3
<1>4. node \in [Disks -> DiskType]
  BY <1>3
<1>5. run' \in RunType /\ run'.left \subseteq run'.nodes
  BY <1>1, <1>2, AnswersType
<1>6. changes' \in 0..MaxChanges /\ faults' \in 0..MaxFaults
  BY <1>1, <1>2 DEF StrongTypeOK
<1>7. /\ \A d \in Disks : node[d].tagged => node[d].group \in Classes
      /\ \A d \in Disks : disk[n][d].holds = "files" \/ disk[n][d].group = Theirs
                             => node[d] = disk[n][d]
  BY <1>3
<1>8. tags \in SUBSET Classes /\ \A c \in tags : \E d \in Disks : node[d].group = c
  OBVIOUS
<1> HIDE DEF node, tags
<1>9. StorageIInv'
  BY <1>2, <1>4, <1>5, <1>6, <1>7, <1>8, NodeStep
<1>10. LeftAlone
  BY <1>2, <1>4, <1>7, NodeLeftAlone
<1>11. QED
  BY <1>9, <1>10

(* No run is a run.                                                      *)
LEMMA IdleType == Idle \in RunType /\ Idle.left \subseteq Idle.nodes
<1>1. NothingFound \in FoundType
  BY DEF NothingFound, FoundType
<1>2. <<>> \in Seq(StepNames)
  OBVIOUS
<1> DEFINE found == [n \in Nodes |-> NothingFound]
<1>3. found \in [Nodes -> FoundType]
  BY <1>1
<1> HIDE DEF found
<1>4. Idle = [what |-> "nothing", nodes |-> {}, left |-> {}, steps |-> <<>>,
              found |-> found, shapes |-> {}, failed |-> FALSE, disturbed |-> FALSE]
  BY DEF Idle, found
<1>5. /\ {} \in SUBSET Nodes /\ {} \in SUBSET SUBSET Classes
      /\ FALSE \in BOOLEAN
  OBVIOUS
<1>6. Idle \in RunType
  BY <1>2, <1>3, <1>4, <1>5 DEF RunType
<1>7. QED
  BY <1>4, <1>6

(* A run that ends leaves everything where it is.                        *)
LEMMA EndsKeeps ==
    ASSUME StorageIInv, Ends
    PROVE  StorageIInv' /\ LeftAlone
<1>1. run' = Idle /\ UNCHANGED <<disk, tagged, class, label, lvmd, changes, faults>>
  BY DEF Ends
<1>2. run' \in RunType /\ run'.left \subseteq run'.nodes
  BY <1>1, IdleType
<1>3. QED
  BY <1>1, <1>2, QuietStep DEF StorageIInv, StrongTypeOK, ConfigsApart

(* Every pipeline is a sequence of the steps there are.                  *)
LEMMA PipelineSteps ==
    \A what \in DOMAIN Pipelines : Pipelines[what] \in Seq(StepNames)
<1>1. Lvm \in Seq(StepNames)
  <2>1. /\ "find-disks" \in StepNames /\ "tag-volume-groups" \in StepNames
        /\ "create-physical-volumes" \in StepNames /\ "create-volume-groups" \in StepNames
        /\ "verify-volume-groups" \in StepNames
    BY DEF StepNames
  <2>2. QED
    BY <2>1 DEF Lvm
<1>2. Labels \in Seq(StepNames) /\ Charts \in Seq(StepNames) /\ Remove \in Seq(StepNames)
  <2>1. /\ "apply-node-labels" \in StepNames /\ "verify-node-labels" \in StepNames
        /\ "read-storage-shapes" \in StepNames /\ "helm-install-topolvm" \in StepNames
        /\ "remove-volume-groups" \in StepNames
    BY DEF StepNames
  <2>2. QED
    BY <2>1 DEF Labels, Charts, Remove
<1>3. <<"find-disks">> \in Seq(StepNames)
  BY DEF StepNames
<1>4. /\ Lvm \o Labels \in Seq(StepNames) /\ <<"find-disks">> \o Labels \in Seq(StepNames)
      /\ (Lvm \o Labels) \o Charts \in Seq(StepNames)
  BY <1>1, <1>2, <1>3
<1>5. DOMAIN Pipelines =
         {"install", "addNode", "lvm", "nodeLabels", "helmCharts", "cleanFull"}
  BY DEF Pipelines
<1>6. /\ Pipelines["install"] = (Lvm \o Labels) \o Charts
      /\ Pipelines["addNode"] = Lvm \o Labels
      /\ Pipelines["lvm"] = Lvm
      /\ Pipelines["nodeLabels"] = <<"find-disks">> \o Labels
      /\ Pipelines["helmCharts"] = Charts
      /\ Pipelines["cleanFull"] = Remove
  BY DEF Pipelines
<1>7. QED
  BY <1>1, <1>2, <1>4, <1>5, <1>6

(* A run begins over nodes there are.                                    *)
LEMMA BeginKeeps ==
    ASSUME StorageIInv, Begin
    PROVE  StorageIInv'
<1> PICK what \in Whats : \E nodes \in Over(what) :
          run' = [Idle EXCEPT !.what = what, !.nodes = nodes, !.left = nodes,
                              !.steps = Pipelines[what]]
  BY DEF Begin
<1>1. PICK nodes \in Over(what) :
          run' = [Idle EXCEPT !.what = what, !.nodes = nodes, !.left = nodes,
                              !.steps = Pipelines[what]]
  OBVIOUS
<1>2. UNCHANGED <<disk, tagged, class, label, lvmd, changes, faults>>
  BY DEF Begin
<1>3. nodes \in SUBSET Nodes
  BY <1>1 DEF Over
<1> DEFINE steps == Pipelines[what]
<1>4. what \in DOMAIN Pipelines /\ steps \in Seq(StepNames)
  BY WhatsAssumption, PipelineSteps
<1> HIDE DEF steps
<1>5. run' = [Idle EXCEPT !.what = what, !.nodes = nodes, !.left = nodes, !.steps = steps]
  BY <1>1 DEF steps
<1>6. run' \in RunType /\ run'.left \subseteq run'.nodes
  BY <1>3, <1>4, <1>5, IdleType DEF RunType
<1>7. QED
  BY <1>2, <1>6, QuietStep DEF StorageIInv, StrongTypeOK, ConfigsApart

-----------------------------------------------------------------------------
(* What people do                                                          *)

(* A group loses its tag with the last of its disks.                       *)
LEMMA ChangedKeeps ==
    ASSUME StorageIInv, NEW n \in Nodes, NEW d \in Disks, NEW to \in DiskType,
           ~to.tagged, Changed(n, d, to)
    PROVE  StorageIInv'
<1> DEFINE node == [disk[n] EXCEPT ![d] = to]
           tags == tagged[n] \ ({disk[n][d].group} \ {node[e].group : e \in Disks})
<1>1. StrongTypeOK /\ disk[n] \in [Disks -> DiskType] /\ tagged[n] \subseteq Classes
  BY DEF StorageIInv, StrongTypeOK
<1>2. disk' = [disk EXCEPT ![n] = node] /\ disk'[n] = node
  BY <1>1 DEF Changed, StrongTypeOK
<1>3. /\ node \in [Disks -> DiskType] /\ node[d] = to
      /\ \A e \in Disks \ {d} : node[e] = disk[n][e]
  BY <1>1
<1>5. \A e \in Disks : node[e].tagged => node[e].group \in Classes
  BY <1>3 DEF StorageIInv, TaggedAreOurs
<1> HIDE DEF node
<1>4. tagged' = [tagged EXCEPT ![n] = tags]
  <2>1. {disk'[n][e].group : e \in Disks} = {node[e].group : e \in Disks}
    BY <1>2
  <2>2. tagged' = [tagged EXCEPT ![n] =
            @ \ ({disk[n][d].group} \ {disk'[n][e].group : e \in Disks})]
    BY DEF Changed
  <2>3. QED
    BY <2>1, <2>2
<1>6. tags \in SUBSET Classes /\ \A c \in tags : \E e \in Disks : node[e].group = c
  <2>1. ASSUME NEW c \in tags
        PROVE  \E e \in Disks : node[e].group = c
    <3>1. \E e \in Disks : disk[n][e].group = c
      BY <2>1 DEF StorageIInv, TagsHold, Groups, In
    <3>2. PICK e \in Disks : disk[n][e].group = c
      BY <3>1
    <3>3. QED
      BY <1>3, <2>1, <3>2
  <2>2. QED
    BY <1>1, <2>1
<1>7. run' \in RunType /\ run'.left \subseteq run'.nodes
  <2>1. run' = Idle \/ run' = [run EXCEPT !.disturbed = TRUE]
    BY DEF Changed
  <2>2. CASE run' = Idle
    BY <2>2, IdleType
  <2>3. CASE run' = [run EXCEPT !.disturbed = TRUE]
    BY <1>1, <2>3 DEF StrongTypeOK, RunType
  <2>4. QED
    BY <2>1, <2>2, <2>3
<1>8. changes' \in 0..MaxChanges /\ faults' \in 0..MaxFaults
  <2>1. /\ changes \in 0..MaxChanges /\ faults \in 0..MaxFaults
        /\ MaxChanges \in Nat
    BY <1>1, ConstantsAssumption DEF StrongTypeOK
  <2>2. changes < MaxChanges /\ changes' = changes + 1 /\ faults' = faults
    BY DEF Changed
  <2>3. QED
    BY <2>1, <2>2
<1>9. UNCHANGED <<class, label, lvmd>>
  BY DEF Changed
<1> HIDE DEF tags
<1>10. QED
  BY <1>2, <1>3, <1>4, <1>5, <1>6, <1>7, <1>8, <1>9, NodeStep

(* A disk is given another of the classes.                               *)
LEMMA ReclassifyKeeps ==
    ASSUME StorageIInv, NEW n \in Nodes, NEW d \in Disks, Reclassify(n, d)
    PROVE  StorageIInv'
<1>1. StrongTypeOK
  BY DEF StorageIInv
<1>2. UNCHANGED <<disk, tagged, label, lvmd, run, faults>>
  BY DEF Reclassify
<1>3. class' \in [Nodes -> [Disks -> Classes]]
  <2>1. PICK c \in Classes : class' = [class EXCEPT ![n][d] = c]
    BY DEF Reclassify
  <2>2. QED
    BY <1>1, <2>1 DEF StrongTypeOK
<1>4. changes' \in 0..MaxChanges
  <2>1. changes \in 0..MaxChanges /\ MaxChanges \in Nat
    BY <1>1, ConstantsAssumption DEF StrongTypeOK
  <2>2. changes < MaxChanges /\ changes' = changes + 1
    BY DEF Reclassify
  <2>3. QED
    BY <2>1, <2>2
<1>5. QED
  BY <1>1, <1>2, <1>3, <1>4, QuietStep DEF StorageIInv, StrongTypeOK, ConfigsApart

(* Whatever people do keeps the invariant.                               *)
LEMMA PeopleKeep ==
    ASSUME StorageIInv, People
    PROVE  StorageIInv'
<1>1. PICK n \in Nodes, d \in Disks :
          Fit(n, d) \/ Pull(n, d) \/ Format(n, d) \/ MakeGroup(n, d) \/ Reclassify(n, d)
  BY DEF People
<1>2. CASE Reclassify(n, d)
  BY <1>2, ReclassifyKeeps
<1>3. CASE Fit(n, d) \/ Pull(n, d) \/ Format(n, d)
  <2>1. PICK holds \in {"absent", "files", "blank"} : Changed(n, d, Empty(holds))
    BY <1>3 DEF Fit, Pull, Format
  <2>2. Empty(holds) \in DiskType /\ ~Empty(holds).tagged
    BY MadeTypes
  <2>3. QED
    BY <2>1, <2>2, ChangedKeeps
<1>4. CASE MakeGroup(n, d)
  <2>1. PICK group \in Classes \cup {Theirs} : Changed(n, d, InGroup(group))
    BY <1>4 DEF MakeGroup
  <2>2. InGroup(group) \in DiskType /\ ~InGroup(group).tagged
    BY MadeTypes
  <2>3. QED
    BY <2>1, <2>2, ChangedKeeps
<1>5. QED
  BY <1>1, <1>2, <1>3, <1>4

-----------------------------------------------------------------------------
(* The specification                                                       *)

LEMMA InitStorage == Init => StorageIInv
<1> SUFFICES ASSUME Init PROVE StorageIInv
  OBVIOUS
<1>1. \A n \in Nodes, d \in Disks :
          disk[n][d] = Empty(Fitted[n][d]) /\ Fitted[n][d] \in {"absent", "files", "blank"}
  BY ConstantsAssumption DEF Init
<1>2. disk \in [Nodes -> [Disks -> DiskType]]
  <2>1. \A n \in Nodes, d \in Disks : Empty(Fitted[n][d]) \in DiskType
    BY <1>1, MadeTypes
  <2>2. disk = [n \in Nodes |-> [d \in Disks |-> Empty(Fitted[n][d])]]
    BY DEF Init
  <2>3. QED
    BY <2>1, <2>2
<1>3. StrongTypeOK
  <2>1. run \in RunType /\ run.left \subseteq run.nodes
    BY IdleType DEF Init
  <2>2. 0 \in 0..MaxChanges /\ 0 \in 0..MaxFaults
    BY ConstantsAssumption
  <2>3. QED
    BY <1>2, <2>1, <2>2, ConstantsAssumption DEF Init, StrongTypeOK
<1>4. TagsHold
  BY DEF Init, TagsHold
<1>5. TaggedAreOurs
  BY <1>1, MadeTypes DEF TaggedAreOurs
<1>6. ConfigsApart
  BY DEF Init, ConfigsApart
<1>7. QED
  BY <1>3, <1>4, <1>5, <1>6 DEF StorageIInv

(* A step of a run keeps the invariant, and other people's disks.          *)
LEMMA StepKeeps ==
    ASSUME StorageIInv, Step
    PROVE  StorageIInv' /\ LeftAlone
<1>1. CASE \E n \in Nodes :
              \/ FindDisks(n) \/ TagVolumeGroups(n) \/ CreatePhysicalVolumes(n)
              \/ CreateVolumeGroups(n) \/ VerifyVolumeGroups(n)
              \/ ApplyNodeLabels(n) \/ VerifyNodeLabels(n) \/ RemoveVolumeGroups(n)
  BY <1>1, FindDisksKeeps, TagVolumeGroupsKeeps, CreatePhysicalVolumesKeeps,
     CreateVolumeGroupsKeeps, VerifyVolumeGroupsKeeps, ApplyNodeLabelsKeeps,
     VerifyNodeLabelsKeeps, RemoveVolumeGroupsKeeps
<1>2. CASE ReadStorageShapes \/ HelmInstallTopolvm \/ Ends
  BY <1>2, ReadStorageShapesKeeps, HelmInstallTopolvmKeeps, EndsKeeps
<1>3. QED
  BY <1>1, <1>2 DEF Step

(* So does every step.                                                   *)
LEMMA NextKeeps == StorageIInv /\ [Next]_vars => StorageIInv'
<1> SUFFICES ASSUME StorageIInv, [Next]_vars PROVE StorageIInv'
  OBVIOUS
<1>1. CASE Begin
  BY <1>1, BeginKeeps
<1>2. CASE Step
  BY <1>2, StepKeeps
<1>3. CASE People
  BY <1>3, PeopleKeep
<1>4. CASE UNCHANGED vars
  BY <1>4, QuietStep DEF vars, StorageIInv, StrongTypeOK, ConfigsApart
<1>5. QED
  BY <1>1, <1>2, <1>3, <1>4 DEF Next

(* The invariant holds throughout: a run takes a tagged group away whole,  *)
(* and people's changes take tags away with the last disk.                 *)
THEOREM StorageHolds == Spec => []StorageIInv
<1>1. QED
  BY InitStorage, NextKeeps, PTL DEF Spec

(* The type invariant is part of it.                                     *)
LEMMA TypesFollow == StorageIInv => TypeOK
<1> SUFFICES ASSUME StorageIInv PROVE TypeOK
  OBVIOUS
<1>1. StrongTypeOK /\ TagsHold
  BY DEF StorageIInv
<1>2. ASSUME NEW config \in lvmd PROVE config.serves \subseteq Classes
  <2>1. \E shape \in SUBSET Classes, everyone \in BOOLEAN : config = Config(shape, everyone)
    BY <1>2 DEF StorageIInv, ConfigsApart
  <2>2. QED
    BY <2>1 DEF Config
<1>3. run.nodes \subseteq Nodes /\ run.left \subseteq run.nodes
  BY <1>1 DEF StrongTypeOK, RunType
<1>4. QED
  BY <1>1, <1>2, <1>3 DEF StrongTypeOK, TagsHold, TypeOK

(* Two configurations that select one node have its label for their shape, *)
(* or are the one that is everyone's.                                      *)
LEMMA OneFollows == StorageIInv => OneLvmd
<1> SUFFICES ASSUME StorageIInv, NEW n \in Nodes PROVE Cardinality(Selecting(n)) <= 1
  BY DEF OneLvmd
<1>1. \A one, other \in Selecting(n) : one = other
  <2>1. CASE lvmd = {Config(Classes, TRUE)}
    BY <2>1 DEF Selecting
  <2>2. CASE \A config \in lvmd : /\ config.shape \subseteq Classes
                                  /\ config = Config(config.shape, FALSE)
    <3>1. ASSUME NEW config \in Selecting(n) PROVE config = Config(label[n], FALSE)
      <4>1. config = Config(config.shape, FALSE) /\ Selects(config, n)
        BY <2>2, <3>1 DEF Selecting
      <4>2. ~config.everyone
        BY <4>1 DEF Config
      <4>3. QED
        BY <4>1, <4>2 DEF Selects
    <3>2. QED
      BY <3>1
  <2>3. QED
    BY <2>1, <2>2 DEF StorageIInv, ConfigsApart
<1>2. CASE Selecting(n) = {}
  BY <1>2, FS_EmptySet
<1>3. CASE Selecting(n) # {}
  <2>1. PICK config : config \in Selecting(n)
    BY <1>3
  <2>2. Selecting(n) = {config}
    BY <1>1, <2>1
  <2>3. Cardinality(Selecting(n)) = 1
    BY <2>2, FS_Singleton
  <2>4. QED
    BY <2>3
<1>4. QED
  BY <1>2, <1>3

(* Whatever is rendered and however the nodes are labelled, no node is     *)
(* ever selected by two of lvmd's configurations.                          *)
THEOREM OneLvmdEach == Spec => []StorageInv
<1>1. StorageIInv => StorageInv
  BY TypesFollow, OneFollows DEF StorageInv
<1>2. QED
  BY <1>1, StorageHolds, PTL

(* No run touches a disk that holds somebody's files or is in a group of   *)
(* theirs, whatever it found on the disk before.                           *)
THEOREM OthersKept == Spec => OthersLeftAlone
<1>1. ASSUME StorageIInv, Step
      PROVE  \A n \in Nodes, d \in Disks :
                disk[n][d].holds = "files" \/ disk[n][d].group = Theirs => disk'[n][d] = disk[n][d]
  BY <1>1, StepKeeps DEF LeftAlone
<1>2. QED
  BY <1>1, StorageHolds, PTL DEF Spec, OthersLeftAlone

-----------------------------------------------------------------------------
(* NodeStorage: what an undisturbed run leaves                             *)

SettingUp == {"install", "addNode", "lvm"}

\* The steps of an install are those of the others, and some more.
SetUpOrder == <<"find-disks", "tag-volume-groups", "create-physical-volumes",
                "create-volume-groups", "verify-volume-groups",
                "apply-node-labels", "verify-node-labels",
                "read-storage-shapes", "helm-install-topolvm">>

LastStep(what) == IF what = "install" THEN 9 ELSE IF what = "addNode" THEN 7 ELSE 5

\* The place in that order the run has come to, one past its last at its end.
StepAt == LastStep(run.what) + 1 - Len(run.steps)

\* How many of the steps a node of the run has done.
DoneBy(n) == IF n \in run.left THEN StepAt - 1 ELSE StepAt

OnTheWay ==
    /\ Len(run.steps) <= LastStep(run.what)
    /\ run.steps = [i \in 1 .. Len(run.steps) |-> SetUpOrder[StepAt + i - 1]]
    /\ StepAt >= 8 \/ run.steps = <<>> => run.left = run.nodes
    /\ run.what = "install" => run.nodes = Nodes

AllTagged(n) ==
    \A d \in Disks : disk[n][d].group \in Classes =>
        disk[n][d].tagged /\ disk[n][d].group \in tagged[n]

\* What is so of a node once it has done k steps: what was found is what there
\* is, then all of it is tagged, made a volume of and put in groups, and then
\* it is what the label says.
SoFar(n, k) ==
    /\ k = 1 => run.found[n].untagged = {d \in Disks : Untagged(n, d)}
    /\ k \in 1 .. 3 =>
          /\ run.found[n].free = {d \in Disks : Free(n, d)}
          /\ run.found[n].serving = Groups(n) \cup {class[n][d] : d \in run.found[n].free}
    /\ k = 3 => \A d \in run.found[n].free : disk[n][d] = Bare
    /\ k >= 2 => AllTagged(n)
    /\ k >= 4 => run.found[n].serving = Groups(n) /\ \A d \in Disks : ~Free(n, d)
    /\ k >= 6 /\ Groups(n) # {} => label[n] = Groups(n)

SetUpInv ==
    run.what \in SettingUp /\ ~run.failed /\ ~run.disturbed =>
        /\ OnTheWay
        /\ \A n \in run.nodes : SoFar(n, DoneBy(n))
        /\ StepAt >= 9 => run.shapes = {label[n] : n \in Nodes} \ {{}}
        /\ StepAt >= 10 => lvmd = Rendered(run.shapes)

(* Where each step stands in the order, and where each run stops.          *)
LEMMA SetUpSteps ==
    /\ Len(SetUpOrder) = 9
    /\ SetUpOrder[1] = "find-disks" /\ SetUpOrder[2] = "tag-volume-groups"
    /\ SetUpOrder[3] = "create-physical-volumes" /\ SetUpOrder[4] = "create-volume-groups"
    /\ SetUpOrder[5] = "verify-volume-groups" /\ SetUpOrder[6] = "apply-node-labels"
    /\ SetUpOrder[7] = "verify-node-labels" /\ SetUpOrder[8] = "read-storage-shapes"
    /\ SetUpOrder[9] = "helm-install-topolvm"
    /\ \A what : LastStep(what) \in {5, 7, 9}
BY DEF SetUpOrder, LastStep

(* A run on its way has its place in the order, and its step is there.     *)
LEMMA HereOnTheWay ==
    ASSUME StrongTypeOK, OnTheWay, run.steps # <<>>
    PROVE  /\ StepAt \in 1 .. 9 /\ StepAt <= LastStep(run.what) /\ Len(run.steps) \in Nat
           /\ Head(run.steps) = SetUpOrder[StepAt]
           /\ Len(Tail(run.steps)) = Len(run.steps) - 1
           /\ Tail(run.steps) = [i \in 1 .. (Len(run.steps) - 1) |-> SetUpOrder[StepAt + 1 + i - 1]]
<1>1. run.steps \in Seq(StepNames)
  BY DEF StrongTypeOK, RunType
<1>2. Len(run.steps) \in Nat /\ Len(run.steps) > 0 /\ Head(run.steps) = run.steps[1]
  BY <1>1, EmptySeq
<1>3. StepAt \in 1 .. 9 /\ StepAt <= LastStep(run.what)
  <2>1. LastStep(run.what) \in {5, 7, 9}
    BY SetUpSteps
  <2>2. Len(run.steps) <= LastStep(run.what)
    BY DEF OnTheWay
  <2> QED
    BY <1>2, <2>1, <2>2 DEF StepAt
<1>4. run.steps = [i \in 1 .. Len(run.steps) |-> SetUpOrder[StepAt + i - 1]]
  BY DEF OnTheWay
<1>5. Head(run.steps) = SetUpOrder[StepAt]
  <2>1. run.steps[1] = SetUpOrder[StepAt + 1 - 1]
    BY <1>2, <1>4
  <2> QED  BY <1>2, <1>3, <2>1
<1>6. Len(Tail(run.steps)) = Len(run.steps) - 1
  BY <1>1, <1>2
<1>7. Tail(run.steps) = [i \in 1 .. (Len(run.steps) - 1) |-> SetUpOrder[StepAt + 1 + i - 1]]
  <2>1. Tail(run.steps) = [i \in 1 .. (Len(run.steps) - 1) |-> run.steps[i + 1]]
    BY <1>1, <1>2
  <2>2. \A i \in 1 .. (Len(run.steps) - 1) : run.steps[i + 1] = SetUpOrder[StepAt + 1 + i - 1]
    <3> SUFFICES ASSUME NEW i \in 1 .. (Len(run.steps) - 1)
                 PROVE  run.steps[i + 1] = SetUpOrder[StepAt + 1 + i - 1]
      OBVIOUS
    <3>1. i + 1 \in 1 .. Len(run.steps)
      BY <1>2
    <3>2. run.steps[i + 1] = SetUpOrder[StepAt + (i + 1) - 1]
      BY <1>4, <3>1
    <3>3. StepAt + (i + 1) - 1 = StepAt + 1 + i - 1
      BY <1>3
    <3> QED  BY <3>2, <3>3
  <2> QED  BY <2>1, <2>2
<1> QED  BY <1>2, <1>3, <1>5, <1>6, <1>7

(* What there is to say of a node stays while it stays as it is.           *)
LEMMA SoFarStays ==
    ASSUME NEW m, NEW k, SoFar(m, k), disk'[m] = disk[m], tagged'[m] = tagged[m],
           class'[m] = class[m], label'[m] = label[m], run'.found[m] = run.found[m]
    PROVE  SoFar(m, k)'
<1>1. Groups(m)' = Groups(m) /\ AllTagged(m)' = AllTagged(m)
  BY DEF Groups, In, AllTagged
<1>2. \A d \in Disks : Free(m, d)' = Free(m, d)
  BY DEF Free, Empty, Bare, InGroup
<1>3. \A d \in Disks : Untagged(m, d)' = Untagged(m, d)
  BY DEF Untagged, Claimed
<1>4. Bare' = Bare
  BY DEF Bare, InGroup
<1> QED  BY <1>1, <1>2, <1>3, <1>4 DEF SoFar

\* A run that may still leave what InstallLeavesServed says.
Undisturbed == run.what \in SettingUp /\ ~run.failed /\ ~run.disturbed

(* A node that has done a step has done one more of them; and if it is the *)
(* last of the nodes, the run goes on to the next step.                    *)
LEMMA ReportsMoves ==
    ASSUME StrongTypeOK, OnTheWay, Undisturbed, run.steps # <<>>, StepAt <= 7,
           NEW n \in Nodes, n \in run.left, NEW found, Reports(n, TRUE, found)
    PROVE  /\ OnTheWay' /\ Undisturbed' /\ run'.nodes = run.nodes
           /\ run'.found[n] = found /\ \A m \in Nodes \ {n} : run'.found[m] = run.found[m]
           /\ DoneBy(n)' = StepAt /\ \A m \in run.nodes \ {n} : DoneBy(m)' = DoneBy(m)
           /\ StepAt' \in 1 .. 8
<1> DEFINE left == run.left \ {n}
           steps == Onward(left, FALSE)
           all == [run.found EXCEPT ![n] = found]
<1>1. run \in RunType /\ run.left \subseteq run.nodes /\ run.failed = FALSE /\ run.steps \in Seq(StepNames)
  BY DEF StrongTypeOK, Undisturbed, RunType
<1>2. PICK next : next = IF left = {} THEN run.nodes ELSE left
  OBVIOUS
<1>3. run' = [run EXCEPT !.found = all, !.failed = FALSE, !.left = next, !.steps = steps]
  BY <1>1, <1>2 DEF Reports, RunType
<1> HIDE DEF all, steps
<1>4. /\ run'.what = run.what /\ run'.nodes = run.nodes /\ run'.failed = FALSE
      /\ run'.disturbed = run.disturbed /\ run'.found = all /\ run'.left = next /\ run'.steps = steps
  BY <1>1, <1>3 DEF RunType
<1>5. all[n] = found /\ \A m \in Nodes \ {n} : all[m] = run.found[m]
  BY <1>1 DEF RunType, all
<1>6. /\ StepAt \in 1 .. 9 /\ Len(run.steps) \in Nat
      /\ Len(Tail(run.steps)) = Len(run.steps) - 1
      /\ Tail(run.steps) = [i \in 1 .. (Len(run.steps) - 1) |-> SetUpOrder[StepAt + 1 + i - 1]]
  BY HereOnTheWay
<1>7. PICK t : t = StepAt
  OBVIOUS
<1>8. PICK l : l = Len(run.steps)
  OBVIOUS
<1>9. t = LastStep(run.what) + 1 - l /\ l <= LastStep(run.what) /\ LastStep(run.what) \in {5, 7, 9}
  BY <1>7, <1>8, SetUpSteps DEF StepAt, OnTheWay
<1>10. CASE left = {}
  <2>1. steps = Tail(run.steps) /\ run'.left = run.nodes
    BY <1>2, <1>4, <1>10 DEF steps, Onward
  <2>2. Len(run'.steps) = l - 1 /\ StepAt' = t + 1
    BY <1>4, <1>6, <1>7, <1>8, <1>9, <2>1 DEF StepAt
  <2>3. run'.steps = [i \in 1 .. Len(run'.steps) |-> SetUpOrder[StepAt' + i - 1]]
    BY <1>4, <1>6, <1>7, <1>8, <2>1, <2>2
  <2>4. OnTheWay'
    <3>1. Len(run'.steps) <= LastStep(run'.what)
      BY <1>4, <1>6, <1>8, <1>9, <2>2
    <3>2. run'.what = "install" => run'.nodes = Nodes
      BY <1>4 DEF OnTheWay
    <3> QED  BY <1>4, <2>1, <2>3, <3>1, <3>2 DEF OnTheWay, SetUpOrder
  <2>5. \A m \in run.nodes : DoneBy(m)' = t
    BY <1>4, <1>6, <1>7, <2>1, <2>2 DEF DoneBy
  <2>6. \A m \in run.nodes \ {n} : DoneBy(m) = t
    BY <1>7, <1>10 DEF DoneBy
  <2> QED  BY <1>1, <1>4, <1>5, <1>6, <1>7, <2>2, <2>4, <2>5, <2>6 DEF Undisturbed
<1>11. CASE left # {}
  <2>1. steps = run.steps /\ run'.left = left
    BY <1>2, <1>4, <1>11 DEF steps, Onward
  <2>2. StepAt' = t
    BY <1>4, <1>7, <2>1 DEF StepAt
  <2>3. OnTheWay'
    <3>1. ~(StepAt' >= 8 \/ run'.steps = << >>)
      BY <1>4, <1>6, <1>7, <2>1, <2>2
    <3>2. run'.steps = [i \in 1 .. Len(run'.steps) |-> SetUpOrder[StepAt' + i - 1]]
      BY <1>4, <1>7, <2>1, <2>2 DEF OnTheWay
    <3>3. Len(run'.steps) <= LastStep(run'.what) /\ (run'.what = "install" => run'.nodes = Nodes)
      BY <1>4, <2>1 DEF OnTheWay
    <3> QED  BY <3>1, <3>2, <3>3 DEF OnTheWay, SetUpOrder
  <2>4. DoneBy(n)' = t
    BY <2>1, <2>2 DEF DoneBy
  <2>5. \A m \in run.nodes \ {n} : DoneBy(m)' = DoneBy(m)
    BY <1>7, <2>1, <2>2 DEF DoneBy
  <2> QED  BY <1>1, <1>4, <1>5, <1>6, <1>7, <2>2, <2>3, <2>4, <2>5 DEF Undisturbed
<1> QED  BY <1>10, <1>11

(* So what is so of every node goes on, if it is of the one that worked.   *)
LEMMA NodeDone ==
    ASSUME StorageIInv, SetUpInv, Undisturbed, run.steps # <<>>, StepAt <= 7,
           NEW n \in Nodes, n \in run.left, NEW found, Reports(n, TRUE, found),
           \A m \in Nodes \ {n} :
               disk'[m] = disk[m] /\ tagged'[m] = tagged[m] /\ label'[m] = label[m],
           class' = class, NEW k, k = StepAt, SoFar(n, k)'
    PROVE  SetUpInv'
<1>1. StrongTypeOK /\ OnTheWay /\ \A m \in run.nodes : SoFar(m, DoneBy(m))
  BY DEF StorageIInv, SetUpInv, Undisturbed
<1>2. /\ OnTheWay' /\ Undisturbed' /\ run'.nodes = run.nodes
      /\ run'.found[n] = found /\ \A m \in Nodes \ {n} : run'.found[m] = run.found[m]
      /\ DoneBy(n)' = k /\ \A m \in run.nodes \ {n} : DoneBy(m)' = DoneBy(m)
      /\ StepAt' \in 1 .. 8
  BY <1>1, ReportsMoves
<1>3. ASSUME NEW m \in run'.nodes PROVE SoFar(m, DoneBy(m))'
  <2>1. CASE m = n
    <3>1. DoneBy(m)' = k /\ SoFar(m, k)'
      BY <1>2, <2>1
    <3> QED  BY <3>1 DEF SoFar
  <2>2. CASE m # n
    <3>1. PICK j : j = DoneBy(m)
      OBVIOUS
    <3>2. m \in Nodes /\ m \in run.nodes
      BY <1>1, <1>2, <1>3 DEF StrongTypeOK, RunType
    <3>3. SoFar(m, j)
      BY <1>1, <3>1, <3>2
    <3>4. SoFar(m, j)' /\ DoneBy(m)' = j
      BY <1>2, <2>2, <3>1, <3>2, <3>3, SoFarStays
    <3> QED  BY <3>4 DEF SoFar
  <2> QED  BY <2>1, <2>2
<1>4. ~(StepAt' >= 9) /\ ~(StepAt' >= 10)
  BY <1>2
<1> QED  BY <1>2, <1>3, <1>4 DEF SetUpInv

(* A run that was spoiled is no longer spoken of.                          *)
LEMMA SpoiledKeeps == ~Undisturbed' => SetUpInv'
BY DEF Undisturbed, SetUpInv

(* It stays spoiled, whatever is reported of it.                           *)
LEMMA StaysSpoiled ==
    ASSUME StrongTypeOK, ~Undisturbed,
           \/ \E n, ok, found : Reports(n, ok, found)
           \/ \E n : CutShort(n)
           \/ \E ok, shapes : ClusterDone(ok, shapes)
    PROVE  ~Undisturbed'
<1>1. run \in RunType
  BY DEF StrongTypeOK
<1>2. /\ run'.what = run.what /\ (run.disturbed => run'.disturbed) /\ (run.failed => run'.failed)
  <2>1. CASE \E n, ok, found : Reports(n, ok, found)
    BY <1>1, <2>1 DEF Reports, RunType
  <2>2. CASE \E n : CutShort(n)
    BY <1>1, <2>2 DEF CutShort, RunType
  <2>3. CASE \E ok, shapes : ClusterDone(ok, shapes)
    BY <1>1, <2>3 DEF ClusterDone, RunType
  <2> QED  BY <2>1, <2>2, <2>3
<1> QED  BY <1>2 DEF Undisturbed

(* A failure or a cut spoils the run.                                      *)
LEMMA FailureSpoils ==
    ASSUME StrongTypeOK, NEW n, Fails(n) \/ CutShort(n)
    PROVE  ~Undisturbed'
<1>1. run \in RunType
  BY DEF StrongTypeOK
<1>2. run'.failed
  <2>1. CASE Fails(n)
    BY <1>1, <2>1 DEF Fails, Reports, RunType
  <2>2. CASE CutShort(n)
    BY <1>1, <2>2 DEF CutShort, RunType
  <2> QED  BY <2>1, <2>2
<1> QED  BY <1>2 DEF Undisturbed

(* The place of a run whose next step is a node's, and what is so of the   *)
(* node: what it has done is what lies before that step.                   *)
LEMMA NodeAt ==
    ASSUME StorageIInv, SetUpInv, Undisturbed, NEW step, NEW n \in Nodes, OnNode(step, n),
           NEW k \in 1 .. 7, step = SetUpOrder[k]
    PROVE  /\ StrongTypeOK /\ OnTheWay /\ run.steps # <<>> /\ n \in run.left
           /\ StepAt = k /\ StepAt <= 7 /\ SoFar(n, k - 1)
<1>1. /\ StrongTypeOK /\ OnTheWay /\ \A m \in run.nodes : SoFar(m, DoneBy(m))
      /\ run.steps # <<>> /\ n \in run.left /\ Head(run.steps) = step
  BY DEF StorageIInv, SetUpInv, Undisturbed, OnNode, At
<1>2. StepAt \in 1 .. 9 /\ SetUpOrder[StepAt] = SetUpOrder[k]
  BY <1>1, HereOnTheWay
<1>3. StepAt = k
  BY <1>2, SetUpSteps
<1>4. n \in run.nodes /\ DoneBy(n) = k - 1
  BY <1>1, <1>3 DEF StrongTypeOK, DoneBy
<1>5. StepAt <= 7
  BY <1>3
<1> QED  BY <1>1, <1>3, <1>4, <1>5

(* What find-disks finds is what there is.                                 *)
LEMMA FindDisksGoesOn ==
    ASSUME StorageIInv, SetUpInv, NEW n \in Nodes, FindDisks(n)
    PROVE  SetUpInv'
<1>1. CASE ~Undisturbed
  BY <1>1, StaysSpoiled, SpoiledKeeps DEF FindDisks, StorageIInv
<1>2. CASE Undisturbed
  <2>1. /\ StrongTypeOK /\ OnTheWay /\ run.steps # <<>> /\ n \in run.left
        /\ StepAt = 1 /\ StepAt <= 7
    BY <1>2, NodeAt, SetUpSteps DEF FindDisks
  <2>2. Reports(n, TRUE, ReadDisks(n)) /\ UNCHANGED <<disk, tagged, class, label, lvmd>>
    BY DEF FindDisks
  <2>3. run'.found[n] = ReadDisks(n)
    <3>1. PICK found : found = ReadDisks(n)
      OBVIOUS
    <3>2. Reports(n, TRUE, found)
      BY <2>2, <3>1
    <3>3. run'.found[n] = found
      BY <1>2, <2>1, <3>2, ReportsMoves
    <3> QED  BY <3>1, <3>3
  <2>4. disk[n] \in [Disks -> DiskType] /\ \A d \in Disks : disk[n][d].tagged => disk[n][d].group \in Classes
    BY <2>1 DEF StrongTypeOK, StorageIInv, TaggedAreOurs
  <2>5. ReadDisks(n).serving = Groups(n) \cup {class[n][d] : d \in {e \in Disks : Free(n, e)}}
    <3>1. ASSUME NEW d \in Disks
          PROVE  /\ Claimed(n, d) <=> disk[n][d].group \in Classes
                 /\ Free(n, d) => disk[n][d].group \notin Classes
      <4>1. disk[n][d] \in DiskType
        BY <2>4
      <4>2. disk[n][d].group \in Classes => disk[n][d].holds = "volume"
        BY <4>1, DiskFacts, NamesApart
      <4>3. Free(n, d) => disk[n][d].group = NoGroup
        BY DEF Free, Empty, Bare, InGroup
      <4> QED  BY <2>4, <4>2, <4>3, NamesApart DEF Claimed
    <3>2. ASSUME NEW d \in Disks, Free(n, d) PROVE StorageClass(n, d) = class[n][d]
      BY <3>1, <3>2 DEF StorageClass
    <3>3. ASSUME NEW d \in Disks, Claimed(n, d) PROVE StorageClass(n, d) = disk[n][d].group
      BY <3>1, <3>3 DEF StorageClass
    <3>4. Groups(n) = {disk[n][d].group : d \in {e \in Disks : Claimed(n, e)}}
      BY <3>1 DEF Groups, In
    <3>5. ReadDisks(n).serving = {StorageClass(n, d) : d \in {e \in Disks : Free(n, e) \/ Claimed(n, e)}}
      BY DEF ReadDisks
    <3> HIDE DEF StorageClass
    <3> QED  BY <3>2, <3>3, <3>4, <3>5
  <2>6. /\ ReadDisks(n).free = {d \in Disks : Free(n, d)}
        /\ ReadDisks(n).untagged = {d \in Disks : Untagged(n, d)}
    BY DEF ReadDisks
  <2>7. PICK k : k = 1
    OBVIOUS
  <2>8. /\ Groups(n)' = Groups(n)
        /\ \A d \in Disks : Free(n, d)' = Free(n, d) /\ Untagged(n, d)' = Untagged(n, d)
    BY <2>2 DEF Groups, In, Free, Empty, Bare, InGroup, Untagged, Claimed
  <2>9. SoFar(n, k)'
    BY <2>2, <2>3, <2>5, <2>6, <2>7, <2>8 DEF SoFar
  <2>10. PICK found : Reports(n, TRUE, found)
    BY <2>2
  <2>11. \A m \in Nodes \ {n} : disk'[m] = disk[m] /\ tagged'[m] = tagged[m] /\ label'[m] = label[m]
    BY <2>2
  <2> QED  BY <1>2, <2>1, <2>2, <2>7, <2>9, <2>10, <2>11, NodeDone
<1> QED  BY <1>1, <1>2

(* A step that succeeds on a node takes it one further.                    *)
LEMMA SucceedsGoesOn ==
    ASSUME StorageIInv, SetUpInv, Undisturbed, NEW step, NEW n \in Nodes, OnNode(step, n),
           NEW k \in 1 .. 7, step = SetUpOrder[k], Succeeds(n), class' = class,
           \A m \in Nodes \ {n} :
               disk'[m] = disk[m] /\ tagged'[m] = tagged[m] /\ label'[m] = label[m],
           run'.found[n] = run.found[n] => SoFar(n, k)'
    PROVE  SetUpInv'
<1>1. /\ StrongTypeOK /\ OnTheWay /\ run.steps # <<>> /\ n \in run.left
      /\ StepAt = k /\ StepAt <= 7
  BY NodeAt
<1>2. PICK found : found = run.found[n]
  OBVIOUS
<1>3. Reports(n, TRUE, found)
  BY <1>2 DEF Succeeds
<1>4. run'.found[n] = found
  BY <1>1, <1>3, ReportsMoves
<1>5. SoFar(n, k)'
  BY <1>2, <1>4
<1> QED  BY <1>1, <1>3, <1>5, NodeDone

(* Tags are put wherever one was missing.                                  *)
LEMMA TaggingGoesOn ==
    ASSUME StorageIInv, SetUpInv, NEW n \in Nodes, TagVolumeGroups(n)
    PROVE  SetUpInv'
<1> DEFINE wanted == run.found[n].untagged
           Groupings(disks) == {disk[n][d].group : d \in disks}
<1>1. /\ OnNode("tag-volume-groups", n) /\ UNCHANGED <<class, label, lvmd, changes>>
      /\ \/ /\ tagged' = [tagged EXCEPT ![n] = @ \cup Groupings(wanted)]
            /\ disk' = [disk EXCEPT ![n] = Tag(@, wanted)]
            /\ Succeeds(n)
         \/ Fails(n) \/ CutShort(n)
  BY DEF TagVolumeGroups
<1>2. StrongTypeOK
  BY DEF StorageIInv
<1>3. CASE ~Undisturbed
  BY <1>1, <1>2, <1>3, StaysSpoiled, SpoiledKeeps DEF Succeeds, Fails
<1>4. CASE Fails(n) \/ CutShort(n)
  BY <1>2, <1>4, FailureSpoils, SpoiledKeeps
<1>5. CASE Undisturbed /\ ~(Fails(n) \/ CutShort(n))
  <2>1. /\ tagged' = [tagged EXCEPT ![n] = @ \cup Groupings(wanted)]
        /\ disk' = [disk EXCEPT ![n] = Tag(@, wanted)] /\ Succeeds(n)
    BY <1>1, <1>5
  <2>2. PICK k \in 1 .. 7 : k = 2
    OBVIOUS
  <2>3. "tag-volume-groups" = SetUpOrder[k] /\ k - 1 = 1
    BY <2>2, SetUpSteps
  <2>4. SoFar(n, 1)
    BY <1>1, <1>5, <2>3, NodeAt
  <2>5. /\ disk \in [Nodes -> [Disks -> DiskType]] /\ tagged \in [Nodes -> SUBSET Classes]
        /\ wanted = {d \in Disks : Untagged(n, d)}
        /\ run.found[n].free = {d \in Disks : Free(n, d)}
        /\ run.found[n].serving = Groups(n) \cup {class[n][d] : d \in run.found[n].free}
    BY <1>2, <2>4 DEF StrongTypeOK, SoFar
  <2>6. ASSUME NEW d \in Disks
        PROVE  /\ disk'[n][d].group = disk[n][d].group
               /\ d \notin wanted => disk'[n][d] = disk[n][d]
               /\ d \in wanted => disk'[n][d].tagged /\ disk[n][d].group \in Classes
    <3>1. disk[n][d] \in DiskType
      BY <2>5
    <3>2. disk'[n] = Tag(disk[n], wanted)
      BY <2>1, <2>5
    <3>3. disk'[n][d] = IF d \in wanted THEN [disk[n][d] EXCEPT !.tagged = TRUE] ELSE disk[n][d]
      BY <3>2 DEF Tag
    <3>4. d \in wanted => disk[n][d].group \in Classes /\ disk[n][d].holds = "volume"
      BY <2>5 DEF Untagged, Claimed
    <3>5. CASE d \in wanted
      <4>1. disk'[n][d] = [disk[n][d] EXCEPT !.tagged = TRUE]
        BY <3>3, <3>5
      <4>2. disk'[n][d].group = disk[n][d].group
        BY <3>1, <3>4, <3>5, <4>1, DiskFacts
      <4>3. disk'[n][d].tagged
        <5>1. DOMAIN disk[n][d] = {"holds", "group", "tagged"}
          BY <3>1 DEF DiskType, Empty
        <5> QED  BY <4>1, <5>1
      <4> QED  BY <3>4, <3>5, <4>2, <4>3
    <3> QED  BY <3>3, <3>5
  <2>7. Groups(n)' = Groups(n)
    BY <2>6 DEF Groups, In
  <2>8. \A d \in Disks : Free(n, d)' = Free(n, d)
    <3> SUFFICES ASSUME NEW d \in Disks PROVE Free(n, d)' = Free(n, d)
      OBVIOUS
    <3>1. CASE d \notin wanted
      BY <2>6, <3>1 DEF Free, Empty, Bare, InGroup
    <3>2. CASE d \in wanted
      <4>1. disk[n][d].group # NoGroup /\ disk'[n][d].group # NoGroup
        BY <2>6, <3>2, NamesApart
      <4> QED  BY <4>1 DEF Free, Empty, Bare, InGroup
    <3> QED  BY <3>1, <3>2
  <2>9. AllTagged(n)'
    <3> SUFFICES ASSUME NEW d \in Disks, disk'[n][d].group \in Classes
                 PROVE  disk'[n][d].tagged /\ disk'[n][d].group \in tagged'[n]
      BY DEF AllTagged
    <3>1. tagged'[n] = tagged[n] \cup Groupings(wanted)
      BY <2>1, <2>5
    <3>2. CASE d \in wanted
      BY <2>6, <3>1, <3>2
    <3>3. CASE d \notin wanted
      <4>1. disk[n][d] \in DiskType /\ disk[n][d].group \in Classes /\ ~Untagged(n, d)
        BY <2>5, <2>6, <3>3
      <4>2. disk[n][d].holds = "volume"
        BY <4>1, DiskFacts, NamesApart
      <4>3. disk[n][d].tagged /\ disk[n][d].group \in tagged[n]
        BY <4>1, <4>2 DEF Untagged, Claimed
      <4> QED  BY <2>6, <3>1, <3>3, <4>3
    <3> QED  BY <3>2, <3>3
  <2>10. run'.found[n] = run.found[n] => SoFar(n, k)'
    BY <1>1, <2>2, <2>5, <2>7, <2>8, <2>9 DEF SoFar
  <2>11. \A m \in Nodes \ {n} : disk'[m] = disk[m] /\ tagged'[m] = tagged[m] /\ label'[m] = label[m]
    BY <1>1, <2>1, <2>5
  <2> QED  BY <1>1, <1>5, <2>1, <2>3, <2>10, <2>11, SucceedsGoesOn
<1> QED  BY <1>1, <1>3, <1>4, <1>5

(* Every disk found free is a volume in no group then.                     *)
LEMMA MakingVolumesGoesOn ==
    ASSUME StorageIInv, SetUpInv, NEW n \in Nodes, CreatePhysicalVolumes(n)
    PROVE  SetUpInv'
<1> DEFINE free == run.found[n].free
           denied == {d \in free : Refuses(n, d)}
           makes == {d \in free \ denied : disk[n][d].holds # "volume"}
<1>1. /\ OnNode("create-physical-volumes", n) /\ UNCHANGED <<tagged, class, label, lvmd, changes>>
      /\ \/ /\ denied = {} /\ Succeeds(n)
            /\ disk' = [disk EXCEPT ![n] = [d \in Disks |-> IF d \in makes THEN Bare ELSE @[d]]]
         \/ Fails(n) \/ CutShort(n)
  BY DEF CreatePhysicalVolumes
<1>2. StrongTypeOK
  BY DEF StorageIInv
<1>3. CASE ~Undisturbed
  BY <1>1, <1>2, <1>3, StaysSpoiled, SpoiledKeeps DEF Succeeds, Fails
<1>4. CASE Fails(n) \/ CutShort(n)
  BY <1>2, <1>4, FailureSpoils, SpoiledKeeps
<1>5. CASE Undisturbed /\ ~(Fails(n) \/ CutShort(n))
  <2>1. /\ denied = {} /\ Succeeds(n)
        /\ disk' = [disk EXCEPT ![n] = [d \in Disks |-> IF d \in makes THEN Bare ELSE @[d]]]
    BY <1>1, <1>5
  <2>2. PICK k \in 1 .. 7 : k = 3
    OBVIOUS
  <2>3. "create-physical-volumes" = SetUpOrder[k] /\ k - 1 = 2
    BY <2>2, SetUpSteps
  <2>4. SoFar(n, 2)
    BY <1>1, <1>5, <2>3, NodeAt
  <2>5. /\ disk \in [Nodes -> [Disks -> DiskType]]
        /\ free = {d \in Disks : Free(n, d)} /\ AllTagged(n)
        /\ run.found[n].serving = Groups(n) \cup {class[n][d] : d \in free}
    BY <1>2, <2>4 DEF StrongTypeOK, SoFar
  <2>6. Bare.group = NoGroup /\ Bare.holds = "volume" /\ \A h : Empty(h).group = NoGroup /\ Empty(h).holds = h
    BY DEF Bare, InGroup, Empty
  <2>7. ASSUME NEW d \in Disks
        PROVE  /\ d \in free => disk'[n][d] = Bare /\ disk[n][d].group = NoGroup
               /\ d \notin free => disk'[n][d] = disk[n][d]
    <3>1. disk'[n] = [e \in Disks |-> IF e \in makes THEN Bare ELSE disk[n][e]]
      BY <2>1, <2>5
    <3>2. disk'[n][d] = IF d \in makes THEN Bare ELSE disk[n][d]
      BY <3>1
    <3>3. ASSUME d \in free PROVE disk[n][d] = Empty("blank") \/ disk[n][d] = Bare
      BY <2>5, <3>3 DEF Free
    <3>4. ASSUME d \in free, d \notin makes PROVE disk[n][d] = Bare
      <4>1. disk[n][d].holds = "volume"
        BY <2>1, <3>4
      <4>2. disk[n][d] # Empty("blank")
        BY <2>6, <4>1
      <4> QED  BY <3>3, <3>4, <4>2
    <3> HIDE DEF makes
    <3>5. d \notin free => d \notin makes
      BY DEF makes
    <3> QED  BY <2>6, <3>2, <3>3, <3>4, <3>5
  <2>8. Groups(n)' = Groups(n)
    <3>1. \A d \in Disks : disk'[n][d].group = disk[n][d].group
      BY <2>6, <2>7
    <3> QED  BY <3>1 DEF Groups, In
  <2>9. \A d \in Disks : Free(n, d)' <=> d \in free
    <3>1. \A d \in Disks : Free(n, d)' <=> disk'[n][d] = Empty("blank") \/ disk'[n][d] = Bare
      BY DEF Free, Empty, Bare, InGroup
    <3>2. \A d \in Disks : d \notin free => ~(disk[n][d] = Empty("blank") \/ disk[n][d] = Bare)
      BY <2>5 DEF Free
    <3> QED  BY <2>7, <3>1, <3>2
  <2>10. AllTagged(n)'
    <3>1. tagged'[n] = tagged[n]
      BY <1>1
    <3>2. \A d \in Disks : d \in free => disk'[n][d].group \notin Classes
      BY <2>6, <2>7, NamesApart
    <3> QED  BY <2>5, <2>7, <3>1, <3>2 DEF AllTagged
  <2>11. ASSUME run'.found[n] = run.found[n] PROVE SoFar(n, k)'
    <3>1. run'.found[n].free = free /\ free = {d \in Disks : Free(n, d)'}
      BY <2>5, <2>9, <2>11
    <3>2. run'.found[n].serving = Groups(n)' \cup {class'[n][d] : d \in run'.found[n].free}
      BY <1>1, <2>5, <2>8, <2>11
    <3>3. \A d \in run'.found[n].free : disk'[n][d] = Bare'
      BY <2>5, <2>7, <3>1 DEF Bare, InGroup
    <3> QED  BY <2>2, <2>10, <3>1, <3>2, <3>3 DEF SoFar
  <2>12. \A m \in Nodes \ {n} : disk'[m] = disk[m] /\ tagged'[m] = tagged[m] /\ label'[m] = label[m]
    BY <1>1, <2>1, <2>5
  <2> QED  BY <1>1, <1>5, <2>1, <2>3, <2>11, <2>12, SucceedsGoesOn
<1> QED  BY <1>1, <1>3, <1>4, <1>5

(* Then they are all in groups, tagged, and none is free.                  *)
LEMMA GroupingGoesOn ==
    ASSUME StorageIInv, SetUpInv, NEW n \in Nodes, CreateVolumeGroups(n)
    PROVE  SetUpInv'
<1> DEFINE free == run.found[n].free
           All == {class[n][d] : d \in free}
           Grouped == [disk EXCEPT ![n] =
                          [d \in Disks |-> IF d \in free /\ class[n][d] \in All
                                            THEN InGroup(class[n][d]) ELSE @[d]]]
           Whole == [Grouped EXCEPT ![n] = Tag(@, {d \in free : class[n][d] \in All})]
<1>1. /\ OnNode("create-volume-groups", n) /\ UNCHANGED <<class, label, lvmd, changes>>
      /\ \/ /\ disk' = Whole /\ tagged' = [tagged EXCEPT ![n] = @ \cup All] /\ Succeeds(n)
         \/ Fails(n) \/ CutShort(n)
  BY DEF CreateVolumeGroups
<1>2. StrongTypeOK
  BY DEF StorageIInv
<1>3. CASE ~Undisturbed
  BY <1>1, <1>2, <1>3, StaysSpoiled, SpoiledKeeps DEF Succeeds, Fails
<1>4. CASE Fails(n) \/ CutShort(n)
  BY <1>2, <1>4, FailureSpoils, SpoiledKeeps
<1>5. CASE Undisturbed /\ ~(Fails(n) \/ CutShort(n))
  <2>1. disk' = Whole /\ tagged' = [tagged EXCEPT ![n] = @ \cup All] /\ Succeeds(n)
    BY <1>1, <1>5
  <2>2. PICK k \in 1 .. 7 : k = 4
    OBVIOUS
  <2>3. "create-volume-groups" = SetUpOrder[k] /\ k - 1 = 3
    BY <2>2, SetUpSteps
  <2>4. SoFar(n, 3)
    BY <1>1, <1>5, <2>3, NodeAt
  <2>5. /\ disk \in [Nodes -> [Disks -> DiskType]] /\ tagged \in [Nodes -> SUBSET Classes]
        /\ class \in [Nodes -> [Disks -> Classes]]
        /\ free = {d \in Disks : Free(n, d)} /\ AllTagged(n) /\ \A d \in free : disk[n][d] = Bare
        /\ run.found[n].serving = Groups(n) \cup All
    BY <1>2, <2>4 DEF StrongTypeOK, SoFar
  <2>6. /\ Bare.group = NoGroup /\ \A h : Empty(h).group = NoGroup
        /\ \A g : [InGroup(g) EXCEPT !.tagged = TRUE].group = g /\ [InGroup(g) EXCEPT !.tagged = TRUE].tagged
    BY DEF Bare, InGroup, Empty
  <2>7. ASSUME NEW d \in Disks
        PROVE  /\ d \in free => disk'[n][d] = [InGroup(class[n][d]) EXCEPT !.tagged = TRUE]
               /\ d \notin free => disk'[n][d] = disk[n][d]
    <3>1. \A e \in free : class[n][e] \in All
      OBVIOUS
    <3>2. Grouped[n] = [e \in Disks |-> IF e \in free /\ class[n][e] \in All
                                        THEN InGroup(class[n][e]) ELSE disk[n][e]]
      BY <2>5
    <3>3. Grouped \in [Nodes -> [Disks -> {Grouped[n][e] : e \in Disks} \cup DiskType]]
      BY <2>5, <3>2
    <3>4. disk'[n] = Tag(Grouped[n], {e \in free : class[n][e] \in All})
      BY <2>1, <3>3
    <3>5. disk'[n][d] = IF d \in {e \in free : class[n][e] \in All}
                        THEN [Grouped[n][d] EXCEPT !.tagged = TRUE] ELSE Grouped[n][d]
      BY <3>4 DEF Tag
    <3>6. Grouped[n][d] = IF d \in free THEN InGroup(class[n][d]) ELSE disk[n][d]
      BY <3>1, <3>2
    <3> QED  BY <3>1, <3>5, <3>6
  <2>8. ASSUME NEW d \in Disks, d \in free
        PROVE  /\ disk'[n][d].group = class[n][d] /\ disk'[n][d].tagged
               /\ class[n][d] \in Classes /\ class[n][d] \in All
               /\ disk[n][d].group = NoGroup
    <3>1. disk'[n][d] = [InGroup(class[n][d]) EXCEPT !.tagged = TRUE]
      BY <2>7, <2>8
    <3>2. disk'[n][d].group = class[n][d] /\ disk'[n][d].tagged
      BY <2>6, <3>1, Zenon
    <3>3. class[n][d] \in Classes /\ class[n][d] \in All
      BY <2>5, <2>8
    <3>4. disk[n][d].group = NoGroup
      BY <2>5, <2>6, <2>8
    <3> QED  BY <3>2, <3>3, <3>4
  <2>9. Groups(n)' = Groups(n) \cup All
    <3>1. \A c \in Classes : (\E d \in Disks : disk'[n][d].group = c)
                             <=> (\E d \in Disks : disk[n][d].group = c) \/ c \in All
      <4> SUFFICES ASSUME NEW c \in Classes
                   PROVE  (\E d \in Disks : disk'[n][d].group = c)
                          <=> (\E d \in Disks : disk[n][d].group = c) \/ c \in All
        OBVIOUS
      <4>1. ASSUME NEW d \in Disks, disk'[n][d].group = c
            PROVE  (\E e \in Disks : disk[n][e].group = c) \/ c \in All
        BY <2>7, <2>8, <4>1
      <4>2. ASSUME NEW d \in Disks, disk[n][d].group = c PROVE \E e \in Disks : disk'[n][e].group = c
        <5>1. d \notin free
          BY <2>8, <4>2, NamesApart
        <5> QED  BY <2>7, <4>2, <5>1
      <4>3. ASSUME c \in All PROVE \E e \in Disks : disk'[n][e].group = c
        <5>1. PICK e \in free : c = class[n][e]
          BY <4>3
        <5>2. e \in Disks
          BY <2>5, <5>1
        <5> QED  BY <2>8, <5>1, <5>2
      <4> QED  BY <4>1, <4>2, <4>3
    <3>2. All \subseteq Classes
      BY <2>5, <2>8
    <3>3. Groups(n)' = {c \in Classes : \E d \in Disks : disk'[n][d].group = c}
      BY DEF Groups, In
    <3>4. Groups(n) = {c \in Classes : \E d \in Disks : disk[n][d].group = c}
      BY DEF Groups, In
    <3> QED  BY <3>1, <3>2, <3>3, <3>4
  <2>10. \A d \in Disks : ~Free(n, d)'
    <3> SUFFICES ASSUME NEW d \in Disks PROVE ~(disk'[n][d] = Empty("blank") \/ disk'[n][d] = Bare)
      BY DEF Free, Empty, Bare, InGroup
    <3>1. CASE d \in free
      <4>1. disk'[n][d].group \in Classes
        BY <2>8, <3>1
      <4> QED  BY <2>6, <4>1, NamesApart
    <3>2. CASE d \notin free
      <4>1. disk'[n][d] = disk[n][d] /\ ~Free(n, d)
        BY <2>5, <2>7, <3>2
      <4> QED  BY <4>1 DEF Free
    <3> QED  BY <3>1, <3>2
  <2>11. AllTagged(n)'
    <3>1. tagged'[n] = tagged[n] \cup All
      BY <2>1, <2>5
    <3> QED  BY <2>5, <2>7, <2>8, <3>1 DEF AllTagged
  <2>12. ASSUME run'.found[n] = run.found[n] PROVE SoFar(n, k)'
    <3>1. run'.found[n].serving = Groups(n)'
      BY <2>5, <2>9, <2>12
    <3> QED  BY <2>2, <2>10, <2>11, <3>1 DEF SoFar
  <2>13. \A m \in Nodes \ {n} : disk'[m] = disk[m] /\ tagged'[m] = tagged[m] /\ label'[m] = label[m]
    BY <1>1, <2>1, <2>5
  <2> QED  BY <1>1, <1>5, <2>1, <2>3, <2>12, <2>13, SucceedsGoesOn
<1> QED  BY <1>1, <1>3, <1>4, <1>5

(* A look at the groups changes nothing.                                   *)
LEMMA VerifyingGoesOn ==
    ASSUME StorageIInv, SetUpInv, NEW n \in Nodes, VerifyVolumeGroups(n)
    PROVE  SetUpInv'
<1>1. /\ OnNode("verify-volume-groups", n) /\ (Succeeds(n) \/ Fails(n))
      /\ UNCHANGED <<disk, tagged, class, label, lvmd>>
  BY DEF VerifyVolumeGroups
<1>2. StrongTypeOK
  BY DEF StorageIInv
<1>3. CASE ~Undisturbed
  BY <1>1, <1>2, <1>3, StaysSpoiled, SpoiledKeeps DEF Succeeds, Fails
<1>4. CASE Fails(n)
  BY <1>2, <1>4, FailureSpoils, SpoiledKeeps
<1>5. CASE Undisturbed /\ Succeeds(n)
  <2>1. PICK k \in 1 .. 7 : k = 5
    OBVIOUS
  <2>2. "verify-volume-groups" = SetUpOrder[k] /\ k - 1 = 4
    BY <2>1, SetUpSteps
  <2>3. SoFar(n, 4)
    BY <1>1, <1>5, <2>2, NodeAt
  <2>4. SoFar(n, 5)
    BY <2>3 DEF SoFar
  <2>5. run'.found[n] = run.found[n] => SoFar(n, k)'
    BY <1>1, <2>1, <2>4, SoFarStays
  <2>6. \A m \in Nodes \ {n} : disk'[m] = disk[m] /\ tagged'[m] = tagged[m] /\ label'[m] = label[m]
    BY <1>1
  <2> QED  BY <1>1, <1>5, <2>2, <2>5, <2>6, SucceedsGoesOn
<1> QED  BY <1>1, <1>3, <1>4, <1>5

(* A node with groups is labelled with those.                              *)
LEMMA LabellingGoesOn ==
    ASSUME StorageIInv, SetUpInv, NEW n \in Nodes, ApplyNodeLabels(n)
    PROVE  SetUpInv'
<1>1. /\ OnNode("apply-node-labels", n) /\ UNCHANGED <<disk, tagged, class, lvmd>>
      /\ \/ /\ label' = [label EXCEPT ![n] = IF Shape(n) = {} THEN @ ELSE Shape(n)]
            /\ Succeeds(n)
         \/ CutShort(n)
  BY DEF ApplyNodeLabels
<1>2. StrongTypeOK
  BY DEF StorageIInv
<1>3. CASE ~Undisturbed
  BY <1>1, <1>2, <1>3, StaysSpoiled, SpoiledKeeps DEF Succeeds, Fails
<1>4. CASE CutShort(n)
  BY <1>2, <1>4, FailureSpoils, SpoiledKeeps
<1>5. CASE Undisturbed /\ ~CutShort(n)
  <2>1. label' = [label EXCEPT ![n] = IF Shape(n) = {} THEN @ ELSE Shape(n)] /\ Succeeds(n)
    BY <1>1, <1>5
  <2>2. PICK k \in 1 .. 7 : k = 6
    OBVIOUS
  <2>3. "apply-node-labels" = SetUpOrder[k] /\ k - 1 = 5
    BY <2>2, SetUpSteps
  <2>4. SoFar(n, 5)
    BY <1>1, <1>5, <2>3, NodeAt
  <2>5. Shape(n) = Groups(n) /\ AllTagged(n) /\ \A d \in Disks : ~Free(n, d)
    BY <2>4 DEF SoFar, Shape
  <2>6. /\ Groups(n)' = Groups(n) /\ AllTagged(n)' = AllTagged(n)
        /\ \A d \in Disks : Free(n, d)' = Free(n, d)
    BY <1>1 DEF Groups, In, AllTagged, Free, Empty, Bare, InGroup
  <2>7. Groups(n) # {} => label'[n] = Groups(n)
    BY <1>2, <2>1, <2>5 DEF StrongTypeOK
  <2>8. ASSUME run'.found[n] = run.found[n] PROVE SoFar(n, k)'
    <3>1. run'.found[n].serving = Groups(n)'
      BY <2>5, <2>6, <2>8 DEF Shape
    <3> QED  BY <2>2, <2>5, <2>6, <2>7, <3>1 DEF SoFar
  <2>9. \A m \in Nodes \ {n} : disk'[m] = disk[m] /\ tagged'[m] = tagged[m] /\ label'[m] = label[m]
    BY <1>1, <1>2, <2>1 DEF StrongTypeOK
  <2> QED  BY <1>1, <1>5, <2>1, <2>3, <2>8, <2>9, SucceedsGoesOn
<1> QED  BY <1>1, <1>3, <1>4, <1>5

(* A look at the labels changes nothing.                                   *)
LEMMA CheckingLabelsGoesOn ==
    ASSUME StorageIInv, SetUpInv, NEW n \in Nodes, VerifyNodeLabels(n)
    PROVE  SetUpInv'
<1>1. /\ OnNode("verify-node-labels", n) /\ (Succeeds(n) \/ Fails(n))
      /\ UNCHANGED <<disk, tagged, class, label, lvmd>>
  BY DEF VerifyNodeLabels
<1>2. StrongTypeOK
  BY DEF StorageIInv
<1>3. CASE ~Undisturbed
  BY <1>1, <1>2, <1>3, StaysSpoiled, SpoiledKeeps DEF Succeeds, Fails
<1>4. CASE Fails(n)
  BY <1>2, <1>4, FailureSpoils, SpoiledKeeps
<1>5. CASE Undisturbed /\ Succeeds(n)
  <2>1. PICK k \in 1 .. 7 : k = 7
    OBVIOUS
  <2>2. "verify-node-labels" = SetUpOrder[k] /\ k - 1 = 6
    BY <2>1, SetUpSteps
  <2>3. SoFar(n, 6)
    BY <1>1, <1>5, <2>2, NodeAt
  <2>4. SoFar(n, 7)
    BY <2>3 DEF SoFar
  <2>5. run'.found[n] = run.found[n] => SoFar(n, k)'
    BY <1>1, <2>1, <2>4, SoFarStays
  <2>6. \A m \in Nodes \ {n} : disk'[m] = disk[m] /\ tagged'[m] = tagged[m] /\ label'[m] = label[m]
    BY <1>1
  <2> QED  BY <1>1, <1>5, <2>2, <2>5, <2>6, SucceedsGoesOn
<1> QED  BY <1>1, <1>3, <1>4, <1>5

(* A step for the whole cluster takes every node to the next one.          *)
LEMMA ClusterMoves ==
    ASSUME StorageIInv, SetUpInv, Undisturbed, run.steps # <<>>, StepAt >= 8,
           NEW shapes, ClusterDone(TRUE, shapes), UNCHANGED <<disk, tagged, class, label>>
    PROVE  /\ OnTheWay' /\ Undisturbed' /\ run'.nodes = run.nodes /\ run'.shapes = shapes
           /\ StepAt \in 8 .. 9 /\ StepAt' = StepAt + 1
           /\ \A m \in run'.nodes : SoFar(m, DoneBy(m))'
<1>1. /\ run \in RunType /\ run.failed = FALSE /\ StrongTypeOK /\ OnTheWay
      /\ run.left = run.nodes /\ \A m \in run.nodes : SoFar(m, DoneBy(m))
  BY DEF StorageIInv, StrongTypeOK, SetUpInv, Undisturbed, RunType, OnTheWay
<1>2. PICK steps : steps = Tail(run.steps)
  OBVIOUS
<1>3. run' = [run EXCEPT !.shapes = shapes, !.failed = FALSE, !.steps = steps]
  BY <1>1, <1>2 DEF ClusterDone, RunType
<1>4. /\ run'.what = run.what /\ run'.nodes = run.nodes /\ run'.failed = FALSE
      /\ run'.disturbed = run.disturbed /\ run'.found = run.found /\ run'.left = run.left
      /\ run'.steps = steps /\ run'.shapes = shapes
  BY <1>1, <1>3 DEF RunType
<1>5. /\ StepAt \in 1 .. 9 /\ Len(run.steps) \in Nat
      /\ Len(steps) = Len(run.steps) - 1
      /\ steps = [i \in 1 .. (Len(run.steps) - 1) |-> SetUpOrder[StepAt + 1 + i - 1]]
  BY <1>1, <1>2, HereOnTheWay
<1>6. PICK t : t = StepAt
  OBVIOUS
<1>7. PICK l : l = Len(run.steps)
  OBVIOUS
<1>8. t = LastStep(run.what) + 1 - l /\ l <= LastStep(run.what) /\ LastStep(run.what) \in {5, 7, 9}
  BY <1>1, <1>6, <1>7, SetUpSteps DEF StepAt, OnTheWay
<1>9. Len(run'.steps) = l - 1 /\ StepAt' = t + 1
  BY <1>4, <1>5, <1>6, <1>7, <1>8 DEF StepAt
<1>10. run'.steps = [i \in 1 .. Len(run'.steps) |-> SetUpOrder[StepAt' + i - 1]]
  BY <1>4, <1>5, <1>6, <1>7, <1>9
<1>11. OnTheWay'
  <2>1. Len(run'.steps) <= LastStep(run'.what)
    BY <1>4, <1>5, <1>7, <1>8, <1>9
  <2>2. run'.what = "install" => run'.nodes = Nodes
    BY <1>1, <1>4 DEF OnTheWay
  <2> QED  BY <1>1, <1>4, <1>10, <2>1, <2>2 DEF OnTheWay, SetUpOrder
<1>12. ASSUME NEW m \in run'.nodes PROVE SoFar(m, DoneBy(m))'
  <2>1. DoneBy(m) = t - 1 /\ DoneBy(m)' = t
    BY <1>1, <1>4, <1>5, <1>6, <1>9, <1>12 DEF DoneBy
  <2>2. SoFar(m, t - 1)
    BY <1>1, <1>4, <1>12, <2>1
  <2>3. t \in 8 .. 9
    BY <1>5, <1>6
  <2>4. SoFar(m, t)
    BY <2>2, <2>3 DEF SoFar
  <2>5. SoFar(m, t)'
    BY <1>4, <2>4, SoFarStays
  <2> QED  BY <2>1, <2>5 DEF SoFar
<1> QED  BY <1>1, <1>4, <1>5, <1>6, <1>9, <1>11, <1>12 DEF Undisturbed

(* The shapes that are read are those of the labels.                       *)
LEMMA ReadingShapesGoesOn ==
    ASSUME StorageIInv, SetUpInv, ReadStorageShapes
    PROVE  SetUpInv'
<1> DEFINE known == {label[n] : n \in Nodes} \ {{}}
<1>1. /\ run.steps # <<>> /\ Head(run.steps) = "read-storage-shapes" /\ StrongTypeOK
      /\ UNCHANGED <<disk, tagged, class, label, lvmd>>
      /\ \/ ClusterDone(TRUE, known)
         \/ run' = [run EXCEPT !.shapes = {}, !.disturbed = TRUE, !.steps = Tail(@)]
  BY DEF ReadStorageShapes, At, StorageIInv
<1>2. CASE run' = [run EXCEPT !.shapes = {}, !.disturbed = TRUE, !.steps = Tail(@)]
  <2>1. run'.disturbed
    BY <1>1, <1>2 DEF StrongTypeOK, RunType
  <2> QED  BY <2>1 DEF SetUpInv
<1>3. CASE ~Undisturbed /\ ClusterDone(TRUE, known)
  BY <1>1, <1>3, StaysSpoiled, SpoiledKeeps
<1>4. CASE Undisturbed /\ ClusterDone(TRUE, known)
  <2>1. OnTheWay
    BY <1>4 DEF SetUpInv, Undisturbed
  <2>2. StepAt = 8
    BY <1>1, <2>1, HereOnTheWay, SetUpSteps
  <2>3. PICK shapes : shapes = known /\ ClusterDone(TRUE, shapes)
    BY <1>4, Zenon
  <2>4. StepAt >= 8
    BY <2>2
  <2>5. /\ OnTheWay' /\ Undisturbed' /\ run'.nodes = run.nodes /\ run'.shapes = shapes
        /\ StepAt' = StepAt + 1
        /\ \A m \in run'.nodes : SoFar(m, DoneBy(m))'
    BY <1>1, <1>4, <2>3, <2>4, ClusterMoves
  <2>6. run'.shapes = {label'[n] : n \in Nodes} \ {{}} /\ ~(StepAt' >= 10)
    BY <1>1, <2>2, <2>3, <2>5
  <2> QED  BY <2>5, <2>6 DEF SetUpInv
<1> QED  BY <1>1, <1>2, <1>3, <1>4

(* And they are what is rendered.                                          *)
LEMMA RenderingGoesOn ==
    ASSUME StorageIInv, SetUpInv, HelmInstallTopolvm
    PROVE  SetUpInv'
<1>1. /\ run.steps # <<>> /\ Head(run.steps) = "helm-install-topolvm" /\ StrongTypeOK
      /\ UNCHANGED <<disk, tagged, class, label>> /\ lvmd' = Rendered(run.shapes)
      /\ ClusterDone(TRUE, run.shapes) \/ ClusterDone(FALSE, run.shapes)
  BY DEF HelmInstallTopolvm, At, StorageIInv
<1>2. CASE ClusterDone(FALSE, run.shapes)
  <2>1. run'.failed
    BY <1>1, <1>2 DEF ClusterDone, StrongTypeOK, RunType
  <2> QED  BY <2>1 DEF SetUpInv
<1>3. CASE ~Undisturbed /\ ClusterDone(TRUE, run.shapes)
  BY <1>1, <1>3, StaysSpoiled, SpoiledKeeps
<1>4. CASE Undisturbed /\ ClusterDone(TRUE, run.shapes)
  <2>1. OnTheWay /\ (StepAt >= 9 => run.shapes = {label[n] : n \in Nodes} \ {{}})
    BY <1>4 DEF SetUpInv, Undisturbed
  <2>2. StepAt = 9
    BY <1>1, <2>1, HereOnTheWay, SetUpSteps
  <2>3. PICK shapes : shapes = run.shapes /\ ClusterDone(TRUE, shapes)
    BY <1>4, Zenon
  <2>4. StepAt >= 8
    BY <2>2
  <2>5. /\ OnTheWay' /\ Undisturbed' /\ run'.nodes = run.nodes /\ run'.shapes = shapes
        /\ StepAt' = StepAt + 1
        /\ \A m \in run'.nodes : SoFar(m, DoneBy(m))'
    BY <1>1, <1>4, <2>3, <2>4, ClusterMoves
  <2>6. run'.shapes = {label'[n] : n \in Nodes} \ {{}} /\ lvmd' = Rendered(run'.shapes)
    BY <1>1, <2>1, <2>2, <2>3, <2>5
  <2>7. Rendered(run.shapes)' = Rendered(run'.shapes)
    BY DEF Rendered, Config
  <2> QED  BY <2>5, <2>6, <2>7 DEF SetUpInv
<1> QED  BY <1>1, <1>2, <1>3, <1>4

(* Taking the groups away is no step of these runs.                        *)
LEMMA RemovingGoesOn ==
    ASSUME StorageIInv, SetUpInv, NEW n \in Nodes, RemoveVolumeGroups(n)
    PROVE  SetUpInv'
<1>1. /\ run.steps # <<>> /\ Head(run.steps) = "remove-volume-groups" /\ StrongTypeOK /\ Succeeds(n)
  BY DEF RemoveVolumeGroups, OnNode, At, StorageIInv
<1>2. ~Undisturbed
  <2> SUFFICES ASSUME Undisturbed PROVE FALSE
    OBVIOUS
  <2>1. OnTheWay
    BY DEF SetUpInv, Undisturbed
  <2>2. StepAt \in 1 .. 9 /\ SetUpOrder[StepAt] = "remove-volume-groups"
    BY <1>1, <2>1, HereOnTheWay
  <2> QED  BY <2>2, SetUpSteps
<1> QED  BY <1>1, <1>2, StaysSpoiled, SpoiledKeeps DEF Succeeds

(* A run begins at the first of its steps, with nothing done.              *)
LEMMA BeginningGoesOn ==
    ASSUME StorageIInv, SetUpInv, Begin
    PROVE  SetUpInv'
<1>0. PICK what \in Whats : \E nodes \in Over(what) :
          run' = [Idle EXCEPT !.what = what, !.nodes = nodes, !.left = nodes, !.steps = Pipelines[what]]
  BY DEF Begin
<1>1. PICK nodes \in Over(what) :
          run' = [Idle EXCEPT !.what = what, !.nodes = nodes, !.left = nodes, !.steps = Pipelines[what]]
  BY <1>0
<1>2. /\ run'.what = what /\ run'.nodes = nodes /\ run'.left = nodes /\ run'.steps = Pipelines[what]
  BY <1>1 DEF Idle
<1>3. CASE what \notin SettingUp
  BY <1>2, <1>3 DEF SetUpInv
<1>4. CASE what \in SettingUp
  <2>1. /\ Len(Pipelines[what]) = LastStep(what)
        /\ Pipelines[what] = [i \in 1 .. LastStep(what) |-> SetUpOrder[i]]
    <3>1. Pipelines["lvm"] = Lvm /\ Pipelines["addNode"] = Lvm \o Labels
          /\ Pipelines["install"] = Lvm \o Labels \o Charts
      BY DEF Pipelines
    <3>2. Len(Lvm) = 5 /\ Len(Labels) = 2 /\ Len(Charts) = 2
      BY DEF Lvm, Labels, Charts
    <3>3. Lvm = [i \in 1 .. 5 |-> SetUpOrder[i]]
      BY DEF Lvm, SetUpOrder
    <3>4. Lvm \o Labels = [i \in 1 .. 7 |-> SetUpOrder[i]] /\ Len(Lvm \o Labels) = 7
      BY DEF Lvm, Labels, SetUpOrder
    <3>5. Lvm \o Labels \o Charts = [i \in 1 .. 9 |-> SetUpOrder[i]] /\ Len(Lvm \o Labels \o Charts) = 9
      BY DEF Lvm, Labels, Charts, SetUpOrder
    <3> QED  BY <1>4, <3>1, <3>2, <3>3, <3>4, <3>5 DEF SettingUp, LastStep
  <2>2. Len(run'.steps) = LastStep(run'.what) /\ LastStep(what) \in {5, 7, 9}
    BY <1>2, <2>1, SetUpSteps
  <2>3. StepAt' = 1
    BY <1>2, <2>2 DEF StepAt
  <2>4. run'.steps = [i \in 1 .. Len(run'.steps) |-> SetUpOrder[StepAt' + i - 1]]
    <3>1. \A i \in 1 .. LastStep(what) : 1 + i - 1 = i
      BY <2>2
    <3> QED  BY <1>2, <2>1, <2>2, <2>3, <3>1
  <2>5. what = "install" => nodes = Nodes
    BY <1>1 DEF Over
  <2>6. OnTheWay'
    BY <1>2, <2>2, <2>3, <2>4, <2>5 DEF OnTheWay, SetUpOrder
  <2>7. \A m \in run'.nodes : SoFar(m, DoneBy(m))'
    <3> SUFFICES ASSUME NEW m \in run'.nodes PROVE SoFar(m, DoneBy(m))'
      OBVIOUS
    <3>1. DoneBy(m)' = 0
      BY <1>2, <2>3 DEF DoneBy
    <3> QED  BY <3>1 DEF SoFar
  <2> QED  BY <2>3, <2>6, <2>7 DEF SetUpInv
<1> QED  BY <1>3, <1>4

(* What people do while nothing runs is nothing to it, and what they do to *)
(* a disk under a run spoils the run.                                      *)
LEMMA PeopleGoOn ==
    ASSUME StorageIInv, SetUpInv, People
    PROVE  SetUpInv'
<1>1. run \in RunType
  BY DEF StorageIInv, StrongTypeOK
<1>2. \/ run' = IF run = Idle THEN Idle ELSE [run EXCEPT !.disturbed = TRUE]
      \/ run = Idle /\ run' = run
  BY DEF People, Fit, Pull, Format, MakeGroup, Reclassify, Changed
<1>3. Idle.what = "nothing"
  BY DEF Idle
<1>4. run'.what = "nothing" \/ run'.disturbed
  BY <1>1, <1>2, <1>3 DEF RunType
<1> QED  BY <1>4 DEF SetUpInv, SettingUp

(* At first nothing runs.                                                  *)
LEMMA SetUpAtFirst == Init => SetUpInv
BY DEF Init, Idle, SetUpInv, SettingUp

(* No step breaks the invariant of a run that sets nodes up.               *)
LEMMA SetUpGoesOn == StorageIInv /\ SetUpInv /\ [Next]_vars => SetUpInv'
<1> SUFFICES ASSUME StorageIInv, SetUpInv, [Next]_vars PROVE SetUpInv'
  OBVIOUS
<1>1. CASE Begin
  BY <1>1, BeginningGoesOn
<1>2. CASE Step
  <2>1. CASE \E n \in Nodes :
                \/ FindDisks(n) \/ TagVolumeGroups(n) \/ CreatePhysicalVolumes(n)
                \/ CreateVolumeGroups(n) \/ VerifyVolumeGroups(n)
                \/ ApplyNodeLabels(n) \/ VerifyNodeLabels(n) \/ RemoveVolumeGroups(n)
    BY <2>1, FindDisksGoesOn, TaggingGoesOn, MakingVolumesGoesOn, GroupingGoesOn,
       VerifyingGoesOn, LabellingGoesOn, CheckingLabelsGoesOn, RemovingGoesOn
  <2>2. CASE ReadStorageShapes
    BY <2>2, ReadingShapesGoesOn
  <2>3. CASE HelmInstallTopolvm
    BY <2>3, RenderingGoesOn
  <2>4. CASE Ends
    BY <2>4 DEF Ends, Idle, SetUpInv, SettingUp
  <2> QED  BY <1>2, <2>1, <2>2, <2>3, <2>4 DEF Step
<1>3. CASE People
  BY <1>3, PeopleGoOn
<1>4. CASE UNCHANGED vars
  <2>1. /\ disk' = disk /\ tagged' = tagged /\ class' = class /\ label' = label
        /\ lvmd' = lvmd /\ run' = run
    BY <1>4 DEF vars
  <2>2. StepAt' = StepAt /\ OnTheWay' = OnTheWay
    BY <2>1 DEF StepAt, OnTheWay, SetUpOrder
  <2>3. ASSUME NEW m, SoFar(m, DoneBy(m)) PROVE SoFar(m, DoneBy(m))'
    <3>1. PICK k : k = DoneBy(m)
      OBVIOUS
    <3>2. DoneBy(m)' = k
      BY <2>1, <2>2, <3>1 DEF DoneBy
    <3>3. SoFar(m, k)'
      BY <2>1, <2>3, <3>1, SoFarStays
    <3> QED  BY <3>2, <3>3 DEF SoFar
  <2> QED  BY <2>1, <2>2, <2>3 DEF SetUpInv, Rendered, Config
<1> QED  BY <1>1, <1>2, <1>3, <1>4 DEF Next

\* What the promises say of a run that ends unspoiled.
EndsAsPromised ==
    Ends /\ ~run.failed /\ ~run.disturbed =>
        /\ run.what = "install" =>
              \A n \in Nodes : Groups(n) # {} =>
                  \E config \in lvmd : Selecting(n) = {config} /\ config.serves = Groups(n)
        /\ run.what = "lvm" =>
              \A n \in run.nodes :
                 /\ \A d \in Disks : disk[n][d] \notin {Empty("blank"), Bare}
                 /\ \A d \in Disks : disk[n][d].group \in Classes =>
                        disk[n][d].tagged /\ disk[n][d].group \in tagged[n]
        /\ run.what \in {"addNode", "install"} =>
              \A n \in run.nodes : Groups(n) # {} => label[n] = Groups(n)

(* At the end of such a run the invariant is what is promised.             *)
LEMMA SetUpAsPromised == StorageIInv /\ SetUpInv => EndsAsPromised
<1> SUFFICES ASSUME StorageIInv, SetUpInv, Ends, ~run.failed, ~run.disturbed,
                    run.what \in SettingUp
             PROVE  EndsAsPromised
  BY DEF EndsAsPromised, SettingUp
<1>1. /\ OnTheWay /\ \A n \in run.nodes : SoFar(n, DoneBy(n))
      /\ StepAt >= 9 => run.shapes = {label[n] : n \in Nodes} \ {{}}
      /\ StepAt >= 10 => lvmd = Rendered(run.shapes)
      /\ run.steps = <<>> /\ StrongTypeOK
  BY DEF SetUpInv, Ends, StorageIInv
<1>2. StepAt = LastStep(run.what) + 1 /\ run.left = run.nodes
  BY <1>1, SetUpSteps DEF StepAt, OnTheWay
<1>3. \A n \in run.nodes : SoFar(n, LastStep(run.what))
  <2>1. \A n \in run.nodes : DoneBy(n) = LastStep(run.what)
    BY <1>2, SetUpSteps DEF DoneBy
  <2> QED  BY <1>1, <2>1
<1>4. ASSUME run.what = "lvm", NEW n \in run.nodes, NEW d \in Disks
      PROVE  /\ disk[n][d] \notin {Empty("blank"), Bare}
             /\ disk[n][d].group \in Classes => disk[n][d].tagged /\ disk[n][d].group \in tagged[n]
  <2>1. SoFar(n, 5)
    BY <1>3, <1>4 DEF LastStep
  <2> QED  BY <2>1 DEF SoFar, AllTagged, Free
<1>5. ASSUME run.what \in {"addNode", "install"}, NEW n \in run.nodes, Groups(n) # {}
      PROVE  label[n] = Groups(n)
  <2>1. SoFar(n, 7) \/ SoFar(n, 9)
    BY <1>3, <1>5 DEF LastStep
  <2> QED  BY <1>5, <2>1 DEF SoFar
<1>6. ASSUME run.what = "install", NEW n \in Nodes, Groups(n) # {}
      PROVE  \E config \in lvmd : Selecting(n) = {config} /\ config.serves = Groups(n)
  <2>1. lvmd = Rendered(run.shapes) /\ run.shapes = {label[m] : m \in Nodes} \ {{}}
    BY <1>1, <1>2, <1>6 DEF LastStep
  <2>2. label[n] = Groups(n) /\ Groups(n) \in run.shapes
    <3>1. run.nodes = Nodes
      BY <1>1, <1>6 DEF OnTheWay
    <3> QED  BY <1>5, <1>6, <2>1, <3>1
  <2> DEFINE config == Config(Groups(n), FALSE)
  <2>3. lvmd = {Config(Classes, FALSE)} \cup {Config(shape, FALSE) : shape \in run.shapes \ {Classes}}
    BY <2>1, <2>2 DEF Rendered
  <2>4. config \in lvmd
    BY <2>2, <2>3
  <2>5. config.serves = Groups(n) /\ config.shape = Groups(n) /\ config.everyone = FALSE
    BY DEF Config
  <2>6. \A c \in lvmd : c = Config(c.shape, FALSE) /\ c.everyone = FALSE
    <3>1. \A s : Config(s, FALSE).shape = s /\ Config(s, FALSE).everyone = FALSE
      BY DEF Config
    <3> QED  BY <2>3, <3>1
  <2> HIDE DEF config
  <2>7. Selecting(n) = {c \in lvmd : c.shape = Groups(n)}
    BY <2>2, <2>6 DEF Selecting, Selects
  <2>8. \A c \in lvmd : c.shape = Groups(n) <=> c = config
    BY <2>5, <2>6 DEF config
  <2>9. Selecting(n) = {config}
    BY <2>4, <2>7, <2>8
  <2> QED  BY <2>4, <2>5, <2>9
<1> QED  BY <1>4, <1>5, <1>6 DEF EndsAsPromised

(* An install, a new node's set-up or the lvm bundle that nothing          *)
(* disturbed leaves what is promised of it, over whatever runs that were   *)
(* cut short or people left before it: nothing half made, labels that say  *)
(* which groups there are, and one lvmd that serves just those             *)
(* (commands/LVM.ts, NodeLabels.ts, util/storage.ts).                      *)
THEOREM RunsLeaveServed == Spec => InstallLeavesServed
<1>1. Init => StorageIInv /\ SetUpInv
  BY InitStorage, SetUpAtFirst
<1>2. StorageIInv /\ SetUpInv /\ [Next]_vars => (StorageIInv /\ SetUpInv)'
  BY NextKeeps, SetUpGoesOn
<1>3. StorageIInv /\ SetUpInv =>
          /\ Finished({"install"}) /\ ~run.disturbed =>
                \A n \in Nodes : Groups(n) # {} =>
                   \E config \in lvmd : Selecting(n) = {config} /\ config.serves = Groups(n)
          /\ Finished({"lvm"}) /\ ~run.disturbed =>
                \A n \in run.nodes :
                   /\ \A d \in Disks : disk[n][d] \notin {Empty("blank"), Bare}
                   /\ \A d \in Disks : disk[n][d].group \in Classes =>
                          disk[n][d].tagged /\ disk[n][d].group \in tagged[n]
          /\ Finished({"addNode", "install"}) /\ ~run.disturbed =>
                \A n \in run.nodes : Groups(n) # {} => label[n] = Groups(n)
  BY SetUpAsPromised DEF EndsAsPromised, Finished
<1> QED  BY <1>1, <1>2, <1>3, PTL DEF Spec, InstallLeavesServed, InstallServes, LvmTakesAll, LabelledAsServed

-----------------------------------------------------------------------------
(* Plugins: what a run has come to                                         *)

FingerprintType == PluginName \X Version \X Template

SourceType == {s \in Shelved : s.kind # "broken"}

\* Everything there could be to install.
Offers ==
    {ShippedOffers[a] : a \in DOMAIN Shipped} \union
    UNION {{Additions(p, v)[j] : j \in DOMAIN Additions(p, v)} : p \in PluginName, v \in Version}

PluginsTypes ==
    /\ shelf \in [Item -> Shelved]
    /\ enabled \in SUBSET PluginName
    /\ approved \in [PluginName -> FingerprintType \union {NotGiven}]
    /\ printed \in [PluginName -> FingerprintType \union {NotGiven}]
    /\ edits \in 0..MaxEdits
    /\ edited \in SUBSET PluginName
    /\ touched \in SUBSET Item
    /\ at \in {"idle", "finding", "loading", "running", "refused"}
    /\ sources \in [Item -> SourceType]
    /\ available \in [PluginName -> [item : Item, manifest : Version \union {0}]]
    /\ loaded \in SUBSET enabled
    /\ offered \in Seq(Offers)
    /\ rendered \in SUBSET (loaded \X Template)

\* What a run has come to by its place.
GotTo ==
    /\ at = "idle" =>
          /\ refused = "nothing"
          /\ available = [p \in PluginName |-> NotFound]
          /\ sources = [i \in Item |-> NotThere]
    /\ at \in {"idle", "finding"} => loaded = {}
    /\ at = "running" => Wanted = {}

\* A manifest was read from where its plugin is, and is still what is there,
\* as far as that can be known.
ReadThere(p) ==
    LET i == available[p].item
    IN  /\ available[p].manifest \in Version
        /\ sources[i].kind \in {"directory", "archive"}
        /\ Settled(p) => /\ FilesOf(i).kind # "none" /\ FilesOf(i).plugin = p
                         /\ FilesOf(i).manifest = available[p].manifest
        /\ p \notin edited /\ sources[i].kind = "directory" => p \in PluginsAt(shelf[i])

ManifestsRead == \A p \in PluginName : available[p] # NotFound => ReadThere(p)

\* A plugin nobody changed since it was approved is as it was approved.
KnownApproved ==
    \A p \in PluginName \ edited : approved[p] # NotGiven =>
        /\ \A i \in Item : p \in PluginsAt(shelf[i]) => Fingerprint(shelf[i]) = approved[p]
        /\ \A i \in Item : sources[i].kind = "archive" /\ sources[i].plugin = p
              => Fingerprint(sources[i]) = approved[p]

\* One that is loaded was approved, and is there with all it adds.
LoadedWhole(p) ==
    /\ available[p] # NotFound /\ approved[p] # NotGiven
    /\ Settled(p) => Fingerprint(FilesOf(available[p].item)) = approved[p]
    /\ \A j \in DOMAIN Additions(p, available[p].manifest) :
          \E a \in DOMAIN offered : offered[a] = Additions(p, available[p].manifest)[j]

AllLoadedWhole == \A p \in loaded : LoadedWhole(p)

RenderedAsApproved ==
    \A p \in loaded : Settled(p) => \A r \in rendered : r[1] = p => r[2] = approved[p][3]

ShippedStays == \A a \in DOMAIN Shipped : a \in DOMAIN offered /\ offered[a] = ShippedOffers[a]

NamedOnce == \A a, b \in DOMAIN offered : a # b => offered[a].is # offered[b].is

PluginsIInv ==
    /\ PluginsTypes
    /\ GotTo
    /\ ManifestsRead
    /\ KnownApproved
    /\ AllLoadedWhole
    /\ RenderedAsApproved
    /\ ShippedStays
    /\ NamedOnce
    /\ AskedOnce

-----------------------------------------------------------------------------
(* The plugin directory                                                    *)

(* What there is to know of what is in a place.                            *)
LEMMA ShelvedFacts ==
    ASSUME NEW x \in Shelved
    PROVE  /\ x.kind \in {"none", "directory", "archive", "broken"}
           /\ x.plugin \in PluginName /\ x.manifest \in Version /\ x.template \in Template
           /\ PluginsAt(x) \subseteq {x.plugin}
           /\ x.kind \in {"directory", "archive"} => PluginsAt(x) = {x.plugin}
           /\ x.kind \in {"none", "broken"} => PluginsAt(x) = {}
           /\ Fingerprint(x) \in FingerprintType
           /\ Fingerprint(x)[1] = x.plugin /\ Fingerprint(x)[2] = x.manifest
           /\ Fingerprint(x)[3] = x.template
<1>1. Listed[1] \in PluginName /\ 1 \in Version /\ 1 \in Template
  BY PluginsAssumption DEF PluginName
<1>2. /\ x.kind \in {"none", "directory", "archive", "broken"}
      /\ x.plugin \in PluginName /\ x.manifest \in Version /\ x.template \in Template
  BY <1>1 DEF Shelved, NotThere
<1>3. QED
  BY <1>2 DEF PluginsAt, Fingerprint, FingerprintType

LEMMA NothingThere ==
    NotThere \in SourceType /\ NotThere.kind = "none"
BY PluginsAssumption DEF NotThere, SourceType, Shelved, PluginName

LEMMA NotFoundType ==
    /\ NotFound \in [item : Item, manifest : Version \union {0}]
    /\ \A i, v \in Version : [item |-> i, manifest |-> v] # NotFound
BY PluginsAssumption DEF NotFound

LEMMA FilesType ==
    ASSUME PluginsTypes, NEW i \in Item
    PROVE  /\ FilesOf(i) \in Shelved
           /\ FilesOf(i).kind \in {"none", "directory", "archive"}
BY NothingThere DEF PluginsTypes, FilesOf, OnDisk, SourceType

(* Nothing is found of the plugins while no run is under way.              *)
LEMMA IdleKnows ==
    ASSUME GotTo, at = "idle"
    PROVE  /\ \A p \in PluginName : available[p] = NotFound
           /\ loaded = {} /\ \A i \in Item : sources[i].kind = "none"
BY NothingThere DEF GotTo

(* A change is noticed: of what a run has read, only archives are sure.    *)
LEMMA EditKeeps ==
    ASSUME PluginsIInv, NEW i \in Item, Edit(i)
    PROVE  PluginsIInv'
<1>1. PluginsTypes /\ GotTo
  BY DEF PluginsIInv
<1>2. PICK new \in Shelved :
          /\ shelf' = [shelf EXCEPT ![i] = new]
          /\ edited' = edited \union
                (IF Repackaged(shelf[i], new) THEN {} ELSE PluginsAt(shelf[i]) \union PluginsAt(new))
  BY DEF Edit
<1>3. /\ edits < MaxEdits /\ edits' = edits + 1
      /\ touched' = IF at = "idle" THEN touched ELSE touched \union {i}
      /\ UNCHANGED <<enabled, approved, printed, at, refused, sources, available, loaded,
                     offered, rendered>>
  BY DEF Edit
<1>4. /\ shelf' \in [Item -> Shelved] /\ shelf'[i] = new
      /\ \A j \in Item \ {i} : shelf'[j] = shelf[j]
  BY <1>1, <1>2 DEF PluginsTypes
<1>5. shelf[i] \in Shelved
  BY <1>1 DEF PluginsTypes
<1>6. edited' \in SUBSET PluginName /\ edited \subseteq edited'
  BY <1>1, <1>2, <1>5, ShelvedFacts DEF PluginsTypes
<1>7. edits' \in 0..MaxEdits
  <2>1. edits \in 0..MaxEdits /\ MaxEdits \in Nat
    BY <1>1, PluginsAssumption DEF PluginsTypes
  <2>2. QED
    BY <1>3, <2>1
<1>8. PluginsTypes'
  BY <1>1, <1>3, <1>4, <1>6, <1>7 DEF PluginsTypes
<1>9. GotTo'
  BY <1>1, <1>3 DEF GotTo, Wanted
<1>10. ASSUME NEW p \in PluginName, p \notin edited'
       PROVE  /\ p \in PluginsAt(shelf[i]) <=> p \in PluginsAt(new)
              /\ p \in PluginsAt(new) => Fingerprint(new) = Fingerprint(shelf[i])
  <2>1. CASE Repackaged(shelf[i], new)
    <3>1. /\ PluginsAt(shelf[i]) # {} /\ PluginsAt(new) # {}
          /\ new = [shelf[i] EXCEPT !.kind = new.kind]
      BY <2>1 DEF Repackaged
    <3>2. shelf[i].kind # "none"
      BY <3>1, <1>5, ShelvedFacts
    <3>3. new.plugin = shelf[i].plugin /\ new.manifest = shelf[i].manifest
          /\ new.template = shelf[i].template
      BY <3>1, <3>2, <1>5 DEF Shelved
    <3>4. PluginsAt(shelf[i]) = {shelf[i].plugin} /\ PluginsAt(new) = {new.plugin}
      BY <3>1 DEF PluginsAt
    <3>5. QED
      BY <3>3, <3>4 DEF Fingerprint
  <2>2. CASE ~Repackaged(shelf[i], new)
    BY <1>2, <1>10, <2>2
  <2>3. QED
    BY <2>1, <2>2
<1>11. ASSUME NEW p \in PluginName, available[p] # NotFound, Settled(p)'
       PROVE  Settled(p) /\ FilesOf(available[p].item)' = FilesOf(available[p].item)
  <2> DEFINE j == available[p].item
  <2>1. j \in Item /\ at # "idle"
    BY <1>1, <1>11, IdleKnows DEF PluginsTypes
  <2>2. touched' = touched \union {i}
    BY <1>3, <2>1
  <2>3. CASE sources[j].kind = "archive"
    BY <1>3, <2>3 DEF Settled, FilesOf
  <2>4. CASE sources[j].kind # "archive"
    <3>1. j \notin touched /\ j # i
      BY <1>3, <1>11, <2>2, <2>4 DEF Settled
    <3>2. shelf'[j] = shelf[j]
      BY <1>4, <2>1, <3>1
    <3>3. QED
      BY <1>3, <3>1, <3>2 DEF Settled, FilesOf, OnDisk
  <2>5. QED
    BY <2>3, <2>4
<1>12. ManifestsRead'
  <2>1. SUFFICES ASSUME NEW p \in PluginName, available[p] # NotFound
                 PROVE  ReadThere(p)'
    BY <1>3 DEF ManifestsRead
  <2> DEFINE j == available[p].item
  <2>2. ReadThere(p) /\ j \in Item
    BY <1>1, <2>1 DEF PluginsIInv, ManifestsRead, PluginsTypes
  <2>3. Settled(p)' => /\ FilesOf(j)'.kind # "none" /\ FilesOf(j)'.plugin = p
                       /\ FilesOf(j)'.manifest = available[p].manifest
    BY <1>11, <2>1, <2>2 DEF ReadThere
  <2>4. ASSUME p \notin edited', sources[j].kind = "directory"
        PROVE  p \in PluginsAt(shelf'[j])
    <3>1. p \in PluginsAt(shelf[j])
      BY <1>6, <2>2, <2>4 DEF ReadThere
    <3>2. QED
      BY <1>4, <1>10, <2>2, <2>4, <3>1
  <2>5. sources[j].kind \in {"directory", "archive"} /\ available[p].manifest \in Version
    BY <2>2 DEF ReadThere
  <2>6. QED
    BY <1>3, <2>3, <2>4, <2>5 DEF ReadThere
<1>13. KnownApproved'
  <2>1. SUFFICES ASSUME NEW p \in PluginName, p \notin edited', approved[p] # NotGiven
                 PROVE  /\ \A j \in Item : p \in PluginsAt(shelf'[j]) => Fingerprint(shelf'[j]) = approved[p]
                        /\ \A j \in Item : sources[j].kind = "archive" /\ sources[j].plugin = p
                              => Fingerprint(sources[j]) = approved[p]
    BY <1>3 DEF KnownApproved
  <2>2. /\ \A j \in Item : p \in PluginsAt(shelf[j]) => Fingerprint(shelf[j]) = approved[p]
        /\ \A j \in Item : sources[j].kind = "archive" /\ sources[j].plugin = p
              => Fingerprint(sources[j]) = approved[p]
    BY <1>6, <2>1 DEF PluginsIInv, KnownApproved
  <2>3. QED
    BY <1>4, <1>10, <2>1, <2>2
<1>14. AllLoadedWhole'
  <2>1. SUFFICES ASSUME NEW p \in loaded PROVE LoadedWhole(p)'
    BY <1>3 DEF AllLoadedWhole
  <2>2. LoadedWhole(p) /\ p \in PluginName
    BY <1>1 DEF PluginsIInv, AllLoadedWhole, PluginsTypes
  <2>3. Settled(p)' => Fingerprint(FilesOf(available[p].item)') = approved[p]
    BY <1>11, <2>2 DEF LoadedWhole
  <2>4. QED
    BY <1>3, <2>2, <2>3 DEF LoadedWhole, Fingerprint
<1>15. RenderedAsApproved'
  <2>1. ASSUME NEW p \in loaded, Settled(p)' PROVE Settled(p)
    BY <1>1, <1>11, <2>1 DEF PluginsIInv, AllLoadedWhole, LoadedWhole, PluginsTypes
  <2>2. QED
    BY <1>3, <2>1 DEF PluginsIInv, RenderedAsApproved
<1>16. ShippedStays' /\ NamedOnce' /\ AskedOnce'
  BY <1>3, <1>6 DEF PluginsIInv, ShippedStays, NamedOnce, AskedOnce
<1>17. QED
  BY <1>8, <1>9, <1>12, <1>13, <1>14, <1>15, <1>16 DEF PluginsIInv

(* Approving what is printed: what isn't as printed counts as changed.     *)
LEMMA ApproveKeeps ==
    ASSUME PluginsIInv, NEW p \in PluginName, Approve(p)
    PROVE  PluginsIInv'
<1>1. PluginsTypes /\ GotTo /\ KnownApproved /\ at = "idle"
  BY DEF PluginsIInv, Approve
<1>2. /\ printed[p] # NotGiven
      /\ approved' = [approved EXCEPT ![p] = printed[p]]
      /\ edited' = IF \A i \in Item : p \in PluginsAt(shelf[i]) => Fingerprint(shelf[i]) = printed[p]
                   THEN edited \ {p} ELSE edited \union {p}
      /\ UNCHANGED <<shelf, enabled, printed, edits, touched, at, refused, sources, available, loaded,
                     offered, rendered>>
  BY DEF Approve
<1>3. /\ \A q \in PluginName : available[q] = NotFound
      /\ loaded = {} /\ \A i \in Item : sources[i].kind = "none"
  BY <1>1, IdleKnows
<1>4. /\ approved' \in [PluginName -> FingerprintType \union {NotGiven}]
      /\ approved'[p] = printed[p] /\ \A q \in PluginName \ {p} : approved'[q] = approved[q]
  BY <1>1, <1>2 DEF PluginsTypes
<1>5. PluginsTypes'
  BY <1>1, <1>2, <1>4 DEF PluginsTypes
<1>6. GotTo' /\ ManifestsRead'
  BY <1>1, <1>2, <1>3 DEF GotTo, Wanted, ManifestsRead
<1>7. KnownApproved'
  <2>1. SUFFICES ASSUME NEW q \in PluginName, q \notin edited', approved'[q] # NotGiven
                 PROVE  \A i \in Item : q \in PluginsAt(shelf[i]) => Fingerprint(shelf[i]) = approved'[q]
    BY <1>2, <1>3 DEF KnownApproved
  <2>2. CASE q = p
    BY <1>2, <1>4, <2>1, <2>2
  <2>3. CASE q # p
    BY <1>1, <1>2, <1>4, <2>1, <2>3 DEF KnownApproved
  <2>4. QED
    BY <2>2, <2>3
<1>8. AllLoadedWhole' /\ RenderedAsApproved'
  BY <1>2, <1>3 DEF AllLoadedWhole, RenderedAsApproved
<1>9. refused' \notin PluginName
  BY <1>1, <1>2, PluginsAssumption DEF GotTo
<1>10. ShippedStays' /\ NamedOnce' /\ AskedOnce'
  BY <1>2, <1>9 DEF PluginsIInv, ShippedStays, NamedOnce, AskedOnce
<1>11. QED
  BY <1>5, <1>6, <1>7, <1>8, <1>10 DEF PluginsIInv

(* Enabling and disabling.                                                 *)
LEMMA ToggleKeeps ==
    ASSUME PluginsIInv, NEW p \in PluginName, Toggle(p)
    PROVE  PluginsIInv'
<1>1. PluginsTypes /\ GotTo /\ KnownApproved /\ at = "idle"
  BY DEF PluginsIInv, Toggle
<1>2. /\ enabled' = IF p \in enabled THEN enabled \ {p} ELSE enabled \union {p}
      /\ UNCHANGED <<shelf, approved, printed, edits, edited, touched, at, refused, sources, available,
                     loaded, offered, rendered>>
  BY DEF Toggle
<1>3. (\A q \in PluginName : available[q] = NotFound) /\ loaded = {}
  BY <1>1, IdleKnows
<1>4. PluginsTypes'
  BY <1>1, <1>2, <1>3 DEF PluginsTypes
<1>5. GotTo' /\ ManifestsRead' /\ KnownApproved' /\ AllLoadedWhole' /\ RenderedAsApproved'
  BY <1>1, <1>2, <1>3 DEF GotTo, ManifestsRead, KnownApproved, AllLoadedWhole, RenderedAsApproved
<1>6. ShippedStays' /\ NamedOnce' /\ AskedOnce'
  BY <1>2 DEF PluginsIInv, ShippedStays, NamedOnce, AskedOnce
<1>7. QED
  BY <1>4, <1>5, <1>6 DEF PluginsIInv

-----------------------------------------------------------------------------
(* Finding                                                                 *)

(* An archive is read whole when it is found.                              *)
LEMMA DiscoverKeeps ==
    ASSUME PluginsIInv, Discover
    PROVE  PluginsIInv'
<1>1. PluginsTypes /\ GotTo /\ KnownApproved /\ at = "idle"
  BY DEF PluginsIInv, Discover
<1>2. /\ at' = IF Wanted = {} THEN "running" ELSE "finding"
      /\ sources' = IF Wanted = {} THEN sources ELSE [i \in Item |-> Found(i)]
      /\ touched' = {}
      /\ UNCHANGED <<shelf, enabled, approved, printed, edits, edited, refused, available, loaded,
                     offered, rendered>>
  BY DEF Discover
<1>3. /\ \A q \in PluginName : available[q] = NotFound
      /\ loaded = {} /\ \A i \in Item : sources[i].kind = "none"
  BY <1>1, IdleKnows
<1>4. ASSUME NEW i \in Item
      PROVE  /\ sources'[i] \in SourceType
             /\ sources'[i].kind = "archive" => sources'[i] = shelf[i]
  <2>1. shelf[i] \in Shelved /\ sources[i] \in SourceType
    BY <1>1 DEF PluginsTypes
  <2>2. Found(i) \in SourceType /\ (Found(i).kind = "archive" => Found(i) = shelf[i])
    BY <2>1, NothingThere DEF Found, SourceType
  <2>3. QED
    BY <1>2, <1>3, <2>1, <2>2
<1>5. sources' \in [Item -> SourceType]
  <2>1. sources \in [Item -> SourceType]
    BY <1>1 DEF PluginsTypes
  <2>2. CASE Wanted = {}
    BY <1>2, <2>1, <2>2
  <2>3. CASE Wanted # {}
    <3>1. sources' = [i \in Item |-> Found(i)]
      BY <1>2, <2>3
    <3>2. \A i \in Item : Found(i) \in SourceType
      BY <1>4, <3>1
    <3>3. QED
      BY <3>1, <3>2
  <2>4. QED
    BY <2>2, <2>3
<1>6. PluginsTypes'
  BY <1>1, <1>2, <1>5 DEF PluginsTypes
<1>7. GotTo' /\ ManifestsRead'
  BY <1>1, <1>2, <1>3 DEF GotTo, Wanted, ManifestsRead
<1>8. KnownApproved'
  <2>1. SUFFICES ASSUME NEW q \in PluginName, q \notin edited, approved[q] # NotGiven,
                        NEW i \in Item, sources'[i].kind = "archive", sources'[i].plugin = q
                 PROVE  Fingerprint(sources'[i]) = approved[q]
    BY <1>1, <1>2 DEF KnownApproved
  <2>2. sources'[i] = shelf[i] /\ q \in PluginsAt(shelf[i])
    BY <1>4, <2>1 DEF PluginsAt
  <2>3. QED
    BY <1>1, <2>1, <2>2 DEF KnownApproved
<1>9. AllLoadedWhole' /\ RenderedAsApproved'
  BY <1>2, <1>3 DEF AllLoadedWhole, RenderedAsApproved
<1>10. ShippedStays' /\ NamedOnce' /\ AskedOnce'
  BY <1>2 DEF PluginsIInv, ShippedStays, NamedOnce, AskedOnce
<1>11. QED
  BY <1>6, <1>7, <1>8, <1>9, <1>10 DEF PluginsIInv

(* A manifest is known by the place it was read from.                      *)
LEMMA ReadManifestKeeps ==
    ASSUME PluginsIInv, NEW i \in Item, ReadManifest(i)
    PROVE  PluginsIInv'
<1>1. /\ PluginsTypes /\ GotTo /\ ManifestsRead /\ KnownApproved
      /\ at = "finding" /\ i \in Unread /\ loaded = {}
  BY DEF PluginsIInv, ReadManifest, GotTo
<1>2. UNCHANGED <<shelf, enabled, approved, printed, edits, edited, touched, loaded, offered, rendered>>
  BY DEF ReadManifest
<1> PICK files \in Shelved : files = FilesOf(i) /\ files.kind \in {"none", "directory", "archive"}
  BY <1>1, FilesType
<1> PICK p \in PluginName : p = files.plugin
  BY ShelvedFacts
<1>3. files.manifest \in Version /\ (files.kind # "none" => PluginsAt(files) = {p})
  BY ShelvedFacts
<1>4. /\ sources[i] \in SourceType /\ sources[i].kind \in {"directory", "archive"}
      /\ \A q \in PluginName : available[q] # NotFound => available[q].item # i
  <2>1. sources[i] \in SourceType /\ sources[i].kind # "none"
    BY <1>1 DEF PluginsTypes, Unread
  <2>2. QED
    BY <1>1, <2>1, ShelvedFacts DEF SourceType, Unread
<1>5. \/ sources' = [sources EXCEPT ![i] = NotThere] /\ UNCHANGED <<at, refused, available>>
      \/ Refuse("two of one name") /\ UNCHANGED <<available, sources>>
      \/ /\ files.kind # "none"
         /\ available' = [available EXCEPT ![p] = [item |-> i, manifest |-> files.manifest]]
         /\ UNCHANGED <<at, refused, sources>>
  BY DEF ReadManifest
<1>6. AllLoadedWhole' /\ RenderedAsApproved' /\ ShippedStays' /\ NamedOnce'
  BY <1>1, <1>2 DEF AllLoadedWhole, RenderedAsApproved, PluginsIInv, ShippedStays, NamedOnce
<1>7. CASE sources' = [sources EXCEPT ![i] = NotThere] /\ UNCHANGED <<at, refused, available>>
  <2>1. /\ sources' \in [Item -> SourceType] /\ sources'[i].kind = "none"
        /\ \A j \in Item \ {i} : sources'[j] = sources[j]
    BY <1>1, <1>7, NothingThere DEF PluginsTypes
  <2>2. PluginsTypes' /\ GotTo'
    BY <1>1, <1>2, <1>7, <2>1 DEF PluginsTypes, GotTo
  <2>3. ManifestsRead'
    <3>1. SUFFICES ASSUME NEW q \in PluginName, available[q] # NotFound
                   PROVE  ReadThere(q)'
      BY <1>7 DEF ManifestsRead
    <3>2. available[q].item \in Item \ {i} /\ ReadThere(q)
      BY <1>1, <1>4, <3>1 DEF ManifestsRead, PluginsTypes
    <3>3. sources'[available[q].item] = sources[available[q].item]
      BY <2>1, <3>2
    <3>4. QED
      BY <1>2, <1>7, <3>2, <3>3 DEF ReadThere, Settled, FilesOf, OnDisk
  <2>4. KnownApproved' /\ AskedOnce'
    BY <1>1, <1>2, <1>7, <2>1 DEF KnownApproved, AskedOnce, PluginsIInv
  <2>5. QED
    BY <1>6, <2>2, <2>3, <2>4 DEF PluginsIInv
<1>8. CASE Refuse("two of one name") /\ UNCHANGED <<available, sources>>
  <2>1. at' = "refused" /\ refused' = "two of one name" /\ UNCHANGED <<available, sources>>
    BY <1>8 DEF Refuse
  <2>2. PluginsTypes' /\ GotTo' /\ KnownApproved' /\ ManifestsRead'
    <3>1. PluginsTypes' /\ GotTo'
      BY <1>1, <1>2, <2>1 DEF PluginsTypes, GotTo
    <3>2. KnownApproved'
      BY <1>1, <1>2, <2>1 DEF KnownApproved
    <3>3. \A j \in Item : FilesOf(j)' = FilesOf(j)
      BY <1>2, <2>1 DEF FilesOf, OnDisk
    <3>4. \A q \in PluginName : Settled(q)' <=> Settled(q)
      BY <1>2, <2>1 DEF Settled
    <3>5. ManifestsRead'
      <4>1. SUFFICES ASSUME NEW q \in PluginName, available[q] # NotFound
                     PROVE  ReadThere(q)'
        BY <2>1 DEF ManifestsRead
      <4>2. ReadThere(q) /\ available[q].item \in Item
        BY <1>1, <4>1 DEF ManifestsRead, PluginsTypes
      <4> QED
        BY <1>2, <2>1, <3>3, <3>4, <4>2 DEF ReadThere
    <3> QED
      BY <3>1, <3>2, <3>5
  <2>3. AskedOnce'
    BY <2>1, PluginsAssumption DEF AskedOnce
  <2>4. QED
    BY <1>6, <2>2, <2>3 DEF PluginsIInv
<1>9. CASE /\ files.kind # "none"
           /\ available' = [available EXCEPT ![p] = [item |-> i, manifest |-> files.manifest]]
           /\ UNCHANGED <<at, refused, sources>>
  <2>1. [item |-> i, manifest |-> files.manifest] \in [item : Item, manifest : Version \union {0}]
    BY <1>3
  <2>2. /\ available' \in [PluginName -> [item : Item, manifest : Version \union {0}]]
        /\ available'[p] = [item |-> i, manifest |-> files.manifest]
        /\ \A q \in PluginName \ {p} : available'[q] = available[q]
    BY <1>1, <1>3, <1>9, <2>1 DEF PluginsTypes
  <2>3. available'[p].item = i /\ available'[p].manifest = files.manifest
    BY <2>2
  <2>4. PluginsTypes' /\ GotTo' /\ KnownApproved' /\ AskedOnce'
    BY <1>1, <1>2, <1>9, <2>2 DEF PluginsTypes, GotTo, KnownApproved, AskedOnce, PluginsIInv
  <2>5. ReadThere(p)'
    <3>1. FilesOf(i)' = files
      BY <1>2, <1>9 DEF FilesOf, OnDisk
    <3>2. sources[i].kind = "directory" => files = shelf[i]
      BY <1>9 DEF FilesOf, OnDisk, NotThere
    <3>3. sources[i].kind = "directory" => p \in PluginsAt(shelf[i])
      BY <1>3, <1>9, <3>2
    <3>4. QED
      BY <1>2, <1>3, <1>4, <1>9, <2>3, <3>1, <3>3 DEF ReadThere
  <2>6. ManifestsRead'
    <3>1. SUFFICES ASSUME NEW q \in PluginName \ {p}, available[q] # NotFound
                   PROVE  ReadThere(q)'
      BY <2>2, <2>5 DEF ManifestsRead
    <3>2. ReadThere(q) /\ available'[q] = available[q]
      BY <1>1, <2>2, <3>1 DEF ManifestsRead
    <3>3. \A j \in Item : FilesOf(j)' = FilesOf(j)
      BY <1>2, <1>9 DEF FilesOf, OnDisk
    <3>4. Settled(q)' <=> Settled(q)
      BY <1>2, <1>9, <3>2 DEF Settled
    <3>5. available[q].item \in Item
      BY <1>1, <3>1 DEF PluginsTypes
    <3>6. QED
      BY <1>2, <1>9, <3>2, <3>3, <3>4, <3>5 DEF ReadThere
  <2>7. QED
    BY <1>6, <2>4, <2>6 DEF PluginsIInv
<1>10. QED
  BY <1>5, <1>7, <1>8, <1>9

(* What a run reads next doesn't change what it has read.                  *)
LEMMA OnlyTheRunGoesOn ==
    ASSUME PluginsIInv,
           UNCHANGED <<shelf, enabled, approved, printed, edits, edited, touched, refused, sources,
                       available, loaded, offered, rendered>>,
           at' \in {"loading", "running"}, at' = "running" => Wanted = {},
           at \in {"finding", "loading"}
    PROVE  PluginsIInv'
<1>1. PluginsTypes'
  BY DEF PluginsIInv, PluginsTypes
<1>2. GotTo'
  BY DEF PluginsIInv, GotTo, Wanted
<1>3. ManifestsRead' /\ KnownApproved'
  BY DEF PluginsIInv, ManifestsRead, ReadThere, Settled, FilesOf, OnDisk, KnownApproved
<1>4. AllLoadedWhole' /\ RenderedAsApproved'
  BY DEF PluginsIInv, AllLoadedWhole, LoadedWhole, RenderedAsApproved, Settled, FilesOf, OnDisk, Fingerprint
<1>5. ShippedStays' /\ NamedOnce' /\ AskedOnce'
  BY DEF PluginsIInv, ShippedStays, NamedOnce, AskedOnce
<1>6. QED
  BY <1>1, <1>2, <1>3, <1>4, <1>5 DEF PluginsIInv

-----------------------------------------------------------------------------
(* Loading                                                                 *)

(* What is registered comes after what was there.                          *)
LEMMA Appended ==
    ASSUME NEW S, NEW s \in Seq(S), NEW t \in Seq(S), NEW k \in 0..Len(t),
           NEW after, after = s \o SubSeq(t, 1, k)
    PROVE  /\ after \in Seq(S) /\ Len(after) = Len(s) + k
           /\ \A a \in 1..Len(s) : after[a] = s[a]
           /\ \A j \in 1..k : after[Len(s) + j] = t[j]
<1>1. /\ SubSeq(t, 1, k) \in Seq(S) /\ Len(SubSeq(t, 1, k)) = k
      /\ \A j \in 1..k : SubSeq(t, 1, k)[j] = t[j]
  OBVIOUS
<1> DEFINE u == SubSeq(t, 1, k)
<1>2. \A j \in 1..k : u[j] = t[j]
  BY <1>1
<1> HIDE DEF u
<1>3. u \in Seq(S) /\ Len(u) = k
  BY <1>1 DEF u
<1>4. after = s \o u
  BY DEF u
<1>5. /\ after \in Seq(S) /\ Len(after) = Len(s) + k
      /\ \A a \in 1..Len(s) : after[a] = s[a]
  BY <1>3, <1>4
<1>6. \A j \in 1..k : after[Len(s) + j] = u[j]
  BY <1>3, <1>4
<1>7. QED
  BY <1>2, <1>5, <1>6

(* What a manifest adds is among what there could be.                      *)
LEMMA AdditionsAreOffers ==
    ASSUME NEW p \in PluginName, NEW v \in Version
    PROVE  /\ Additions(p, v) \in Seq(Offers)
           /\ DOMAIN Additions(p, v) = DOMAIN Declares[p][v].adds
<1> DEFINE adds == Declares[p][v].adds
           added == Additions(p, v)
<1>1. adds \in Seq({"bundle", "package"} \X STRING)
  BY PluginsAssumption
<1>2. added = [j \in DOMAIN adds |-> [of |-> p, is |-> <<adds[j][1], Namespaced(p, adds[j][2])>>]]
  BY DEF Additions
<1> HIDE DEF adds, added
<1>3. DOMAIN added = DOMAIN adds /\ DOMAIN adds = 1..Len(adds) /\ Len(adds) \in Nat
  BY <1>1, <1>2
<1>4. ASSUME NEW j \in DOMAIN added PROVE added[j] \in Offers
  <2>1. added[j] \in {Additions(p, v)[i] : i \in DOMAIN Additions(p, v)}
    BY <1>4 DEF added
  <2> DEFINE each == {{Additions(q, w)[i] : i \in DOMAIN Additions(q, w)} : q \in PluginName, w \in Version}
  <2>2. {Additions(p, v)[i] : i \in DOMAIN Additions(p, v)} \in each
    OBVIOUS
  <2>3. Offers = {ShippedOffers[a] : a \in DOMAIN Shipped} \union UNION each
    BY DEF Offers
  <2> HIDE DEF each
  <2>4. added[j] \in UNION each
    BY <2>1, <2>2
  <2>5. QED
    BY <2>3, <2>4
<1>5. added \in [1..Len(adds) -> Offers]
  BY <1>2, <1>3, <1>4
<1>6. added \in Seq(Offers)
  BY <1>3, <1>5
<1>7. QED
  BY <1>3, <1>6 DEF adds, added

(* What is registered has the names nothing had, and replaces nothing.     *)
LEMMA RegisteredApart ==
    ASSUME PluginsTypes, ShippedStays, NamedOnce,
           NEW p \in PluginName, NEW v \in Version, NEW k \in 0..Len(Additions(p, v)),
           \A j \in 1..k : ~Clashes(Additions(p, v), j),
           offered' = offered \o SubSeq(Additions(p, v), 1, k)
    PROVE  /\ offered' \in Seq(Offers)
           /\ \A a \in DOMAIN offered : a \in DOMAIN offered' /\ offered'[a] = offered[a]
           /\ \A j \in 1..k : \E a \in DOMAIN offered' : offered'[a] = Additions(p, v)[j]
           /\ ShippedStays' /\ NamedOnce'
<1> DEFINE t == Additions(p, v)
<1>1. offered \in Seq(Offers) /\ t \in Seq(Offers)
  BY AdditionsAreOffers DEF PluginsTypes
<1>2. /\ offered' \in Seq(Offers) /\ Len(offered') = Len(offered) + k
      /\ \A a \in 1..Len(offered) : offered'[a] = offered[a]
      /\ \A j \in 1..k : offered'[Len(offered) + j] = t[j]
  <2> HIDE DEF t
  <2>1. k \in 0..Len(t) /\ offered' = offered \o SubSeq(t, 1, k)
    BY DEF t
  <2>2. QED
    BY <1>1, <2>1, Appended
<1>3. DOMAIN offered = 1..Len(offered) /\ DOMAIN offered' = 1..(Len(offered) + k) /\ Len(offered) \in Nat
  BY <1>1, <1>2
<1>4. \A j \in 1..k : /\ \A a \in DOMAIN offered : offered[a].is # t[j].is
                      /\ \A i \in 1..j - 1 : t[i].is # t[j].is
  BY DEF Clashes
<1> HIDE DEF t
<1>5. \A a \in DOMAIN offered : a \in DOMAIN offered' /\ offered'[a] = offered[a]
  BY <1>2, <1>3
<1>6. \A j \in 1..k : Len(offered) + j \in DOMAIN offered' /\ offered'[Len(offered) + j] = t[j]
  BY <1>2, <1>3
<1>7. ShippedStays'
  BY <1>5 DEF ShippedStays
<1>8. ASSUME NEW a \in DOMAIN offered', NEW b \in DOMAIN offered', a < b
      PROVE  offered'[a].is # offered'[b].is
  <2>1. CASE b \in DOMAIN offered
    <3>1. a \in DOMAIN offered
      BY <1>3, <1>8, <2>1
    <3>2. QED
      BY <1>3, <1>5, <1>8, <2>1, <3>1 DEF NamedOnce
  <2>2. CASE b \notin DOMAIN offered
    <3>1. PICK j \in 1..k : b = Len(offered) + j
      <4>1. b - Len(offered) \in 1..k /\ b = Len(offered) + (b - Len(offered))
        BY <1>3, <1>8, <2>2
      <4>2. QED
        BY <4>1
    <3>2. offered'[b] = t[j]
      BY <1>2, <3>1
    <3>3. CASE a \in DOMAIN offered
      BY <1>4, <1>5, <3>2, <3>3
    <3>4. CASE a \notin DOMAIN offered
      <4>1. PICK i \in 1..j - 1 : a = Len(offered) + i
        <5>1. a - Len(offered) \in 1..j - 1 /\ a = Len(offered) + (a - Len(offered))
          BY <1>3, <1>8, <3>1, <3>4
        <5>2. QED
          BY <5>1
      <4>2. i \in 1..k
        BY <4>1, <3>1
      <4>3. offered'[a] = t[i]
        BY <1>2, <4>1, <4>2
      <4>4. QED
        BY <1>4, <3>1, <3>2, <4>1, <4>3
    <3>5. QED
      BY <3>3, <3>4
  <2>3. QED
    BY <2>1, <2>2
<1>9. NamedOnce'
  <2>1. SUFFICES ASSUME NEW a \in DOMAIN offered', NEW b \in DOMAIN offered', a # b
                 PROVE  offered'[a].is # offered'[b].is
    BY DEF NamedOnce
  <2>2. a < b \/ b < a
    BY <1>3, <2>1
  <2>3. QED
    BY <1>8, <2>2
<1>10. QED
  BY <1>2, <1>5, <1>6, <1>7, <1>9 DEF t

(* A plugin nobody changed since it was approved isn't asked about.        *)
LEMMA AskedOnlyChanged ==
    ASSUME PluginsIInv, NEW p \in PluginName, available[p] # NotFound,
           FilesOf(available[p].item).kind # "none",
           approved[p] # NotGiven, p \notin edited
    PROVE  Fingerprint(FilesOf(available[p].item)) = approved[p]
<1> DEFINE i == available[p].item
<1>1. ReadThere(p) /\ i \in Item
  BY DEF PluginsIInv, ManifestsRead, PluginsTypes
<1>2. /\ p \in PluginsAt(shelf[i]) => Fingerprint(shelf[i]) = approved[p]
      /\ sources[i].kind = "archive" /\ sources[i].plugin = p => Fingerprint(sources[i]) = approved[p]
  BY <1>1 DEF PluginsIInv, KnownApproved
<1>3. CASE sources[i].kind = "archive"
  BY <1>1, <1>2, <1>3 DEF ReadThere, Settled, FilesOf
<1>4. CASE sources[i].kind = "directory"
  <2>1. FilesOf(i) = shelf[i]
    BY <1>4 DEF FilesOf, OnDisk, NotThere
  <2>2. QED
    BY <1>1, <1>2, <1>4, <2>1 DEF ReadThere
<1>5. QED
  BY <1>1, <1>3, <1>4 DEF ReadThere

(* A plugin is refused, or is loaded as it was approved.                   *)
LEMMA LoadKeeps ==
    ASSUME PluginsIInv, Load
    PROVE  PluginsIInv'
<1>1. /\ PluginsTypes /\ GotTo /\ ManifestsRead /\ KnownApproved /\ AllLoadedWhole
      /\ RenderedAsApproved /\ ShippedStays /\ NamedOnce /\ at = "loading"
  BY DEF PluginsIInv, Load
<1>2. UNCHANGED <<shelf, enabled, approved, edits, edited, touched, sources, available, rendered>>
  BY DEF Load
<1>3. PICK n \in Wanted :
          LET p     == Listed[n]
              files == FilesOf(available[p].item)
              found == Fingerprint(files)
          IN  IF available[p] = NotFound \/ files.kind = "none"
              THEN Absent(p) /\ UNCHANGED <<printed, offered>>
              ELSE IF approved[p] # found
              THEN /\ Refuse(p)
                   /\ printed' = [printed EXCEPT ![p] = found]
                   /\ UNCHANGED <<loaded, offered>>
              ELSE Register(p) /\ UNCHANGED printed
  BY DEF Load
<1>4. PICK p : p = Listed[n] /\ p \in PluginName /\ p \in enabled \ loaded
  BY DEF Wanted, PluginName
<1>5. PICK found : found = Fingerprint(FilesOf(available[p].item))
  OBVIOUS
<1>6. available[p].item \in Item
  BY <1>1, <1>4 DEF PluginsTypes
<1>7. found \in FingerprintType
  BY <1>1, <1>5, <1>6, FilesType, ShelvedFacts
<1>8. ManifestsRead' /\ KnownApproved'
  BY <1>1, <1>2 DEF ManifestsRead, ReadThere, Settled, FilesOf, OnDisk, KnownApproved
<1>9. ASSUME at' = "refused", UNCHANGED <<loaded, offered>>
      PROVE  AllLoadedWhole' /\ RenderedAsApproved' /\ ShippedStays' /\ NamedOnce' /\ GotTo'
  BY <1>1, <1>2, <1>9
     DEF AllLoadedWhole, LoadedWhole, RenderedAsApproved, ShippedStays, NamedOnce, GotTo,
         Settled, FilesOf, OnDisk, Fingerprint
<1>10. CASE available[p] = NotFound \/ FilesOf(available[p].item).kind = "none"
  <2>1. at' = "refused" /\ refused' = "not there" /\ UNCHANGED <<printed, offered, loaded>>
    BY <1>3, <1>4, <1>10 DEF Absent, Refuse
  <2>2. PluginsTypes'
    BY <1>1, <1>2, <2>1 DEF PluginsTypes
  <2>3. AskedOnce'
    BY <2>1, PluginsAssumption DEF AskedOnce
  <2>4. QED
    BY <1>8, <1>9, <2>1, <2>2, <2>3 DEF PluginsIInv
<1>11. CASE /\ available[p] # NotFound /\ FilesOf(available[p].item).kind # "none"
            /\ approved[p] # found
  <2>1. /\ at' = "refused" /\ refused' = p /\ UNCHANGED <<loaded, offered>>
        /\ printed' = [printed EXCEPT ![p] = found]
    BY <1>3, <1>4, <1>5, <1>11 DEF Refuse
  <2>2. printed' \in [PluginName -> FingerprintType \union {NotGiven}]
    BY <1>1, <1>7, <2>1 DEF PluginsTypes
  <2>3. PluginsTypes'
    BY <1>1, <1>2, <2>1, <2>2 DEF PluginsTypes
  <2>4. AskedOnce'
    BY <1>2, <1>4, <1>5, <1>11, <2>1, AskedOnlyChanged DEF AskedOnce
  <2>5. QED
    BY <1>8, <1>9, <2>1, <2>3, <2>4 DEF PluginsIInv
<1>12. CASE /\ available[p] # NotFound /\ FilesOf(available[p].item).kind # "none"
            /\ approved[p] = found
  <2>1. PICK v \in Version : v = available[p].manifest
    BY <1>1, <1>4, <1>12 DEF ManifestsRead, ReadThere
  <2>2. PICK k \in 0..Len(Additions(p, v)) :
            /\ \A j \in 1..k : ~Clashes(Additions(p, v), j)
            /\ offered' = offered \o SubSeq(Additions(p, v), 1, k)
            /\ \/ k = Len(Additions(p, v)) /\ loaded' = loaded \union {p} /\ UNCHANGED <<at, refused>>
               \/ /\ k < Len(Additions(p, v)) /\ Clashes(Additions(p, v), k + 1)
                  /\ Refuse("the name is taken") /\ UNCHANGED loaded
    <3>1. Register(p)
      BY <1>3, <1>4, <1>5, <1>12
    <3>2. QED
      BY <2>1, <3>1 DEF Register
  <2>3. UNCHANGED printed
    BY <1>3, <1>4, <1>5, <1>12
  <2>4. /\ offered' \in Seq(Offers)
        /\ \A a \in DOMAIN offered : a \in DOMAIN offered' /\ offered'[a] = offered[a]
        /\ \A j \in 1..k : \E a \in DOMAIN offered' : offered'[a] = Additions(p, v)[j]
        /\ ShippedStays' /\ NamedOnce'
    <3>1. PluginsTypes /\ ShippedStays /\ NamedOnce /\ p \in PluginName
      BY <1>1, <1>4
    <3>2. /\ \A j \in 1..k : ~Clashes(Additions(p, v), j)
          /\ offered' = offered \o SubSeq(Additions(p, v), 1, k)
      BY <2>2
    <3> QED
      BY <3>1, <3>2, RegisteredApart
  <2>5. ASSUME NEW q \in loaded PROVE LoadedWhole(q)'
    <3>1. LoadedWhole(q)
      BY <1>1, <2>5 DEF AllLoadedWhole
    <3>2. \A j \in DOMAIN Additions(q, available[q].manifest) :
              \E a \in DOMAIN offered' : offered'[a] = Additions(q, available[q].manifest)[j]
      BY <2>4, <3>1 DEF LoadedWhole
    <3>3. QED
      BY <1>2, <3>1, <3>2 DEF LoadedWhole, Settled, FilesOf, OnDisk, Fingerprint
  <2>6. CASE k = Len(Additions(p, v)) /\ loaded' = loaded \union {p} /\ UNCHANGED <<at, refused>>
    <3>1. PluginsTypes'
      BY <1>1, <1>2, <1>4, <2>3, <2>4, <2>6 DEF PluginsTypes
    <3>2. GotTo' /\ AskedOnce'
      BY <1>1, <1>2, <2>6 DEF GotTo, PluginsIInv, AskedOnce
    <3>3. LoadedWhole(p)'
      <4>1. DOMAIN Additions(p, v) = 1..k
        BY <1>4, <2>1, <2>6, AdditionsAreOffers
      <4>2. approved[p] # NotGiven
        BY <1>5, <1>12 DEF Fingerprint, NotGiven
      <4>3. Fingerprint(FilesOf(available[p].item))' = approved[p]
        BY <1>2, <1>5, <1>12 DEF FilesOf, OnDisk, Fingerprint
      <4>4. QED
        BY <1>2, <1>12, <2>1, <2>4, <4>1, <4>2, <4>3 DEF LoadedWhole
    <3>4. AllLoadedWhole'
      BY <2>5, <2>6, <3>3 DEF AllLoadedWhole
    <3>5. RenderedAsApproved'
      <4>1. \A r \in rendered : r[1] \in loaded
        BY <1>1 DEF PluginsTypes
      <4>2. QED
        BY <1>1, <1>2, <1>4, <2>6, <4>1 DEF RenderedAsApproved, Settled
    <3>6. QED
      BY <1>8, <2>4, <3>1, <3>2, <3>4, <3>5 DEF PluginsIInv
  <2>7. CASE Refuse("the name is taken") /\ UNCHANGED loaded
    <3>1. at' = "refused" /\ refused' = "the name is taken" /\ UNCHANGED loaded
      BY <2>7 DEF Refuse
    <3>2. PluginsTypes' /\ GotTo'
      BY <1>1, <1>2, <2>3, <2>4, <3>1 DEF PluginsTypes, GotTo
    <3>3. AskedOnce'
      BY <3>1, PluginsAssumption DEF AskedOnce
    <3>4. AllLoadedWhole' /\ RenderedAsApproved'
      BY <1>1, <1>2, <2>5, <3>1 DEF AllLoadedWhole, RenderedAsApproved, Settled
    <3>5. QED
      BY <1>8, <2>4, <3>2, <3>3, <3>4 DEF PluginsIInv
  <2>8. QED
    BY <2>2, <2>6, <2>7
<1>13. QED
  BY <1>10, <1>11, <1>12

-----------------------------------------------------------------------------
(* Running                                                                 *)

(* A template is of the files that were approved.                          *)
LEMMA RenderKeeps ==
    ASSUME PluginsIInv, NEW p \in PluginName, Render(p)
    PROVE  PluginsIInv'
<1>1. /\ PluginsTypes /\ GotTo /\ ManifestsRead /\ KnownApproved /\ AllLoadedWhole
      /\ RenderedAsApproved /\ at = "running" /\ p \in loaded
  BY DEF PluginsIInv, Render
<1>2. UNCHANGED <<shelf, enabled, approved, printed, edits, edited, touched, sources, available,
                  loaded, offered>>
  BY DEF Render
<1>3. \/ at' = "refused" /\ refused' = "not there" /\ UNCHANGED rendered
      \/ /\ rendered' = rendered \union {<<p, FilesOf(available[p].item).template>>}
         /\ UNCHANGED <<at, refused>>
  BY DEF Render, Refuse
<1>4. ManifestsRead' /\ KnownApproved'
  BY <1>1, <1>2 DEF ManifestsRead, ReadThere, Settled, FilesOf, OnDisk, KnownApproved
<1>5. AllLoadedWhole'
  BY <1>1, <1>2 DEF AllLoadedWhole, LoadedWhole, Settled, FilesOf, OnDisk, Fingerprint
<1>6. ShippedStays' /\ NamedOnce'
  BY <1>2 DEF PluginsIInv, ShippedStays, NamedOnce
<1>7. GotTo' /\ AskedOnce'
  BY <1>1, <1>2, <1>3, PluginsAssumption DEF GotTo, Wanted, PluginsIInv, AskedOnce
<1>8. PICK t \in Template : t = FilesOf(available[p].item).template
  BY <1>1, FilesType, ShelvedFacts DEF PluginsTypes
<1>9. PluginsTypes'
  <2>1. rendered' \subseteq rendered \union {<<p, t>>}
    BY <1>3, <1>8
  <2>2. rendered \subseteq loaded \X Template
    BY <1>1 DEF PluginsTypes
  <2>3. rendered' \in SUBSET (loaded \X Template)
    BY <1>1, <2>1, <2>2
  <2>4. QED
    BY <1>1, <1>2, <1>3, <2>3 DEF PluginsTypes
<1>10. Settled(p) => t = approved[p][3]
  BY <1>1, <1>8 DEF AllLoadedWhole, LoadedWhole, Fingerprint
<1>11. RenderedAsApproved'
  <2>1. SUFFICES ASSUME NEW q \in loaded, Settled(q), NEW r \in rendered', r[1] = q
                 PROVE  r[2] = approved[q][3]
    BY <1>2 DEF RenderedAsApproved, Settled
  <2>2. CASE r \in rendered
    BY <1>1, <2>1, <2>2 DEF RenderedAsApproved
  <2>3. CASE r = <<p, t>>
    BY <1>10, <2>1, <2>3
  <2>4. QED
    BY <1>3, <1>8, <2>1, <2>2, <2>3
<1>12. QED
  BY <1>4, <1>5, <1>6, <1>7, <1>9, <1>11 DEF PluginsIInv

(* Before a run there is what the installer ships, under names of its own. *)
LEMMA ShippedAlone ==
    /\ ShippedOffers \in Seq(Offers) /\ DOMAIN ShippedOffers = DOMAIN Shipped
    /\ \A a, b \in DOMAIN Shipped : a # b => ShippedOffers[a].is # ShippedOffers[b].is
<1> DEFINE S == {"bundle", "package"} \X Seq(STRING)
<1>1. Shipped \in Seq(S) /\ \A a, b \in DOMAIN Shipped : a # b => Shipped[a] # Shipped[b]
  BY PluginsAssumption
<1> HIDE DEF S
<1>2. DOMAIN Shipped = 1..Len(Shipped) /\ Len(Shipped) \in Nat
  BY <1>1
<1>3. \A a \in DOMAIN Shipped : ShippedOffers[a] \in Offers
  BY DEF Offers
<1>4. ShippedOffers \in [1..Len(Shipped) -> Offers]
  BY <1>2, <1>3 DEF ShippedOffers
<1>5. ShippedOffers \in Seq(Offers)
  BY <1>2, <1>4
<1>6. QED
  BY <1>1, <1>5 DEF ShippedOffers

(* A process that ends leaves nothing.                                     *)
LEMMA EndKeeps ==
    ASSUME PluginsIInv, End
    PROVE  PluginsIInv'
<1>1. /\ at' = "idle" /\ refused' = "nothing"
      /\ sources' = [i \in Item |-> NotThere]
      /\ available' = [p \in PluginName |-> NotFound]
      /\ loaded' = {} /\ offered' = ShippedOffers /\ rendered' = {}
      /\ UNCHANGED <<shelf, enabled, approved, printed, edits, edited, touched>>
  BY DEF End
<1>2. offered' \in Seq(Offers) /\ ShippedStays' /\ NamedOnce'
  BY <1>1, ShippedAlone DEF ShippedStays, NamedOnce
<1>3. sources' \in [Item -> SourceType]
  BY <1>1, NothingThere
<1>4. available' \in [PluginName -> [item : Item, manifest : Version \union {0}]]
  BY <1>1, NotFoundType
<1>5. PluginsTypes'
  BY <1>1, <1>2, <1>3, <1>4 DEF PluginsIInv, PluginsTypes
<1>6. GotTo'
  BY <1>1 DEF GotTo
<1>7. ManifestsRead' /\ AllLoadedWhole' /\ RenderedAsApproved'
  BY <1>1 DEF ManifestsRead, AllLoadedWhole, RenderedAsApproved
<1>8. KnownApproved'
  BY <1>1, NothingThere DEF PluginsIInv, KnownApproved
<1>9. AskedOnce'
  BY <1>1, PluginsAssumption DEF AskedOnce
<1>10. QED
  BY <1>2, <1>5, <1>6, <1>7, <1>8, <1>9 DEF PluginsIInv

-----------------------------------------------------------------------------
(* The invariant                                                           *)

(* It holds before the first run.                                          *)
LEMMA PluginsStart ==
    PluginsInit => PluginsIInv
<1> SUFFICES ASSUME PluginsInit PROVE PluginsIInv
  OBVIOUS
<1>1. /\ enabled = PluginName /\ edits = 0 /\ edited = {} /\ touched = {}
      /\ approved = [p \in PluginName |-> NotGiven] /\ printed = [p \in PluginName |-> NotGiven]
      /\ at = "idle" /\ refused = "nothing" /\ sources = [i \in Item |-> NotThere]
      /\ available = [p \in PluginName |-> NotFound]
      /\ loaded = {} /\ offered = ShippedOffers /\ rendered = {}
  BY DEF PluginsInit, NoRun, PluginName
<1>2. shelf \in [Item -> Shelved]
  <2>1. [kind |-> "directory", plugin |-> Listed[1], manifest |-> 1, template |-> 1] \in Shelved
    BY PluginsAssumption DEF Shelved, PluginName
  <2>2. NotThere \in Shelved
    BY DEF Shelved
  <2>3. QED
    BY <2>1, <2>2 DEF PluginsInit
<1>3. sources \in [Item -> SourceType]
  BY <1>1, NothingThere
<1>4. available \in [PluginName -> [item : Item, manifest : Version \union {0}]]
  BY <1>1, NotFoundType
<1>5. PluginsTypes
  <2>1. edits \in 0..MaxEdits
    <3>1. MaxEdits \in Nat
      BY PluginsAssumption
    <3>2. QED
      BY <1>1, <3>1
  <2>2. offered \in Seq(Offers)
    BY <1>1, ShippedAlone
  <2>3. /\ approved \in [PluginName -> FingerprintType \union {NotGiven}]
        /\ printed \in [PluginName -> FingerprintType \union {NotGiven}]
    BY <1>1
  <2>4. QED
    BY <1>1, <1>2, <1>3, <1>4, <2>1, <2>2, <2>3 DEF PluginsTypes
<1>6. GotTo /\ ManifestsRead /\ KnownApproved /\ AllLoadedWhole /\ RenderedAsApproved
  BY <1>1 DEF GotTo, ManifestsRead, KnownApproved, AllLoadedWhole, RenderedAsApproved
<1>7. ShippedStays /\ NamedOnce
  BY <1>1, ShippedAlone DEF ShippedStays, NamedOnce
<1>8. AskedOnce
  BY <1>1, PluginsAssumption DEF AskedOnce
<1>9. QED
  BY <1>5, <1>6, <1>7, <1>8 DEF PluginsIInv

(* Where nothing happens, it stays.                                        *)
LEMMA PluginsRest ==
    ASSUME PluginsIInv, UNCHANGED pluginVars
    PROVE  PluginsIInv'
<1>1. PluginsTypes' /\ GotTo'
  BY DEF pluginVars, PluginsIInv, PluginsTypes, GotTo, Wanted
<1>2. ManifestsRead' /\ KnownApproved'
  BY DEF pluginVars, PluginsIInv, ManifestsRead, ReadThere, Settled, FilesOf, OnDisk, KnownApproved
<1>3. AllLoadedWhole' /\ RenderedAsApproved'
  BY DEF pluginVars, PluginsIInv, AllLoadedWhole, LoadedWhole, RenderedAsApproved, Settled, FilesOf,
         OnDisk, Fingerprint
<1>4. ShippedStays' /\ NamedOnce' /\ AskedOnce'
  BY DEF pluginVars, PluginsIInv, ShippedStays, NamedOnce, AskedOnce
<1>5. QED
  BY <1>1, <1>2, <1>3, <1>4 DEF PluginsIInv

(* Every step keeps it.                                                    *)
LEMMA PluginsStep ==
    PluginsIInv /\ [PluginsNext]_pluginVars => PluginsIInv'
<1> SUFFICES ASSUME PluginsIInv, [PluginsNext]_pluginVars PROVE PluginsIInv'
  OBVIOUS
<1>1. CASE UNCHANGED pluginVars
  BY <1>1, PluginsRest
<1>2. ASSUME NEW i \in Item, Edit(i) PROVE PluginsIInv'
  BY <1>2, EditKeeps
<1>3. ASSUME NEW i \in Item, ReadManifest(i) PROVE PluginsIInv'
  BY <1>3, ReadManifestKeeps
<1>4. ASSUME NEW p \in PluginName, Approve(p) PROVE PluginsIInv'
  BY <1>4, ApproveKeeps
<1>5. ASSUME NEW p \in PluginName, Toggle(p) PROVE PluginsIInv'
  BY <1>5, ToggleKeeps
<1>6. ASSUME NEW p \in PluginName, Render(p) PROVE PluginsIInv'
  BY <1>6, RenderKeeps
<1>7. CASE Discover
  BY <1>7, DiscoverKeeps
<1>8. CASE StartLoading
  BY <1>8, OnlyTheRunGoesOn DEF StartLoading
<1>9. CASE StartRunning
  BY <1>9, OnlyTheRunGoesOn DEF StartRunning
<1>10. CASE Load
  BY <1>10, LoadKeeps
<1>11. CASE End
  BY <1>11, EndKeeps
<1>12. QED
  BY <1>1, <1>2, <1>3, <1>4, <1>5, <1>6, <1>7, <1>8, <1>9, <1>10, <1>11 DEF PluginsNext

(* What is loaded is what was approved, read from where it was found.      *)
LEMMA LoadedAsApproved ==
    ASSUME PluginsIInv, NEW p \in loaded, Settled(p)
    PROVE  approved[p][1] = p /\ approved[p][2] = available[p].manifest
<1>1. LoadedWhole(p) /\ p \in PluginName
  BY DEF PluginsIInv, AllLoadedWhole, PluginsTypes
<1>2. FilesOf(available[p].item).plugin = p /\ FilesOf(available[p].item).manifest = available[p].manifest
  BY <1>1 DEF LoadedWhole, PluginsIInv, ManifestsRead, ReadThere
<1>3. approved[p] = Fingerprint(FilesOf(available[p].item))
  BY <1>1 DEF LoadedWhole
<1>4. QED
  BY <1>2, <1>3 DEF Fingerprint

(* It says what is promised.                                               *)
LEMMA PluginsPromise ==
    PluginsIInv => PluginsInv
<1> SUFFICES ASSUME PluginsIInv PROVE PluginsInv
  OBVIOUS
<1>1. PluginsTypes /\ AllLoadedWhole
  BY DEF PluginsIInv
<1>2. PluginsTypeOK
  BY <1>1 DEF PluginsTypes, PluginsTypeOK, FingerprintType, SourceType
<1>3. RunsWhatWasApproved
  BY LoadedAsApproved DEF PluginsIInv, RenderedAsApproved, RunsWhatWasApproved
<1>4. NothingIsReplaced
  BY DEF PluginsIInv, ShippedStays, NamedOnce, NothingIsReplaced
<1>5. NothingIsLeftOut
  <2>1. SUFFICES ASSUME at = "running", NEW p \in enabled
                 PROVE  /\ approved[p] # NotGiven
                        /\ Settled(p) => \A j \in DOMAIN Declares[p][approved[p][2]].adds :
                               \E a \in DOMAIN offered : offered[a] = Additions(p, approved[p][2])[j]
    BY DEF NothingIsLeftOut
  <2>2. p \in loaded /\ p \in PluginName
    BY <1>1, <2>1 DEF PluginsIInv, GotTo, Wanted, PluginName, PluginsTypes
  <2>3. LoadedWhole(p) /\ available[p].manifest \in Version
    BY <1>1, <2>2 DEF AllLoadedWhole, LoadedWhole, PluginsIInv, ManifestsRead, ReadThere
  <2>4. DOMAIN Additions(p, available[p].manifest) = DOMAIN Declares[p][available[p].manifest].adds
    BY <2>2, <2>3, AdditionsAreOffers
  <2>5. QED
    BY <2>2, <2>3, <2>4, LoadedAsApproved DEF LoadedWhole
<1>6. QED
  BY <1>2, <1>3, <1>4, <1>5 DEF PluginsIInv, PluginsInv

(* A run has of every enabled plugin the files that were approved and all  *)
(* they add, in nothing's stead, and asks again only about files that      *)
(* changed: for any plugins, versions and places, however often people     *)
(* replace them while it runs.                                             *)
THEOREM PluginsAreApproved == PluginsSpec => []PluginsInv
<1>1. PluginsSpec => []PluginsIInv
  BY PluginsStart, PluginsStep, PTL DEF PluginsSpec
<1>2. QED
  BY <1>1, PluginsPromise, PTL

-----------------------------------------------------------------------------
(* The DNS instances                                                       *)

DnsTypes ==
    /\ dns \in DnsConfigs /\ mode \in {"floating", "port-forward"}
    /\ upToDate \in BOOLEAN /\ dnsEdits \in 0..MaxDnsEdits
    /\ dnsSteps \subseteq Steps(dns)

HasCredentials ==
    \A r \in DOMAIN releases :
        /\ ReleaseName(releases[r]) = r
        /\ releases[r].provider.credentials => releases[r].provider.name \in secrets

\* What a step of a run leaves behind.
Done(s) ==
    LET name == ReleaseName(Instance(dns, s.of, s.namespace))
    IN  /\ s.does = "credentials" => dns.providers[s.of].name \in secrets
        /\ s.does = "install" => name \in DOMAIN releases /\ releases[name] \in Instances(dns)

\* A run is of a configuration that was accepted, and what it did is done.
RunSoFar ==
    dnsSteps # {} => Accepted(dns, mode) /\ \A s \in Steps(dns) \ dnsSteps : Done(s)

\* After a run, what isn't reported is the configuration's.
AsConfigured ==
    upToDate => /\ Accepted(dns, mode)
                /\ \A r \in DOMAIN releases \ reported : releases[r] \in Instances(dns)

DnsIInv == DnsTypes /\ HasCredentials /\ RunSoFar /\ AsConfigured

(* Every namespace of a provider has an instance of it.                    *)
LEMMA InstanceOfEach ==
    ASSUME NEW c, NEW i \in DOMAIN c.providers, NEW n \in c.providers[i].namespaces
    PROVE  Instance(c, i, n) \in Instances(c)
<1> DEFINE each == {{Instance(c, j, m) : m \in c.providers[j].namespaces} : j \in DOMAIN c.providers}
<1>1. Instances(c) = UNION each
  BY DEF Instances
<1>2. {Instance(c, i, m) : m \in c.providers[i].namespaces} \in each
  OBVIOUS
<1>3. Instance(c, i, n) \in {Instance(c, i, m) : m \in c.providers[i].namespaces}
  OBVIOUS
<1> HIDE DEF each
<1>4. QED
  BY <1>1, <1>2, <1>3

(* And an instance is of a provider and one of its namespaces.             *)
LEMMA InstanceOfSome ==
    ASSUME NEW c, NEW instance \in Instances(c)
    PROVE  \E i \in DOMAIN c.providers : \E n \in c.providers[i].namespaces : instance = Instance(c, i, n)
<1> DEFINE each == {{Instance(c, j, m) : m \in c.providers[j].namespaces} : j \in DOMAIN c.providers}
<1>1. Instances(c) = UNION each
  BY DEF Instances
<1>2. PICK e \in each : instance \in e
  BY <1>1
<1>3. PICK j \in DOMAIN c.providers : e = {Instance(c, j, m) : m \in c.providers[j].namespaces}
  BY <1>2
<1>4. QED
  BY <1>2, <1>3

(* A step of a run is for credentials a provider has, for an instance of   *)
(* the configuration, or the last.                                         *)
LEMMA StepsAre ==
    ASSUME NEW c, NEW s \in Steps(c)
    PROVE  /\ s.does \in {"credentials", "install", "inventory"}
           /\ s.does = "inventory" => s = Inventory
           /\ s.does = "credentials" => s.of \in DOMAIN c.providers /\ c.providers[s.of].credentials
           /\ s.does = "install" => /\ s.of \in DOMAIN c.providers
                                    /\ s.namespace \in c.providers[s.of].namespaces
<1> DEFINE each == {{[does |-> "install", of |-> i, namespace |-> n] : n \in c.providers[i].namespaces} :
                       i \in DOMAIN c.providers}
<1>1. Installs(c) = UNION each
  BY DEF Installs
<1>2. CASE s = Inventory
  BY <1>2 DEF Inventory
<1>3. CASE s \in Secrets(c)
  BY <1>3 DEF Secrets
<1>4. CASE s \in Installs(c)
  <2>1. PICK e \in each : s \in e
    BY <1>1, <1>4
  <2>2. PICK j \in DOMAIN c.providers :
            e = {[does |-> "install", of |-> j, namespace |-> n] : n \in c.providers[j].namespaces}
    BY <2>1
  <2>3. PICK n \in c.providers[j].namespaces : s = [does |-> "install", of |-> j, namespace |-> n]
    BY <2>1, <2>2
  <2>4. QED
    BY <2>3
<1>5. QED
  BY <1>2, <1>3, <1>4 DEF Steps

(* Each instance of a configuration is a run's to install, each provider's *)
(* credentials its to apply, when there is something to run.               *)
LEMMA StepsOfEach ==
    ASSUME NEW c, NEW i \in DOMAIN c.providers, NEW n \in c.providers[i].namespaces
    PROVE  /\ [does |-> "install", of |-> i, namespace |-> n] \in Steps(c)
           /\ c.providers[i].credentials => [does |-> "credentials", of |-> i, namespace |-> <<>>] \in Steps(c)
<1> DEFINE each == {{[does |-> "install", of |-> j, namespace |-> m] : m \in c.providers[j].namespaces} :
                       j \in DOMAIN c.providers}
<1>1. Installs(c) = UNION each
  BY DEF Installs
<1>2. {[does |-> "install", of |-> i, namespace |-> m] : m \in c.providers[i].namespaces} \in each
  OBVIOUS
<1>3. [does |-> "install", of |-> i, namespace |-> n]
          \in {[does |-> "install", of |-> i, namespace |-> m] : m \in c.providers[i].namespaces}
  OBVIOUS
<1> HIDE DEF each
<1>4. [does |-> "install", of |-> i, namespace |-> n] \in Installs(c)
  BY <1>1, <1>2, <1>3
<1>5. c.providers[i].credentials => [does |-> "credentials", of |-> i, namespace |-> <<>>] \in Secrets(c)
  BY DEF Secrets
<1>6. Instances(c) # {}
  BY InstanceOfEach
<1>7. QED
  BY <1>4, <1>5, <1>6 DEF Steps

-----------------------------------------------------------------------------
(* The steps of a run                                                      *)

(* Credentials are applied before any instance is installed.               *)
LEMMA CredentialsKeep ==
    ASSUME DnsIInv, ApplyCredentials
    PROVE  DnsIInv'
<1>1. PICK s \in dnsSteps :
          /\ NextStep(s, "credentials")
          /\ secrets' = secrets \union {dns.providers[s.of].name}
  BY DEF ApplyCredentials
<1>2. UNCHANGED <<dns, mode, releases, reported, upToDate, dnsEdits>> /\ dnsSteps' = dnsSteps \ {s}
  BY <1>1 DEF ApplyCredentials, NextStep
<1>3. DnsTypes' /\ AsConfigured' /\ HasCredentials'
  BY <1>1, <1>2 DEF DnsIInv, DnsTypes, AsConfigured, HasCredentials
<1>4. RunSoFar'
  <2>1. Accepted(dns, mode)' /\ \A t \in Steps(dns) \ dnsSteps : Done(t)
    BY <1>2 DEF DnsIInv, RunSoFar, Accepted, Conflicts, HasTarget
  <2>2. Done(s)'
    BY <1>1, <1>2 DEF Done, NextStep
  <2>3. \A t \in Steps(dns) \ dnsSteps : Done(t)'
    BY <1>1, <1>2, <2>1 DEF Done
  <2>4. QED
    BY <1>2, <2>1, <2>2, <2>3 DEF RunSoFar
<1>5. QED
  BY <1>3, <1>4 DEF DnsIInv

(* An instance is installed when its credentials are there.                *)
LEMMA InstallKeeps ==
    ASSUME DnsIInv, InstallInstance
    PROVE  DnsIInv'
<1>1. PICK s \in dnsSteps :
          LET instance == Instance(dns, s.of, s.namespace)
          IN  /\ NextStep(s, "install")
              /\ releases' = [r \in DOMAIN releases \union {ReleaseName(instance)} |->
                                IF r = ReleaseName(instance) THEN instance ELSE releases[r]]
  BY DEF InstallInstance
<1>2. /\ UNCHANGED <<dns, mode, secrets, reported, upToDate, dnsEdits>>
      /\ dnsSteps' = dnsSteps \ {s} /\ s.does = "install" /\ \A t \in dnsSteps : ~Earlier(t, s)
  BY <1>1 DEF InstallInstance, NextStep
<1>3. dnsSteps \subseteq Steps(dns) /\ dnsSteps # {} /\ s \in Steps(dns)
  BY <1>1 DEF DnsIInv, DnsTypes
<1>4. s.of \in DOMAIN dns.providers /\ s.namespace \in dns.providers[s.of].namespaces
  BY <1>2, <1>3, StepsAre
<1>5. PICK instance \in Instances(dns) : instance = Instance(dns, s.of, s.namespace)
  BY <1>4, InstanceOfEach
<1>6. PICK name : name = ReleaseName(instance)
  OBVIOUS
<1>7. /\ DOMAIN releases' = DOMAIN releases \union {name} /\ releases'[name] = instance
      /\ \A r \in DOMAIN releases \ {name} : releases'[r] = releases[r]
  BY <1>1, <1>5, <1>6
<1>8. instance.provider = dns.providers[s.of]
  BY <1>5 DEF Instance
<1>9. instance.provider.credentials => instance.provider.name \in secrets
  <2>1. SUFFICES ASSUME dns.providers[s.of].credentials
                 PROVE  dns.providers[s.of].name \in secrets
    BY <1>8
  <2>2. PICK t \in Steps(dns) : t = [does |-> "credentials", of |-> s.of, namespace |-> <<>>]
    BY <1>4, <2>1, StepsOfEach
  <2>3. t.does = "credentials" /\ t.of = s.of
    BY <2>2
  <2>4. t \notin dnsSteps
    BY <1>2, <2>3 DEF Earlier, Stage
  <2>5. Done(t)
    BY <1>3, <2>4 DEF DnsIInv, RunSoFar
  <2>6. QED
    BY <2>3, <2>5 DEF Done
<1>10. HasCredentials'
  BY <1>2, <1>6, <1>7, <1>9 DEF DnsIInv, HasCredentials
<1>11. DnsTypes'
  BY <1>2 DEF DnsIInv, DnsTypes
<1>12. Accepted(dns, mode)' /\ Accepted(dns, mode)
  BY <1>2, <1>3 DEF DnsIInv, RunSoFar, Accepted, Conflicts, HasTarget
<1>13. AsConfigured'
  BY <1>2, <1>5, <1>7, <1>12 DEF DnsIInv, AsConfigured
<1>14. RunSoFar'
  <2>1. SUFFICES ASSUME NEW t \in Steps(dns), t \notin dnsSteps' PROVE Done(t)'
    BY <1>2, <1>12 DEF RunSoFar
  <2>2. CASE t = s
    BY <1>2, <1>5, <1>6, <1>7, <2>2 DEF Done
  <2>3. CASE t # s
    <3>1. Done(t)
      BY <1>2, <1>3, <2>1, <2>3 DEF DnsIInv, RunSoFar
    <3>2. QED
      BY <1>2, <1>5, <1>7, <3>1 DEF Done
  <2>4. QED
    BY <2>2, <2>3
<1>15. QED
  BY <1>10, <1>11, <1>13, <1>14 DEF DnsIInv

(* When a run ends, what isn't reported is one of its instances.           *)
LEMMA ReportKeeps ==
    ASSUME DnsIInv, ReportLeftOver
    PROVE  DnsIInv'
<1>1. PICK s \in dnsSteps : NextStep(s, "inventory")
  BY DEF ReportLeftOver
<1>2. /\ reported' = LeftOver(dns) /\ upToDate' = TRUE /\ dnsSteps' = dnsSteps \ {s}
      /\ UNCHANGED <<dns, mode, secrets, releases, dnsEdits>>
      /\ s.does = "inventory" /\ \A t \in dnsSteps : ~Earlier(t, s)
  BY <1>1 DEF ReportLeftOver, NextStep
<1>3. dnsSteps \subseteq Steps(dns) /\ Accepted(dns, mode) /\ \A t \in Steps(dns) \ dnsSteps : Done(t)
  BY <1>1 DEF DnsIInv, DnsTypes, RunSoFar
<1>4. ASSUME NEW t \in dnsSteps PROVE t = s
  <2>1. t \in Steps(dns) /\ s \in Steps(dns)
    BY <1>3
  <2>2. s = Inventory
    BY <1>2, <2>1, StepsAre
  <2>3. t.does \in {"credentials", "install", "inventory"} /\ (t.does = "inventory" => t = Inventory)
    BY <2>1, StepsAre
  <2>4. t.does = "inventory"
    BY <1>2, <2>3 DEF Earlier, Stage
  <2>5. QED
    BY <2>2, <2>3, <2>4
<1>5. dnsSteps' = {}
  BY <1>2, <1>4
<1>6. ASSUME NEW r \in DOMAIN releases, r \notin reported' PROVE releases[r] \in Instances(dns)
  <2>1. PICK instance \in Instances(dns) : r = ReleaseName(instance)
    BY <1>2, <1>6 DEF LeftOver
  <2>2. PICK i \in DOMAIN dns.providers :
            \E n \in dns.providers[i].namespaces : instance = Instance(dns, i, n)
    BY InstanceOfSome
  <2>3. PICK n \in dns.providers[i].namespaces : instance = Instance(dns, i, n)
    BY <2>2
  <2>4. PICK t \in Steps(dns) : t = [does |-> "install", of |-> i, namespace |-> n]
    BY StepsOfEach
  <2>5. t.does = "install" /\ t.of = i /\ t.namespace = n
    BY <2>4
  <2>6. t \notin dnsSteps
    BY <1>2, <1>4, <2>5
  <2>7. Done(t)
    BY <1>3, <2>6
  <2>8. QED
    BY <2>1, <2>3, <2>5, <2>7 DEF Done
<1>7. Accepted(dns, mode)'
  BY <1>2, <1>3 DEF Accepted, Conflicts, HasTarget
<1>8. AsConfigured'
  BY <1>2, <1>6, <1>7 DEF AsConfigured
<1>9. DnsTypes' /\ HasCredentials' /\ RunSoFar'
  BY <1>2, <1>5 DEF DnsIInv, DnsTypes, HasCredentials, RunSoFar
<1>10. QED
  BY <1>8, <1>9 DEF DnsIInv

-----------------------------------------------------------------------------
(* The invariant                                                           *)

(* The other steps, and none.                                              *)
LEMMA DnsStep ==
    DnsIInv /\ [DnsNext]_dnsVars => DnsIInv'
<1> SUFFICES ASSUME DnsIInv, [DnsNext]_dnsVars PROVE DnsIInv'
  OBVIOUS
<1>1. CASE EditDns
  <2>1. /\ dnsSteps = {} /\ dnsEdits < MaxDnsEdits
        /\ upToDate' = FALSE /\ dnsEdits' = dnsEdits + 1
        /\ UNCHANGED <<secrets, releases, dnsSteps, reported>>
        /\ dns' \in DnsConfigs /\ mode' \in {"floating", "port-forward"}
    BY <1>1 DEF EditDns
  <2>2. dnsEdits' \in 0..MaxDnsEdits
    BY <2>1, DnsAssumption DEF DnsIInv, DnsTypes
  <2>3. QED
    BY <2>1, <2>2 DEF DnsIInv, DnsTypes, HasCredentials, RunSoFar, AsConfigured
<1>2. CASE StartDns
  <2>1. /\ dnsSteps' = Steps(dns) /\ Accepted(dns, mode)
        /\ UNCHANGED <<dns, mode, secrets, releases, reported, upToDate, dnsEdits>>
    BY <1>2 DEF StartDns
  <2>2. Accepted(dns, mode)' /\ Steps(dns)' = Steps(dns)
    BY <2>1 DEF Accepted, Conflicts, HasTarget, Steps
  <2>3. DnsTypes' /\ HasCredentials'
    BY <2>1, <2>2 DEF DnsIInv, DnsTypes, HasCredentials
  <2>4. RunSoFar'
    BY <2>1, <2>2 DEF RunSoFar
  <2>5. AsConfigured'
    BY <2>1, <2>2 DEF DnsIInv, AsConfigured
  <2>6. QED
    BY <2>3, <2>4, <2>5 DEF DnsIInv
<1>3. CASE ApplyCredentials
  BY <1>3, CredentialsKeep
<1>4. CASE InstallInstance
  BY <1>4, InstallKeeps
<1>5. CASE ReportLeftOver
  BY <1>5, ReportKeeps
<1>6. CASE StopDns
  BY <1>6 DEF StopDns, DnsIInv, DnsTypes, HasCredentials, RunSoFar, AsConfigured, Accepted, Conflicts, HasTarget
<1>7. CASE UninstallLeftOver
  <2>1. PICK r : /\ releases' = [q \in DOMAIN releases \ {r} |-> releases[q]]
                 /\ dnsSteps = {} /\ UNCHANGED <<dns, mode, secrets, dnsSteps, reported, upToDate, dnsEdits>>
    BY <1>7 DEF UninstallLeftOver
  <2>2. DOMAIN releases' = DOMAIN releases \ {r} /\ \A q \in DOMAIN releases' : releases'[q] = releases[q]
    BY <2>1
  <2>3. Accepted(dns, mode)' <=> Accepted(dns, mode)
    BY <2>1 DEF Accepted, Conflicts, HasTarget
  <2>4. DnsTypes' /\ HasCredentials' /\ RunSoFar'
    BY <2>1, <2>2 DEF DnsIInv, DnsTypes, HasCredentials, RunSoFar
  <2>5. AsConfigured'
    BY <2>1, <2>2, <2>3 DEF DnsIInv, AsConfigured
  <2>6. QED
    BY <2>4, <2>5 DEF DnsIInv
<1>8. CASE UNCHANGED dnsVars
  BY <1>8 DEF dnsVars, DnsIInv, DnsTypes, HasCredentials, RunSoFar, AsConfigured, Done, Accepted, Conflicts,
              HasTarget
<1>9. QED
  BY <1>1, <1>2, <1>3, <1>4, <1>5, <1>6, <1>7, <1>8 DEF DnsNext

(* It holds before the first run.                                          *)
LEMMA DnsStart ==
    DnsInit => DnsIInv
<1> SUFFICES ASSUME DnsInit PROVE DnsIInv
  OBVIOUS
<1>1. DOMAIN releases = {} /\ dnsEdits \in 0..MaxDnsEdits
  BY DnsAssumption DEF DnsInit
<1>2. QED
  BY <1>1 DEF DnsInit, DnsIInv, DnsTypes, HasCredentials, RunSoFar, AsConfigured

(* It says what is promised: the instances of a configuration that was     *)
(* accepted can't write each other's names.                                *)
LEMMA DnsPromise ==
    DnsIInv => DnsBundleInv
<1> SUFFICES ASSUME DnsIInv PROVE DnsBundleInv
  OBVIOUS
<1>1. DnsTypeOK
  BY DEF DnsIInv, DnsTypes, HasCredentials, DnsTypeOK
<1>2. ASSUME upToDate, NEW s \in Trusted PROVE s \in Instances(dns)
  BY <1>2 DEF Trusted, DnsIInv, AsConfigured
<1>3. NobodyElsesNames
  <2>1. SUFFICES ASSUME upToDate, NEW s \in Trusted, NEW t \in Trusted
                 PROVE  ~Zones!Conflict(s.provider, t.provider)
    BY DEF NobodyElsesNames
  <2>2. PICK i \in DOMAIN dns.providers :
            \E n \in dns.providers[i].namespaces : s = Instance(dns, i, n)
    BY <1>2, <2>1, InstanceOfSome
  <2>3. PICK j \in DOMAIN dns.providers :
            \E n \in dns.providers[j].namespaces : t = Instance(dns, j, n)
    BY <1>2, <2>1, InstanceOfSome
  <2>4. s.provider = dns.providers[i] /\ t.provider = dns.providers[j]
    BY <2>2, <2>3 DEF Instance
  <2>5. CASE i = j
    BY <2>4, <2>5 DEF Zones!Conflict
  <2>6. CASE i # j
    BY <2>1, <2>4, <2>6 DEF DnsIInv, AsConfigured, Accepted, Conflicts
  <2>7. QED
    BY <2>5, <2>6
<1>4. RouterIsPublished
  <2>1. SUFFICES ASSUME upToDate, mode = "port-forward", NEW s \in Trusted
                 PROVE  s.target # "none"
    BY DEF RouterIsPublished
  <2>2. PICK i \in DOMAIN dns.providers :
            \E n \in dns.providers[i].namespaces : s = Instance(dns, i, n)
    BY <1>2, <2>1, InstanceOfSome
  <2>3. HasTarget(dns, dns.providers[i])
    BY <2>1 DEF DnsIInv, AsConfigured, Accepted
  <2>4. QED
    BY <2>2, <2>3 DEF Instance, HasTarget
<1>5. QED
  BY <1>1, <1>3, <1>4 DEF DnsBundleInv

(* After a run, whatever ran before it, the instances that aren't reported *)
(* as left over can't write each other's names and publish an address that *)
(* can be reached; and each has its credentials however far a run got: for *)
(* any domains, and any configurations.                                    *)
THEOREM DnsIsApart == DnsSpec => []DnsBundleInv
<1>1. DnsSpec => []DnsIInv
  BY DnsStart, DnsStep, PTL DEF DnsSpec
<1>2. QED
  BY <1>1, DnsPromise, PTL

-----------------------------------------------------------------------------
(* Preflight: what is said of a configuration                              *)

(* There are ten checks.                                                   *)
LEMMA TenChecks == Len(Check) = 10 /\ DOMAIN Check = 1 .. 10
BY DEF Check

(* What FilesAssumption says of one file.                                  *)
Written(f) ==
    /\ f.nodes \in Seq([name : STRING, registered : STRING, address : STRING, ip : STRING,
                        shown : STRING, region : STRING, storage : BOOLEAN,
                        server : BOOLEAN, gateway : BOOLEAN])
    /\ \A i, j \in DOMAIN f.nodes : f.nodes[i].name = f.nodes[j].name => i = j
    /\ f.volumeServers \in Nat

(* Nobody has what an earlier node has just when no two have the same,     *)
(* where each has something.                                               *)
LEMMA NoneTaken ==
    ASSUME NEW f, Written(f), NEW key,
           \A i, j \in DOMAIN f.nodes : i # j /\ key[i] # Unset => key[i] # key[j]
    PROVE  Taken(f, key) = {}
<1>1. DOMAIN f.nodes = 1 .. Len(f.nodes) /\ Len(f.nodes) \in Nat
  BY DEF Written
<1>2. ~ \E i \in DOMAIN f.nodes : key[i] # Unset /\ \E j \in 1 .. (i - 1) : key[j] = key[i]
  <2> SUFFICES ASSUME NEW i \in DOMAIN f.nodes, key[i] # Unset,
                      NEW j \in 1 .. (i - 1), key[j] = key[i]
               PROVE  FALSE
    OBVIOUS
  <2>1. j \in DOMAIN f.nodes /\ i # j
    BY <1>1
  <2> QED  BY <2>1
<1> QED  BY <1>2 DEF Taken

(* And where nobody has what an earlier node has, no two have the same.    *)
LEMMA TakenIsFound ==
    ASSUME NEW f, Written(f), NEW key, Taken(f, key) = {},
           NEW i \in DOMAIN f.nodes, NEW j \in DOMAIN f.nodes, i # j, key[i] # Unset
    PROVE  key[i] # key[j]
<1>1. DOMAIN f.nodes = 1 .. Len(f.nodes) /\ Len(f.nodes) \in Nat
  BY DEF Written
<1>2. ASSUME NEW m \in DOMAIN f.nodes, NEW k \in 1 .. (m - 1), key[m] # Unset
      PROVE  key[k] # key[m]
  BY <1>2 DEF Taken
<1>3. CASE i < j
  <2>1. i \in 1 .. (j - 1)
    BY <1>1, <1>3
  <2> QED  BY <1>2, <2>1
<1>4. CASE j < i
  <2>1. j \in 1 .. (i - 1)
    BY <1>1, <1>4
  <2> QED  BY <1>2, <2>1
<1>5. i < j \/ j < i
  BY <1>1
<1> QED  BY <1>3, <1>4, <1>5

(* One server is one server.                                               *)
LEMMA OneServer ==
    ASSUME NEW f, Written(f)
    PROVE  ServerProblems(f) = {}
           <=> \E i \in DOMAIN f.nodes : \A j \in DOMAIN f.nodes : f.nodes[j].server <=> j = i
<1> DEFINE S == {i \in DOMAIN f.nodes : f.nodes[i].server}
<1>1. DOMAIN f.nodes = 1 .. Len(f.nodes) /\ Len(f.nodes) \in Nat
  BY DEF Written
<1>2. IsFiniteSet(S)
  <2>1. IsFiniteSet(1 .. Len(f.nodes))
    BY <1>1, FS_Interval
  <2>2. S \subseteq 1 .. Len(f.nodes)
    BY <1>1
  <2> QED  BY <2>1, <2>2, FS_Subset
<1>3. ServerProblems(f) = {} <=> Cardinality(S) = 1
  BY DEF ServerProblems, Says
<1>4. Cardinality(S) = 1 <=> \E i : S = {i}
  <2>1. ASSUME Cardinality(S) = 1 PROVE \E i : S = {i}
    BY <1>2, <2>1, FS_CardinalityType, FS_Singleton
  <2>2. ASSUME NEW i, S = {i} PROVE Cardinality(S) = 1
    BY <2>2, FS_Singleton
  <2> QED  BY <2>1, <2>2
<1>5. (\E i : S = {i}) <=> \E i \in DOMAIN f.nodes : \A j \in DOMAIN f.nodes : j \in S <=> j = i
  <2>1. ASSUME NEW i, S = {i}
        PROVE  \E k \in DOMAIN f.nodes : \A j \in DOMAIN f.nodes : j \in S <=> j = k
    <3>1. i \in DOMAIN f.nodes
      BY <2>1
    <3> QED  BY <2>1, <3>1
  <2>2. ASSUME NEW i \in DOMAIN f.nodes, \A j \in DOMAIN f.nodes : j \in S <=> j = i
        PROVE  \E k : S = {k}
    <3>1. S = {i}
      BY <2>2
    <3> QED  BY <3>1
  <2> QED  BY <2>1, <2>2
<1>6. \A j \in DOMAIN f.nodes : f.nodes[j].server <=> j \in S
  OBVIOUS
<1> QED  BY <1>3, <1>4, <1>5, <1>6

(* Each volume server has a node to itself just when there are as many.    *)
LEMMA RoomForVolumes ==
    ASSUME NEW f, Written(f)
    PROVE  StorageProblems(f) = {}
           <=> \E own \in [1 .. f.volumeServers -> DOMAIN f.nodes] :
                 \A v, w \in 1 .. f.volumeServers :
                     f.nodes[own[v]].storage /\ (own[v] = own[w] => v = w)
<1> DEFINE S == {i \in DOMAIN f.nodes : f.nodes[i].storage}
           V == f.volumeServers
<1>1. DOMAIN f.nodes = 1 .. Len(f.nodes) /\ Len(f.nodes) \in Nat /\ V \in Nat
  BY DEF Written
<1>2. IsFiniteSet(S)
  <2>1. IsFiniteSet(1 .. Len(f.nodes))
    BY <1>1, FS_Interval
  <2>2. S \subseteq 1 .. Len(f.nodes)
    BY <1>1
  <2> QED  BY <2>1, <2>2, FS_Subset
<1>3. Cardinality(S) \in Nat
  BY <1>2, FS_CardinalityType
<1>4. StorageProblems(f) = {} <=> V <= Cardinality(S)
  <2>1. StorageProblems(f) = IF V > Cardinality(S) THEN {<<"volume servers", Unset>>} ELSE {}
    BY Zenon DEF StorageProblems, Says
  <2>2. ASSUME NEW v \in Nat, NEW c \in Nat PROVE v > c <=> ~(v <= c)
    OBVIOUS
  <2>3. V > Cardinality(S) <=> ~(V <= Cardinality(S))
    BY <1>1, <1>3, <2>2
  <2>4. {<<"volume servers", Unset>>} # {}
    OBVIOUS
  <2> QED  BY <2>1, <2>3, <2>4, Zenon
<1>5. ASSUME V <= Cardinality(S)
      PROVE  \E own \in [1 .. V -> DOMAIN f.nodes] :
                 \A v, w \in 1 .. V : f.nodes[own[v]].storage /\ (own[v] = own[w] => v = w)
  <2>1. PICK b : b \in Bijection(1 .. Cardinality(S), S)
    BY <1>2, FS_CardinalityType DEF ExistsBijection
  <2>2. /\ b \in [1 .. Cardinality(S) -> S]
        /\ \A v, w \in 1 .. Cardinality(S) : b[v] = b[w] => v = w
    BY <2>1 DEF Bijection, Injection, IsInjective
  <2> DEFINE own == [v \in 1 .. V |-> b[v]]
  <2>3. \A v \in 1 .. V : v \in 1 .. Cardinality(S)
    BY <1>1, <1>3, <1>5
  <2>4. own \in [1 .. V -> DOMAIN f.nodes]
    BY <2>2, <2>3
  <2>5. \A v, w \in 1 .. V : f.nodes[own[v]].storage /\ (own[v] = own[w] => v = w)
    BY <2>2, <2>3
  <2> QED  BY <2>4, <2>5
<1>6. ASSUME NEW own \in [1 .. V -> DOMAIN f.nodes],
             \A v, w \in 1 .. V : f.nodes[own[v]].storage /\ (own[v] = own[w] => v = w)
      PROVE  V <= Cardinality(S)
  <2>1. own \in [1 .. V -> S]
    BY <1>6
  <2>2. own \in Injection(1 .. V, S)
    BY <1>6, <2>1 DEF Injection, IsInjective
  <2>3. Cardinality(1 .. V) <= Cardinality(S)
    BY <1>2, <2>2, FS_Injection
  <2>4. Cardinality(1 .. V) = V
    BY <1>1, FS_Interval
  <2> QED  BY <2>3, <2>4
<1> QED  BY <1>4, <1>5, <1>6

(* Each node has a name, and each name is one node's; the same of addresses *)
(* and of what is shown.                                                    *)
LEMMA NodesNamedApart ==
    ASSUME NEW f, Written(f)
    PROVE  NameProblems(f) = {}
           <=> /\ \A i \in DOMAIN f.nodes : f.nodes[i].registered # Unset /\ f.nodes[i].address # Unset
               /\ Apart(f, "registered")
<1> DEFINE key == Field(f, "registered", Unset)
<1>1. \A i \in DOMAIN f.nodes : key[i] = f.nodes[i].registered
  BY DEF Field
<1>2. ASSUME NameProblems(f) = {}
      PROVE  \A i \in DOMAIN f.nodes : f.nodes[i].registered # Unset
  BY <1>2 DEF NameProblems
<1>3. ASSUME NameProblems(f) = {}
      PROVE  \A i \in DOMAIN f.nodes : f.nodes[i].address # Unset
  BY <1>2, <1>3 DEF NameProblems
<1>4. ASSUME NameProblems(f) = {}
      PROVE  Apart(f, "registered")
  <2>1. Taken(f, key) = {}
    BY <1>4 DEF NameProblems
  <2>2. \A i, j \in DOMAIN f.nodes : i # j /\ key[i] # Unset => key[i] # key[j]
    BY <2>1, TakenIsFound
  <2> QED  BY <1>1, <2>2 DEF Apart
<1>5. ASSUME \A i \in DOMAIN f.nodes : f.nodes[i].registered # Unset /\ f.nodes[i].address # Unset,
             Apart(f, "registered")
      PROVE  NameProblems(f) = {}
  <2>1. \A i, j \in DOMAIN f.nodes : i # j /\ key[i] # Unset => key[i] # key[j]
    BY <1>1, <1>5 DEF Apart
  <2>2. Taken(f, key) = {}
    BY <2>1, NoneTaken
  <2> QED  BY <1>5, <2>2 DEF NameProblems
<1> QED  BY <1>2, <1>3, <1>4, <1>5

(* Addresses are addresses, and each is one node's.                        *)
LEMMA AddressesApart ==
    ASSUME NEW f, Written(f)
    PROVE  AddressProblems(f) = {}
           <=> (\A i \in DOMAIN f.nodes : f.nodes[i].ip # "name") /\ Apart(f, "ip")
<1> DEFINE key == Field(f, "ip", "name")
<1>1. ASSUME \A i \in DOMAIN f.nodes : f.nodes[i].ip # "name"
      PROVE  \A i \in DOMAIN f.nodes : key[i] = f.nodes[i].ip
  BY <1>1 DEF Field
<1>2. ASSUME AddressProblems(f) = {}
      PROVE  \A i \in DOMAIN f.nodes : f.nodes[i].ip # "name"
  BY <1>2 DEF AddressProblems
<1>3. ASSUME AddressProblems(f) = {}
      PROVE  Apart(f, "ip")
  <2>1. Taken(f, key) = {}
    BY <1>3 DEF AddressProblems
  <2>2. \A i, j \in DOMAIN f.nodes : i # j /\ key[i] # Unset => key[i] # key[j]
    BY <2>1, TakenIsFound
  <2> QED  BY <1>1, <1>2, <1>3, <2>2 DEF Apart
<1>4. ASSUME \A i \in DOMAIN f.nodes : f.nodes[i].ip # "name", Apart(f, "ip")
      PROVE  AddressProblems(f) = {}
  <2>1. \A i, j \in DOMAIN f.nodes : i # j /\ key[i] # Unset => key[i] # key[j]
    BY <1>1, <1>4 DEF Apart
  <2>2. Taken(f, key) = {}
    BY <2>1, NoneTaken
  <2> QED  BY <1>4, <2>2 DEF AddressProblems
<1> QED  BY <1>2, <1>3, <1>4

(* What is shown of a node is something, and of no other.                  *)
LEMMA ShownApart ==
    ASSUME NEW f, Written(f)
    PROVE  DisplayProblems(f) = {}
           <=> (\A i \in DOMAIN f.nodes : f.nodes[i].shown # "blank") /\ Apart(f, "shown")
<1> DEFINE key == Field(f, "shown", "blank")
<1>1. ASSUME \A i \in DOMAIN f.nodes : f.nodes[i].shown # "blank"
      PROVE  \A i \in DOMAIN f.nodes : key[i] = f.nodes[i].shown
  BY <1>1 DEF Field
<1>2. ASSUME DisplayProblems(f) = {}
      PROVE  \A i \in DOMAIN f.nodes : f.nodes[i].shown # "blank"
  BY <1>2 DEF DisplayProblems
<1>3. ASSUME DisplayProblems(f) = {}
      PROVE  Apart(f, "shown")
  <2>1. Taken(f, key) = {}
    BY <1>3 DEF DisplayProblems
  <2>2. \A i, j \in DOMAIN f.nodes : i # j /\ key[i] # Unset => key[i] # key[j]
    BY <2>1, TakenIsFound
  <2> QED  BY <1>1, <1>2, <1>3, <2>2 DEF Apart
<1>4. ASSUME \A i \in DOMAIN f.nodes : f.nodes[i].shown # "blank", Apart(f, "shown")
      PROVE  DisplayProblems(f) = {}
  <2>1. \A i, j \in DOMAIN f.nodes : i # j /\ key[i] # Unset => key[i] # key[j]
    BY <1>1, <1>4 DEF Apart
  <2>2. Taken(f, key) = {}
    BY <2>1, NoneTaken
  <2> QED  BY <1>4, <2>2 DEF DisplayProblems
<1> QED  BY <1>2, <1>3, <1>4

(* Packages have what they need.                                           *)
LEMMA PackagesProvided ==
    ASSUME NEW f
    PROVE  PackageProblems(f) = {}
           <=> \A p \in f.packages :
                  /\ p \in DOMAIN Provided /\ Provided[p].values \subseteq f.values
                  /\ f.mail \in Provided[p].security \/ Provided[p].security = {} \/ f.mail = Unset
<1> DEFINE Of(p) == IF p \notin DOMAIN Provided THEN {<<"not a package", p>>}
                    ELSE {<<"value not set", v>> : v \in Provided[p].values \ f.values}
                         \union Says(<<"mail can't be sent", p>>,
                                     f.mail # Unset /\ Provided[p].security # {}
                                     /\ f.mail \notin Provided[p].security)
<1>1. PackageProblems(f) = UNION {Of(p) : p \in f.packages}
  BY Zenon DEF PackageProblems
<1>2. ASSUME NEW p
      PROVE  Of(p) = {} <=> /\ p \in DOMAIN Provided /\ Provided[p].values \subseteq f.values
                            /\ f.mail \in Provided[p].security \/ Provided[p].security = {} \/ f.mail = Unset
  BY DEF Says
<1> HIDE DEF Of
<1>3. UNION {Of(p) : p \in f.packages} = {} <=> \A p \in f.packages : Of(p) = {}
  OBVIOUS
<1> QED  BY <1>1, <1>2, <1>3

(* A configuration nothing is said of is one of a cluster that could be.   *)
LEMMA CheckedCouldExist ==
    ASSUME NEW f \in Files
    PROVE  CheckConfiguration(f) = {} <=> CouldExist(f)
<1>1. Written(f)
  BY FilesAssumption DEF Written
<1>2. {f.mesh.network, f.mesh.key, f.mesh.inFile, f.mesh.settings, f.signIn.used,
       f.signIn.whole, f.signIn.groupGetsIn} \subseteq BOOLEAN
  BY FilesAssumption
<1>3. SchemaProblems(f) = {} <=> f.wrong = {}
  BY DEF SchemaProblems
<1>4. TokenProblems(f) = {} <=> f.token \notin {Unset, "malformed"}
  BY DEF TokenProblems, Says
<1>5. MeshProblems(f) = {}
      <=> /\ f.mesh.network => f.mesh.key
          /\ ~f.mesh.network => ~f.mesh.settings /\ ~f.mesh.inFile
  BY <1>2, Zenon DEF MeshProblems, Says
<1>6. PlacementProblems(f) = {}
      <=> \A n \in DOMAIN f.placement : \E i \in DOMAIN f.nodes : f.nodes[i].region = f.placement[n]
  BY DEF PlacementProblems
<1>7. SignInProblems(f) = {} <=> (f.signIn.used => f.signIn.whole /\ f.signIn.groupGetsIn)
  BY <1>2, Zenon DEF SignInProblems, Says
<1>8. CASE f.nodes = <<>>
  <2>1. CheckConfiguration(f) # {}
    BY <1>8 DEF CheckConfiguration
  <2>2. ~ CouldExist(f)
    BY <1>8 DEF CouldExist
  <2> QED  BY <2>1, <2>2
<1>9. CASE f.nodes # <<>>
  <2>1. CheckConfiguration(f) = {}
        <=> /\ SchemaProblems(f) = {} /\ ServerProblems(f) = {} /\ TokenProblems(f) = {}
            /\ NameProblems(f) = {} /\ AddressProblems(f) = {} /\ DisplayProblems(f) = {}
            /\ PackageProblems(f) = {} /\ StorageProblems(f) = {} /\ MeshProblems(f) = {}
            /\ PlacementProblems(f) = {} /\ SignInProblems(f) = {}
    BY <1>9 DEF CheckConfiguration
  <2> DEFINE Unlike == (\A i \in DOMAIN f.nodes : /\ f.nodes[i].registered # Unset
                                                  /\ f.nodes[i].address # Unset
                                                  /\ f.nodes[i].ip # "name"
                                                  /\ f.nodes[i].shown # "blank")
                       /\ Apart(f, "registered") /\ Apart(f, "ip") /\ Apart(f, "shown")
             Served == \E i \in DOMAIN f.nodes : \A j \in DOMAIN f.nodes : f.nodes[j].server <=> j = i
             Filled == \A p \in f.packages :
                          /\ p \in DOMAIN Provided /\ Provided[p].values \subseteq f.values
                          /\ \/ f.mail \in Provided[p].security \/ Provided[p].security = {}
                             \/ f.mail = Unset
             Roomy  == \E own \in [1..f.volumeServers -> DOMAIN f.nodes] :
                          \A v, w \in 1..f.volumeServers :
                              f.nodes[own[v]].storage /\ (own[v] = own[w] => v = w)
             Placed == \A n \in DOMAIN f.placement :
                          \E i \in DOMAIN f.nodes : f.nodes[i].region = f.placement[n]
  <2>2. NameProblems(f) = {} /\ AddressProblems(f) = {} /\ DisplayProblems(f) = {} <=> Unlike
    BY <1>1, NodesNamedApart, AddressesApart, ShownApart
  <2>3. ServerProblems(f) = {} <=> Served
    BY <1>1, OneServer
  <2>4. PackageProblems(f) = {} <=> Filled
    BY PackagesProvided
  <2>5. StorageProblems(f) = {} <=> Roomy
    BY <1>1, RoomForVolumes
  <2>6. PlacementProblems(f) = {} <=> Placed
    BY <1>6
  <2>7. CouldExist(f)
        <=> /\ f.wrong = {} /\ f.token \notin {Unset, "malformed"}
            /\ Served /\ Unlike /\ Filled /\ Roomy
            /\ f.mesh.network => f.mesh.key
            /\ ~f.mesh.network => ~f.mesh.settings /\ ~f.mesh.inFile
            /\ Placed
            /\ f.signIn.used => f.signIn.whole /\ f.signIn.groupGetsIn
    BY Zenon DEF CouldExist
  <2> HIDE DEF Unlike, Served, Filled, Roomy, Placed
  <2> QED
    BY <1>3, <1>4, <1>5, <1>7, <2>1, <2>2, <2>3, <2>4, <2>5, <2>6, <2>7
<1> QED  BY <1>8, <1>9

-----------------------------------------------------------------------------
(* Preflight: what it comes to                                             *)

Rest == {todo[k] : k \in 1 .. Len(todo)}

Failed(n, what) == [where |-> n, what |-> <<what, n>>]

\* What there is to show for check i of a node, once it was its turn: an answer
\* while the connection held, nothing where it was lost, failures after that.
Shown(n, i) ==
    \/ Skipped(n, Check[i])
    \/ /\ lostAt[n] = 0 \/ i < lostAt[n]
       /\ \/ Passes(n, Check[i]) /\ Check[i] \in answered[n]
          \/ ~Passes(n, Check[i]) /\ Failed(n, Check[i]) \in told
    \/ lostAt[n] = i
    \/ lostAt[n] # 0 /\ lostAt[n] < i /\ Failed(n, Check[i]) \in told

\* A node preflight is done with.
DoneWith(n) ==
    IF n \in machines.off THEN Failed(n, "unreachable") \in told
    ELSE \A i \in 1 .. 10 : Shown(n, i)

PreflightTyped ==
    /\ file \in Files
    /\ phase \in {"configuration", "nodes", "ready", "trouble", "refused", "threw"}
    /\ line \in {"none", "up", "dead"} /\ turn \in 1 .. 11 /\ closed \in Nat
    /\ todo \in Seq(Names(file)) /\ \A k, l \in 1 .. Len(todo) : todo[k] = todo[l] => k = l
    /\ DOMAIN answered = Names(file) /\ lostAt \in [Names(file) -> 0 .. 10]

\* Nothing has happened yet.
AtFirst ==
    /\ todo = <<>> /\ line = "none" /\ closed = 0
    /\ \A n \in Names(file) : lostAt[n] = 0

Questioned == phase \in {"nodes", "ready", "trouble"}

\* The node that is connected to, and what was heard of it so far.
OnTheLine ==
    line # "none" =>
        /\ phase = "nodes" /\ todo # <<>> /\ Where \notin machines.off
        /\ \A i \in 1 .. 10 : i < turn => Shown(Where, i)
        /\ IF line = "up" THEN lostAt[Where] = 0 ELSE lostAt[Where] # 0 /\ lostAt[Where] < turn

PreflightIInv ==
    /\ PreflightTyped
    /\ phase = "configuration" => AtFirst
    /\ Questioned =>
          /\ CouldExist(file) <=> ~\E t \in told : t.where = "configuration"
          /\ Rest \subseteq Asked
          /\ \A n \in Asked : n \in Rest \/ DoneWith(n)
          /\ \A n \in Rest : lostAt[n] = 0 \/ (line = "dead" /\ n = Where)
          /\ closed = Cardinality((Asked \ Rest) \ machines.off)
    /\ OnTheLine
    /\ Ended => todo = <<>>
    /\ phase = "ready" => told = {}

(* The nodes have names of their own, finitely many.                       *)
LEMMA FilesHaveNames ==
    ASSUME NEW f \in Files
    PROVE  /\ NamesInOrder(f) \in Seq(Names(f))
           /\ Len(NamesInOrder(f)) \in Nat /\ DOMAIN NamesInOrder(f) = 1 .. Len(NamesInOrder(f))
           /\ \A k, l \in 1 .. Len(NamesInOrder(f)) : NamesInOrder(f)[k] = NamesInOrder(f)[l] => k = l
           /\ IsFiniteSet(Names(f))
           /\ "configuration" \notin Names(f) /\ "all" \notin Names(f)
<1>1. /\ f.nodes \in Seq([name : STRING, registered : STRING, address : STRING, ip : STRING,
                          shown : STRING, region : STRING, storage : BOOLEAN,
                          server : BOOLEAN, gateway : BOOLEAN])
      /\ \A i, j \in DOMAIN f.nodes : f.nodes[i].name = f.nodes[j].name => i = j
      /\ Names(f) \cap {"all", "configuration", "nobody"} = {}
  BY FilesAssumption
<1>2. DOMAIN f.nodes = 1 .. Len(f.nodes) /\ Len(f.nodes) \in Nat
  BY <1>1
<1>3. \A i \in DOMAIN f.nodes : f.nodes[i].name \in Names(f)
  BY DEF Names
<1>4. NamesInOrder(f) \in [1 .. Len(f.nodes) -> Names(f)]
  BY <1>2, <1>3 DEF NamesInOrder
<1>5. NamesInOrder(f) \in Seq(Names(f)) /\ Len(NamesInOrder(f)) = Len(f.nodes)
  BY <1>2, <1>4
<1>6. \A k, l \in 1 .. Len(f.nodes) : NamesInOrder(f)[k] = NamesInOrder(f)[l] => k = l
  BY <1>1, <1>2 DEF NamesInOrder
<1>7. IsFiniteSet(Names(f))
  <2>1. IsFiniteSet(DOMAIN f.nodes)
    BY <1>2, FS_Interval
  <2>2. NamesInOrder(f) \in Surjection(DOMAIN f.nodes, Names(f))
    BY <1>2, <1>4 DEF Surjection, NamesInOrder, Names
  <2> QED  BY <2>1, <2>2, FS_Surjection
<1> QED  BY <1>1, <1>2, <1>4, <1>5, <1>6, <1>7

(* The first of what is to come goes, and the rest stays as it was.        *)
LEMMA OneLess ==
    ASSUME NEW N, NEW s \in Seq(N), s # << >>,
           \A k, l \in 1 .. Len(s) : s[k] = s[l] => k = l
    PROVE  /\ Tail(s) \in Seq(N)
           /\ \A k, l \in 1 .. Len(Tail(s)) : Tail(s)[k] = Tail(s)[l] => k = l
           /\ Head(s) \in N /\ Head(s) \in {s[k] : k \in 1 .. Len(s)}
           /\ {Tail(s)[k] : k \in 1 .. Len(Tail(s))} = {s[k] : k \in 1 .. Len(s)} \ {Head(s)}
<1>1. Len(s) \in Nat /\ Len(s) > 0 /\ Head(s) = s[1] /\ 1 \in 1 .. Len(s)
  BY EmptySeq
<1>2. Tail(s) \in Seq(N) /\ Len(Tail(s)) = Len(s) - 1
  OBVIOUS
<1>3. \A k \in 1 .. Len(Tail(s)) : Tail(s)[k] = s[k + 1] /\ k + 1 \in 1 .. Len(s) /\ k + 1 # 1
  BY <1>1, <1>2
<1>4. \A k, l \in 1 .. Len(Tail(s)) : Tail(s)[k] = Tail(s)[l] => k = l
  <2> SUFFICES ASSUME NEW k \in 1 .. Len(Tail(s)), NEW l \in 1 .. Len(Tail(s)), Tail(s)[k] = Tail(s)[l]
               PROVE  k = l
    OBVIOUS
  <2>1. k + 1 = l + 1
    BY <1>3
  <2> QED  BY <2>1
<1>5. Head(s) \in N
  BY <1>1
<1>6. {Tail(s)[k] : k \in 1 .. Len(Tail(s))} \subseteq {s[k] : k \in 1 .. Len(s)} \ {Head(s)}
  <2> SUFFICES ASSUME NEW k \in 1 .. Len(Tail(s))
               PROVE  Tail(s)[k] \in {s[l] : l \in 1 .. Len(s)} \ {Head(s)}
    OBVIOUS
  <2> QED  BY <1>1, <1>3
<1>7. {s[k] : k \in 1 .. Len(s)} \ {Head(s)} \subseteq {Tail(s)[k] : k \in 1 .. Len(Tail(s))}
  <2> SUFFICES ASSUME NEW k \in 1 .. Len(s), s[k] # Head(s)
               PROVE  s[k] \in {Tail(s)[l] : l \in 1 .. Len(Tail(s))}
    OBVIOUS
  <2>1. k - 1 \in 1 .. Len(Tail(s))
    BY <1>1, <1>2
  <2>2. Tail(s)[k - 1] = s[k]
    BY <1>3, <2>1
  <2> QED  BY <2>1, <2>2
<1> QED  BY <1>1, <1>2, <1>4, <1>5, <1>6, <1>7

(* What is asked for are nodes of the configuration, each of them once.    *)
LEMMA TargetsAreNodes ==
    ASSUME file \in Files
    PROVE  /\ TargetNodes \in Seq(Names(file))
           /\ \A k, l \in 1 .. Len(TargetNodes) : TargetNodes[k] = TargetNodes[l] => k = l
           /\ DOMAIN TargetNodes = 1 .. Len(TargetNodes)
           /\ Asked \subseteq Names(file) /\ IsFiniteSet(Asked)
<1>1. CASE only = "all"
  BY <1>1, FilesHaveNames, FS_Subset DEF TargetNodes, Asked
<1>2. CASE only # "all" /\ only \in Names(file)
  <2>1. TargetNodes = <<only>>
    BY <1>2 DEF TargetNodes
  <2>2. Asked \subseteq Names(file)
    BY <1>2, <2>1 DEF Asked
  <2> QED  BY <1>2, <2>1, <2>2, FilesHaveNames, FS_Subset
<1>3. CASE only # "all" /\ only \notin Names(file)
  <2>1. TargetNodes = << >> /\ Asked = {}
    BY <1>3 DEF TargetNodes, Asked
  <2> QED  BY <2>1, FS_EmptySet
<1> QED  BY <1>1, <1>2, <1>3

(* What there is to show stays, while nothing that was told or answered is *)
(* taken back.                                                             *)
LEMMA ShownStays ==
    ASSUME file' = file, machines' = machines, told \subseteq told', NEW n, NEW i \in 1 .. 10,
           answered[n] \subseteq answered'[n], lostAt'[n] = lostAt[n], Shown(n, i)
    PROVE  Shown(n, i)'
BY DEF Shown, Skipped, IsGateway, Passes, Failed, Check

(* So does that preflight is done with a node.                             *)
LEMMA DoneStays ==
    ASSUME file' = file, machines' = machines, told \subseteq told', NEW n,
           answered[n] \subseteq answered'[n], lostAt'[n] = lostAt[n], DoneWith(n)
    PROVE  DoneWith(n)'
<1>1. CASE n \in machines.off
  BY <1>1 DEF DoneWith, Failed
<1>2. CASE n \notin machines.off
  <2>1. ASSUME NEW i \in 1 .. 10 PROVE Shown(n, i)'
    BY <1>2, <2>1, ShownStays DEF DoneWith
  <2> QED  BY <1>2, <2>1 DEF DoneWith
<1> QED  BY <1>1, <1>2

(* The same file and the same node asked for, the same nodes.              *)
LEMMA AskedStays ==
    ASSUME file' = file, only' = only
    PROVE  Asked' = Asked /\ Names(file)' = Names(file) /\ CouldExist(file)' = CouldExist(file)
BY DEF Asked, TargetNodes, NamesInOrder, Names

(* It holds before anything was looked at.                                 *)
LEMMA PreflightAtFirst ==
    ASSUME PreflightInit
    PROVE  PreflightIInv
<1>1. PreflightTyped
  BY EmptySeq DEF PreflightInit, PreflightTyped
<1>2. AtFirst
  BY DEF PreflightInit, AtFirst
<1> QED  BY <1>1, <1>2 DEF PreflightInit, PreflightIInv, Questioned, OnTheLine, Ended

(* Nobody has been gone to when the machines are turned to, and what was   *)
(* said of the configuration is what CouldExist says.                      *)
LEMMA LookingKeeps ==
    ASSUME PreflightIInv, LookAtConfiguration
    PROVE  PreflightIInv'
<1> USE DEF LookAtConfiguration
<1>1. PreflightTyped /\ AtFirst /\ file \in Files
  BY DEF PreflightIInv, PreflightTyped
<1>2. /\ TargetNodes \in Seq(Names(file))
      /\ \A k, l \in 1 .. Len(TargetNodes) : TargetNodes[k] = TargetNodes[l] => k = l
      /\ DOMAIN TargetNodes = 1 .. Len(TargetNodes)
  BY <1>1, TargetsAreNodes
<1>3. todo' = TargetNodes \/ todo' = << >>
  OBVIOUS
<1>4. phase' \in {"threw", "ready", "trouble", "refused", "nodes"}
  BY DEF Verdict
<1>5. PreflightTyped'
  <2>1. todo' \in Seq(Names(file)) /\ \A k, l \in 1 .. Len(todo') : todo'[k] = todo'[l] => k = l
    BY <1>2, <1>3
  <2> QED  BY <1>1, <1>4, <2>1 DEF PreflightTyped
<1>6. line' = "none" /\ closed' = 0 /\ lostAt' = lostAt /\ Names(file)' = Names(file)
  BY <1>1 DEF AtFirst, Names
<1>7. Ended' => todo' = << >>
  BY DEF Ended, Verdict
<1>8. phase' = "ready" => told' = {}
  BY DEF Verdict
<1>9. ASSUME Questioned'
      PROVE  /\ CouldExist(file)' <=> ~\E t \in told' : t.where = "configuration"
             /\ Rest' \subseteq Asked'
             /\ \A n \in Asked' : n \in Rest'
             /\ \A n \in Rest' : lostAt'[n] = 0
  <2>1. ~Throws(file)
    BY <1>9 DEF Questioned
  <2>2. told' = {[where |-> "configuration", what |-> p] : p \in CheckConfiguration(file)}
    BY <2>1
  <2>3. (\E t \in told' : t.where = "configuration") <=> CheckConfiguration(file) # {}
    <3>1. ASSUME NEW p \in CheckConfiguration(file)
          PROVE  \E t \in told' : t.where = "configuration"
      <4>1. [where |-> "configuration", what |-> p] \in told'
        BY <2>2
      <4> QED  BY <4>1
    <3>2. CheckConfiguration(file) = {} => told' = {}
      BY <2>2, Zenon
    <3> QED  BY <3>1, <3>2, Zenon
  <2>4. CouldExist(file)' = CouldExist(file) /\ Asked' = Asked
    BY AskedStays
  <2>5. Rest' = Asked
    <3>1. CASE only = "configuration"
      <4>1. phase' # "nodes"
        BY <2>1, <3>1 DEF Verdict
      <4>2. todo' = << >>
        BY <4>1
      <4> QED  BY <3>1, <4>2 DEF Rest, Asked
    <3>2. CASE only # "configuration"
      <4>1. phase' = "nodes"
        BY <1>9, <2>1, <3>2 DEF Questioned
      <4>2. todo' = TargetNodes
        BY <4>1
      <4> QED  BY <1>2, <3>2, <4>2 DEF Rest, Asked
    <3> QED  BY <3>1, <3>2
  <2>6. CheckConfiguration(file) = {} <=> CouldExist(file)
    BY <1>1, CheckedCouldExist
  <2>7. Asked \subseteq Names(file)
    BY <1>1, TargetsAreNodes
  <2>8. \A n \in Names(file) : lostAt[n] = 0
    BY <1>1 DEF AtFirst
  <2>9. \A n \in Rest' : lostAt'[n] = 0
    BY <1>6, <2>5, <2>7, <2>8
  <2> QED  BY <2>3, <2>4, <2>5, <2>6, <2>9
<1>10. ASSUME Questioned'
       PROVE  closed' = Cardinality((Asked' \ Rest') \ machines'.off)
  <2>1. (Asked' \ Rest') \ machines'.off = {}
    BY <1>9, <1>10
  <2> QED  BY <1>6, <2>1, FS_EmptySet
<1>11. OnTheLine' /\ phase' # "configuration"
  BY <1>4, <1>6 DEF OnTheLine
<1> QED  BY <1>5, <1>7, <1>8, <1>9, <1>10, <1>11 DEF PreflightIInv

(* Between the steps that ask nodes, what was said of the configuration    *)
(* stays, for nodes are called something else.                             *)
LEMMA AskingKeepsTheVerdict ==
    ASSUME file \in Files, NEW n \in Names(file), NEW what,
           CouldExist(file) <=> ~\E t \in told : t.where = "configuration",
           file' = file, told' = told \/ told' = told \union {Failed(n, what)}
    PROVE  CouldExist(file)' <=> ~\E t \in told' : t.where = "configuration"
<1>1. n # "configuration"
  BY FilesHaveNames
<1>2. Failed(n, what).where # "configuration"
  BY <1>1 DEF Failed
<1>3. CouldExist(file)' = CouldExist(file)
  OBVIOUS
<1> QED  BY <1>2, <1>3

(* A node is left once, with what there is to show for it.                 *)
LEMMA LeavingKeeps ==
    ASSUME PreflightIInv, phase = "nodes", todo # << >>,
           file' = file, only' = only, machines' = machines, phase' = phase,
           lostAt' = lostAt, answered' = answered, line' = "none", turn' \in 1 .. 11,
           told' = told \/ \E what : told' = told \union {Failed(Where, what)},
           todo' = Tail(todo), NEW w, w = Where, DoneWith(w)',
           closed' = IF Where \in machines.off THEN closed ELSE closed + 1
    PROVE  PreflightIInv'
<1>1. /\ PreflightTyped /\ file \in Files /\ Questioned
      /\ todo \in Seq(Names(file)) /\ \A k, l \in 1 .. Len(todo) : todo[k] = todo[l] => k = l
      /\ closed \in Nat
  BY DEF PreflightIInv, PreflightTyped, Questioned
<1>2. /\ CouldExist(file) <=> ~\E t \in told : t.where = "configuration"
      /\ Rest \subseteq Asked
      /\ \A n \in Asked : n \in Rest \/ DoneWith(n)
      /\ \A n \in Rest : lostAt[n] = 0 \/ (line = "dead" /\ n = Where)
      /\ closed = Cardinality((Asked \ Rest) \ machines.off)
  BY <1>1 DEF PreflightIInv
<1>3. /\ Tail(todo) \in Seq(Names(file))
      /\ \A k, l \in 1 .. Len(Tail(todo)) : Tail(todo)[k] = Tail(todo)[l] => k = l
      /\ Where \in Names(file) /\ Where \in Rest
      /\ {Tail(todo)[k] : k \in 1 .. Len(Tail(todo))} = Rest \ {Where}
  BY <1>1, OneLess DEF Where, Rest
<1>4. Rest' = Rest \ {Where}
  BY <1>3 DEF Rest
<1>5. Asked' = Asked /\ Names(file)' = Names(file) /\ CouldExist(file)' = CouldExist(file)
  BY AskedStays
<1>6. PreflightTyped'
  BY <1>1, <1>3 DEF PreflightTyped
<1>7. CouldExist(file)' <=> ~\E t \in told' : t.where = "configuration"
  <2>1. PICK what : told' = told \/ told' = told \union {Failed(Where, what)}
    OBVIOUS
  <2> QED  BY <1>1, <1>2, <1>3, <2>1, AskingKeepsTheVerdict
<1>8. ASSUME NEW n \in Asked', n \notin Rest' PROVE DoneWith(n)'
  <2>1. CASE n = Where
    BY <2>1
  <2>2. CASE n # Where
    <3>1. DoneWith(n)
      BY <1>2, <1>4, <1>5, <1>8, <2>2
    <3> QED  BY <3>1, DoneStays
  <2> QED  BY <2>1, <2>2
<1>9. \A n \in Rest' : lostAt'[n] = 0
  BY <1>2, <1>4
<1>10. closed' = Cardinality((Asked' \ Rest') \ machines'.off)
  <2> DEFINE S == (Asked \ Rest) \ machines.off
  <2>1. IsFiniteSet(S)
    <3>1. IsFiniteSet(Asked)
      BY <1>1, TargetsAreNodes
    <3> QED  BY <3>1, FS_Subset
  <2>2. CASE Where \in machines.off
    <3>1. (Asked' \ Rest') \ machines'.off = S
      BY <1>4, <1>5, <2>2
    <3> QED  BY <1>2, <2>2, <3>1
  <2>3. CASE Where \notin machines.off
    <3>1. (Asked' \ Rest') \ machines'.off = S \union {Where}
      BY <1>2, <1>3, <1>4, <1>5, <2>3
    <3>2. Where \notin S
      BY <1>3
    <3> QED  BY <1>2, <2>1, <2>3, <3>1, <3>2, FS_AddElement
  <2> QED  BY <2>2, <2>3
<1>11. OnTheLine' /\ ~Ended'
  BY DEF OnTheLine, Ended
<1> QED  BY <1>2, <1>4, <1>5, <1>6, <1>7, <1>8, <1>9, <1>10, <1>11 DEF PreflightIInv, Ended

\* What a step leaves as it was, while it asks the node on the line.
Asking(w) ==
    /\ w = Where /\ todo # << >> /\ phase = "nodes" /\ turn \in 1 .. 10
    /\ line # "none" /\ line' \in {"up", "dead"} /\ turn' = turn + 1
    /\ UNCHANGED <<file, only, machines, phase, todo, closed>>
    /\ told' = told \/ told' = told \union {Failed(w, Check[turn])}
    /\ DOMAIN answered' = DOMAIN answered /\ \A n \in Names(file) : answered[n] \subseteq answered'[n]
    /\ lostAt' \in [Names(file) -> 0 .. 10] /\ \A n \in Names(file) : n # w => lostAt'[n] = lostAt[n]

(* An answer, however it comes about, leaves everything else in place.     *)
LEMMA AskingKeeps ==
    ASSUME PreflightIInv, NEW w, Asking(w),
           \A i \in 1 .. 10 : i < turn' => Shown(w, i)',
           IF line' = "up" THEN lostAt'[w] = 0 ELSE lostAt'[w] # 0 /\ lostAt'[w] < turn'
    PROVE  PreflightIInv'
<1> USE DEF Asking
<1>1. /\ PreflightTyped /\ file \in Files /\ Questioned
      /\ todo \in Seq(Names(file)) /\ \A k, l \in 1 .. Len(todo) : todo[k] = todo[l] => k = l
      /\ lostAt \in [Names(file) -> 0 .. 10]
  BY DEF PreflightIInv, PreflightTyped, Questioned
<1>2. /\ CouldExist(file) <=> ~\E t \in told : t.where = "configuration"
      /\ Rest \subseteq Asked
      /\ \A n \in Asked : n \in Rest \/ DoneWith(n)
      /\ \A n \in Rest : lostAt[n] = 0 \/ (line = "dead" /\ n = Where)
      /\ closed = Cardinality((Asked \ Rest) \ machines.off)
      /\ OnTheLine /\ Asked \subseteq Names(file)
  BY <1>1, TargetsAreNodes DEF PreflightIInv
<1>3. w \in Names(file) /\ w \in Rest
  BY <1>1, OneLess DEF Where, Rest
<1>4. Asked' = Asked /\ Names(file)' = Names(file) /\ Rest' = Rest /\ Where' = w
  BY AskedStays DEF Rest, Where
<1>5. PreflightTyped'
  BY <1>1, <1>4 DEF PreflightTyped
<1>6. CouldExist(file)' <=> ~\E t \in told' : t.where = "configuration"
  BY <1>1, <1>2, <1>3, AskingKeepsTheVerdict
<1>7. ASSUME NEW n \in Asked', n \notin Rest' PROVE DoneWith(n)'
  <2>1. DoneWith(n) /\ n # w /\ n \in Names(file)
    BY <1>2, <1>3, <1>4, <1>7
  <2> QED  BY <2>1, DoneStays
<1>8. \A n \in Rest' : lostAt'[n] = 0 \/ (line' = "dead" /\ n = Where')
  <2> SUFFICES ASSUME NEW n \in Rest PROVE lostAt'[n] = 0 \/ (line' = "dead" /\ n = w)
    BY <1>4
  <2>1. CASE n = w
    BY <2>1
  <2>2. CASE n # w
    BY <1>2, <2>2
  <2> QED  BY <2>1, <2>2
<1>9. OnTheLine'
  BY <1>2, <1>4 DEF OnTheLine
<1>10. ~Ended'
  BY DEF Ended
<1> QED  BY <1>2, <1>4, <1>5, <1>6, <1>7, <1>8, <1>9, <1>10 DEF PreflightIInv, Ended

(* A node is connected to, with nothing asked of it yet, or it is told that*)
(* it can't be reached.                                                    *)
LEMMA ConnectingKeeps ==
    ASSUME PreflightIInv, Connect
    PROVE  PreflightIInv'
<1> USE DEF Connect
<1>1. /\ PreflightTyped /\ file \in Files /\ Questioned
      /\ todo \in Seq(Names(file)) /\ \A k, l \in 1 .. Len(todo) : todo[k] = todo[l] => k = l
  BY DEF PreflightIInv, PreflightTyped, Questioned
<1>2. Where \in Names(file) /\ Where \in Rest
  BY <1>1, OneLess DEF Where, Rest
<1>3. CASE Where \in machines.off
  <2>1. PICK w : w = Where
    OBVIOUS
  <2>2. told' = told \union {Failed(w, "unreachable")}
    BY <1>3, <2>1 DEF Problem, Failed
  <2>3. DoneWith(w)'
    BY <1>3, <2>1, <2>2 DEF DoneWith, Failed
  <2>4. /\ todo' = Tail(todo) /\ line' = "none" /\ turn' \in 1 .. 11
        /\ \E what : told' = told \union {Failed(Where, what)}
    BY <1>3, <2>1, <2>2
  <2> QED  BY <1>3, <2>1, <2>3, <2>4, LeavingKeeps
<1>4. CASE Where \notin machines.off
  <2>1. line' = "up" /\ told' = told /\ todo' = todo /\ turn' = 1
    BY <1>4
  <2>2. PreflightTyped'
    BY <1>1, <2>1 DEF PreflightTyped, Names
  <2>3. Asked' = Asked /\ Rest' = Rest /\ Where' = Where /\ CouldExist(file)' = CouldExist(file)
    BY <2>1, AskedStays DEF Rest, Where
  <2>4. \A n : DoneWith(n) => DoneWith(n)'
    BY <2>1, DoneStays
  <2>5. lostAt[Where] = 0
    BY <1>1, <1>2 DEF PreflightIInv
  <2>6. OnTheLine'
    BY <1>4, <2>1, <2>3, <2>5 DEF OnTheLine
  <2>7. \A n \in Rest' : lostAt'[n] = 0 \/ (line' = "dead" /\ n = Where')
    BY <1>1, <2>3 DEF PreflightIInv
  <2>8. \A n \in Asked' : n \in Rest' \/ DoneWith(n)'
    BY <1>1, <2>3, <2>4 DEF PreflightIInv
  <2>9. /\ CouldExist(file)' <=> ~\E t \in told' : t.where = "configuration"
        /\ Rest' \subseteq Asked'
        /\ closed' = Cardinality((Asked' \ Rest') \ machines'.off)
    BY <1>1, <2>1, <2>3 DEF PreflightIInv
  <2>10. ~Ended' /\ phase' = "nodes"
    BY DEF Ended
  <2> QED  BY <2>2, <2>6, <2>7, <2>8, <2>9, <2>10 DEF PreflightIInv
<1> QED  BY <1>3, <1>4

(* A check is skipped, answered, or failed on a dead connection.           *)
LEMMA AnswersKeep ==
    ASSUME PreflightIInv, AskCheck
    PROVE  PreflightIInv'
<1> USE DEF AskCheck
<1>1. /\ PreflightTyped /\ file \in Files /\ Questioned /\ OnTheLine
      /\ todo \in Seq(Names(file)) /\ \A k, l \in 1 .. Len(todo) : todo[k] = todo[l] => k = l
      /\ lostAt \in [Names(file) -> 0 .. 10] /\ DOMAIN answered = Names(file)
  BY DEF PreflightIInv, PreflightTyped, Questioned
<1>2. todo # << >> /\ turn \in 1 .. 10
  BY <1>1, TenChecks DEF OnTheLine, PreflightTyped
<1>3. PICK w : w = Where
  OBVIOUS
<1>4. PICK t : t = turn
  OBVIOUS
<1>5. w \in Names(file) /\ w \notin machines.off
  BY <1>1, <1>2, <1>3, OneLess DEF Where, OnTheLine
<1>6. /\ \A i \in 1 .. 10 : i < t => Shown(w, i)
      /\ IF line = "up" THEN lostAt[w] = 0 ELSE lostAt[w] # 0 /\ lostAt[w] < t
  BY <1>1, <1>3, <1>4 DEF OnTheLine
<1>7. /\ turn' = t + 1 /\ lostAt' = lostAt /\ line' = line /\ file' = file /\ machines' = machines
      /\ told' = told \/ told' = told \union {Failed(w, Check[t])}
      /\ answered' = answered \/ answered' = [answered EXCEPT ![w] = @ \union {Check[t]}]
  BY <1>3, <1>4 DEF Result, Problem, Failed
<1>8. DOMAIN answered' = DOMAIN answered /\ \A n \in Names(file) : answered[n] \subseteq answered'[n]
  BY <1>1, <1>5, <1>7
<1>9. Shown(w, t)'
  <2>1. CASE Skipped(w, Check[t])
    BY <1>7, <2>1 DEF Shown, Skipped, IsGateway, Check
  <2>2. CASE ~Skipped(w, Check[t]) /\ line = "up" /\ Passes(w, Check[t])
    <3>1. answered' = [answered EXCEPT ![w] = @ \union {Check[t]}]
      BY <1>3, <1>4, <2>2 DEF Result
    <3>2. Check[t] \in answered'[w]
      BY <1>1, <1>5, <3>1
    <3> QED  BY <1>6, <1>7, <2>2, <3>2 DEF Shown, Passes, Check
  <2>3. CASE ~Skipped(w, Check[t]) /\ ~(line = "up" /\ Passes(w, Check[t]))
    <3>1. told' = told \union {Failed(w, Check[t])}
      BY <1>3, <1>4, <2>3 DEF Result, Problem, Failed
    <3>2. Failed(w, Check[t])' \in told'
      BY <3>1 DEF Failed, Check
    <3> QED  BY <1>6, <1>7, <2>3, <3>2 DEF Shown, Passes, Check
  <2> QED  BY <2>1, <2>2, <2>3
<1>10. ASSUME NEW i \in 1 .. 10, i < turn' PROVE Shown(w, i)'
  <2>1. i < t \/ i = t
    BY <1>2, <1>4, <1>7, <1>10
  <2>2. CASE i < t
    <3>1. Shown(w, i)
      BY <1>6, <2>2
    <3>2. answered[w] \subseteq answered'[w] /\ told \subseteq told' /\ lostAt'[w] = lostAt[w]
      BY <1>5, <1>7, <1>8
    <3> QED  BY <1>7, <3>1, <3>2, ShownStays
  <2> QED  BY <1>9, <2>1, <2>2
<1>11. IF line' = "up" THEN lostAt'[w] = 0 ELSE lostAt'[w] # 0 /\ lostAt'[w] < turn'
  BY <1>1, <1>2, <1>4, <1>5, <1>6, <1>7
<1>12. line' \in {"up", "dead"}
  BY <1>1, <1>7 DEF PreflightTyped
<1>13. Asking(w)
  BY <1>1, <1>2, <1>3, <1>4, <1>7, <1>8, <1>12 DEF Asking
<1> QED  BY <1>10, <1>11, <1>13, AskingKeeps

(* The check the connection is lost at is passed over or failed, and has   *)
(* nothing to show for it either way.                                      *)
LEMMA LosingKeeps ==
    ASSUME PreflightIInv, LoseLine
    PROVE  PreflightIInv'
<1> USE DEF LoseLine
<1>1. /\ PreflightTyped /\ file \in Files /\ Questioned /\ OnTheLine
      /\ todo \in Seq(Names(file)) /\ \A k, l \in 1 .. Len(todo) : todo[k] = todo[l] => k = l
      /\ lostAt \in [Names(file) -> 0 .. 10] /\ DOMAIN answered = Names(file)
  BY DEF PreflightIInv, PreflightTyped, Questioned
<1>2. todo # << >> /\ turn \in 1 .. 10
  BY <1>1, TenChecks DEF OnTheLine, PreflightTyped
<1>3. PICK w : w = Where
  OBVIOUS
<1>4. PICK t : t = turn
  OBVIOUS
<1>5. w \in Names(file) /\ w \notin machines.off
  BY <1>1, <1>2, <1>3, OneLess DEF Where, OnTheLine
<1>6. /\ \A i \in 1 .. 10 : i < t => Shown(w, i)
      /\ lostAt[w] = 0
  BY <1>1, <1>3, <1>4 DEF OnTheLine
<1>7. /\ turn' = t + 1 /\ lostAt' = [lostAt EXCEPT ![w] = t] /\ line' = "dead"
      /\ file' = file /\ machines' = machines
      /\ told' = told \/ told' = told \union {Failed(w, Check[t])}
      /\ answered' = answered \/ answered' = [answered EXCEPT ![w] = @ \union {Check[t]}]
  BY <1>3, <1>4 DEF Result, Problem, Failed
<1>8. /\ DOMAIN answered' = DOMAIN answered /\ \A n \in Names(file) : answered[n] \subseteq answered'[n]
      /\ lostAt' \in [Names(file) -> 0 .. 10] /\ lostAt'[w] = t
      /\ \A n \in Names(file) : n # w => lostAt'[n] = lostAt[n]
  <2>1. DOMAIN answered' = DOMAIN answered /\ \A n \in Names(file) : answered[n] \subseteq answered'[n]
    BY <1>1, <1>5, <1>7
  <2>2. t \in 0 .. 10
    BY <1>2, <1>4
  <2>3. lostAt' \in [Names(file) -> 0 .. 10] /\ lostAt'[w] = t
    <3>1. lostAt \in [Names(file) -> 0 .. 10]
      BY <1>1
    <3>2. lostAt' = [lostAt EXCEPT ![w] = t]
      BY <1>7
    <3> QED  BY <1>5, <2>2, <3>1, <3>2
  <2>4. \A n \in Names(file) : n # w => lostAt'[n] = lostAt[n]
    BY <1>1, <1>7
  <2> QED  BY <2>1, <2>3, <2>4
<1>9. ASSUME NEW i \in 1 .. 10, i < turn' PROVE Shown(w, i)'
  <2>1. i < t \/ i = t
    BY <1>2, <1>4, <1>7, <1>9
  <2>2. CASE i = t
    BY <1>8, <2>2 DEF Shown
  <2>3. CASE i < t
    <3>1. Shown(w, i)
      BY <1>6, <2>3
    <3>2. \/ Skipped(w, Check[i])
          \/ Passes(w, Check[i]) /\ Check[i] \in answered[w]
          \/ ~Passes(w, Check[i]) /\ Failed(w, Check[i]) \in told
      BY <1>6, <3>1 DEF Shown
    <3>3. /\ Skipped(w, Check[i])' = Skipped(w, Check[i]) /\ Passes(w, Check[i])' = Passes(w, Check[i])
          /\ Failed(w, Check[i])' = Failed(w, Check[i]) /\ Check' = Check
      BY <1>7 DEF Skipped, IsGateway, Passes, Failed, Check
    <3>4. answered[w] \subseteq answered'[w] /\ told \subseteq told' /\ i < lostAt'[w]
      BY <1>5, <1>7, <1>8, <2>3
    <3> QED  BY <3>2, <3>3, <3>4 DEF Shown
  <2> QED  BY <2>1, <2>2, <2>3
<1>10. lostAt'[w] # 0 /\ lostAt'[w] < turn'
  BY <1>2, <1>4, <1>7, <1>8
<1>11. Asking(w)
  BY <1>1, <1>2, <1>3, <1>4, <1>7, <1>8 DEF Asking
<1> QED  BY <1>7, <1>9, <1>10, <1>11, AskingKeeps

(* A node that is let go of was asked everything.                          *)
LEMMA LettingGoKeeps ==
    ASSUME PreflightIInv, Disconnect
    PROVE  PreflightIInv'
<1> USE DEF Disconnect
<1>1. OnTheLine /\ PreflightTyped
  BY DEF PreflightIInv
<1>2. /\ todo # << >> /\ Where \notin machines.off
      /\ \A i \in 1 .. 10 : Shown(Where, i)
  BY <1>1, TenChecks DEF OnTheLine, PreflightTyped
<1>3. PICK w : w = Where
  OBVIOUS
<1>4. DoneWith(w)
  BY <1>2, <1>3 DEF DoneWith
<1>5. DoneWith(w)'
  BY <1>4, DoneStays
<1>6. turn' \in 1 .. 11
  BY <1>1 DEF PreflightTyped
<1> QED  BY <1>2, <1>3, <1>5, <1>6, LeavingKeeps

(* The verdict is of what was told.                                        *)
LEMMA EndingKeeps ==
    ASSUME PreflightIInv, EndPreflight
    PROVE  PreflightIInv'
<1> USE DEF EndPreflight
<1>1. PreflightTyped' /\ Questioned
  BY DEF PreflightIInv, PreflightTyped, Names, Verdict, Questioned
<1>2. Asked' = Asked /\ Rest' = Rest /\ Where' = Where /\ CouldExist(file)' = CouldExist(file)
  BY AskedStays DEF Rest, Where
<1>3. \A n : DoneWith(n) => DoneWith(n)'
  BY DoneStays
<1>4. \A n \in Rest' : lostAt'[n] = 0 \/ (line' = "dead" /\ n = Where')
  BY <1>1, <1>2 DEF PreflightIInv
<1>5. \A n \in Asked' : n \in Rest' \/ DoneWith(n)'
  BY <1>1, <1>2, <1>3 DEF PreflightIInv
<1>6. /\ CouldExist(file)' <=> ~\E t \in told' : t.where = "configuration"
      /\ Rest' \subseteq Asked'
      /\ closed' = Cardinality((Asked' \ Rest') \ machines'.off)
  BY <1>1, <1>2 DEF PreflightIInv
<1>7. OnTheLine' /\ phase' # "configuration" /\ (phase' = "ready" => told' = {})
  BY DEF OnTheLine, Verdict
<1> QED  BY <1>1, <1>4, <1>5, <1>6, <1>7 DEF PreflightIInv

(* No step of preflight breaks the invariant.                              *)
LEMMA PreflightStepKeeps ==
    ASSUME PreflightIInv, [PreflightNext]_preflightVars
    PROVE  PreflightIInv'
<1>1. CASE PreflightNext
  BY <1>1, LookingKeeps, ConnectingKeeps, AnswersKeep, LosingKeeps, LettingGoKeeps, EndingKeeps
     DEF PreflightNext
<1>2. CASE UNCHANGED preflightVars
  <2>1. /\ file' = file /\ only' = only /\ machines' = machines /\ phase' = phase /\ todo' = todo
        /\ line' = line /\ turn' = turn /\ told' = told /\ answered' = answered /\ lostAt' = lostAt
        /\ closed' = closed
    BY <1>2 DEF preflightVars
  <2>2. PreflightTyped' = PreflightTyped /\ AtFirst' = AtFirst
    BY <2>1 DEF PreflightTyped, AtFirst, Names
  <2>3. Asked' = Asked /\ Rest' = Rest /\ Where' = Where /\ CouldExist(file)' = CouldExist(file)
    BY <2>1, AskedStays DEF Rest, Where
  <2>4. \A n : DoneWith(n) => DoneWith(n)'
    BY <2>1, DoneStays
  <2>5. ASSUME OnTheLine PROVE OnTheLine'
    <3>1. CASE line = "none"
      BY <2>1, <3>1 DEF OnTheLine
    <3>2. CASE line # "none"
      <4>1. PICK w : w = Where
        OBVIOUS
      <4>2. \A i \in 1 .. 10 : i < turn => Shown(w, i)
        BY <2>5, <3>2, <4>1 DEF OnTheLine
      <4>3. \A i \in 1 .. 10 : i < turn => Shown(w, i)'
        BY <2>1, <4>2, ShownStays
      <4>4. Where' = w
        BY <2>3, <4>1
      <4> QED  BY <2>1, <2>5, <3>2, <4>1, <4>3, <4>4 DEF OnTheLine
    <3> QED  BY <3>1, <3>2
  <2>6. Questioned' = Questioned /\ Ended' = Ended
    BY <2>1 DEF Questioned, Ended
  <2> QED  BY <2>1, <2>2, <2>3, <2>4, <2>5, <2>6 DEF PreflightIInv
<1> QED  BY <1>1, <1>2

(* What the invariant comes to once preflight has ended.                   *)
LEMMA PreflightIsRight ==
    ASSUME PreflightIInv
    PROVE  PreflightInv
<1>1. ASSUME Ended
      PROVE  /\ PreflightTyped /\ Questioned /\ todo = << >> /\ Rest = {}
             /\ CouldExist(file) <=> ~\E t \in told : t.where = "configuration"
             /\ \A n \in Asked : DoneWith(n)
             /\ closed = Cardinality(Asked \ machines.off)
             /\ line = "none"
  <2>1. Questioned /\ todo = << >> /\ line = "none"
    BY <1>1 DEF PreflightIInv, Ended, Questioned, OnTheLine
  <2>2. Rest = {} /\ Asked \ Rest = Asked
    BY <2>1 DEF Rest
  <2> QED  BY <2>1, <2>2 DEF PreflightIInv
<1>2. JudgedAlike
  BY <1>1 DEF JudgedAlike
<1>3. LetGoOf
  BY <1>1 DEF LetGoOf
<1>4. ReadyIsReady
  <2> SUFFICES ASSUME phase = "ready", NEW n \in Asked
               PROVE  /\ n \notin machines.off
                      /\ \A i \in DOMAIN Check :
                            \/ Skipped(n, Check[i]) \/ Passes(n, Check[i])
                            \/ lostAt[n] = i /\ ~\E k \in DOMAIN Check : k > i /\ ~Skipped(n, Check[k])
    BY DEF ReadyIsReady
  <2>1. DoneWith(n) /\ told = {}
    BY <1>1 DEF Ended, PreflightIInv
  <2>2. n \notin machines.off /\ \A i \in 1 .. 10 : Shown(n, i)
    BY <2>1 DEF DoneWith
  <2>3. \A i \in 1 .. 10 :
            \/ Skipped(n, Check[i])
            \/ lostAt[n] = 0 \/ i < lostAt[n]
               => Passes(n, Check[i])
    BY <2>1, <2>2 DEF Shown
  <2>4. ASSUME NEW i \in 1 .. 10 PROVE
            \/ Skipped(n, Check[i]) \/ Passes(n, Check[i])
            \/ lostAt[n] = i /\ ~\E k \in DOMAIN Check : k > i /\ ~Skipped(n, Check[k])
    <3>1. Skipped(n, Check[i]) \/ Passes(n, Check[i]) \/ lostAt[n] = i
      BY <2>1, <2>2 DEF Shown
    <3>2. ASSUME lostAt[n] = i, NEW k \in 1 .. 10, k > i PROVE Skipped(n, Check[k])
      BY <2>1, <2>2, <3>2 DEF Shown
    <3> QED  BY <3>1, <3>2, TenChecks
  <2> QED  BY <2>2, <2>4, TenChecks
<1>5. EachIsAnswered
  <2> SUFFICES ASSUME Ended, NEW n \in Asked, n \notin machines.off, lostAt[n] = 0,
                      NEW i \in DOMAIN Check
               PROVE  \/ Skipped(n, Check[i])
                      \/ Check[i] \in answered[n] /\ Passes(n, Check[i])
                      \/ [where |-> n, what |-> <<Check[i], n>>] \in told /\ ~Passes(n, Check[i])
    BY DEF EachIsAnswered
  <2>1. Shown(n, i) /\ i \in 1 .. 10
    BY <1>1, TenChecks DEF DoneWith
  <2> QED  BY <2>1 DEF Shown, Failed
<1> QED  BY <1>2, <1>3, <1>4, <1>5 DEF PreflightInv

(* Preflight's verdict can be gone by: what it says of the configuration   *)
(* is what a cluster needs of one, a cluster it calls ready was reached    *)
(* and is fit, trouble with one machine costs no other its answers, and no *)
(* connection is left (runners/preflight.ts, commands/Preflight.ts).       *)
THEOREM PreflightCanBeGoneBy == PreflightSpec => []PreflightInv
<1>1. PreflightInit => PreflightIInv
  BY PreflightAtFirst
<1>2. PreflightIInv /\ [PreflightNext]_preflightVars => PreflightIInv'
  BY PreflightStepKeeps
<1>3. PreflightIInv => PreflightInv
  BY PreflightIsRight
<1> QED  BY <1>1, <1>2, <1>3, PTL DEF PreflightSpec
=============================================================================
