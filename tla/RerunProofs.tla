----------------------------- MODULE RerunProofs -----------------------------
(***************************************************************************)
(* What is proved of the three things that are done again from wherever    *)
(* they were left: a release, for any number of people, versions and       *)
(* commits, however often its scripts are cut short; the life of a node,   *)
(* for runs that stop at their first failure, however many things go       *)
(* wrong; and a configuration, for any answers, whatever was written into  *)
(* it by hand.                                                             *)
(***************************************************************************)
EXTENDS Release, NodeLifecycle, Configure, SequenceTheorems, FiniteSetTheorems, TLAPS

-----------------------------------------------------------------------------
(* The release                                                             *)

CloneType == [head : 0..MaxCommits, tree : Tree, work : Tree, tags : SUBSET TagType]

Setting  == [at : {"set"}, component : Component, version : Version, left : Seq(File)]
Checking == [at : {"checked", "ready", "tagged"}, component : Component, version : Version]

StrongTypeOK ==
    /\ main \in Seq(Tree) /\ Len(main) \in 1..MaxCommits
    /\ tags \subseteq TagType
    /\ clones \in [Person -> CloneType]
    /\ doing \in [Person -> {Resting} \union Setting \union Checking]
    /\ sets \in 0..MaxSets /\ meddling \in 0..MaxMeddling
    /\ untouched \subseteq Person

\* CI lets nothing onto main whose copies aren't those of its manifests.
MainAgrees == \A i \in 1..Len(main) : \A f \in Manifest : main[i].copies[f] = main[i].files[f]

TagsOnMain == \A t \in tags : t.on \in 1..Len(main)

\* A clone that is on main has what main has there.
HeadIsMain(p) ==
    /\ clones[p].head \in 0..Len(main)
    /\ clones[p].head # 0 => main[clones[p].head] = clones[p].tree

\* `set' writes the places of its component one after the other.
PlacesLeft(p) ==
    doing[p].at = "set" =>
        \E i \in 1..(Len(Places(doing[p].component)) + 1) :
            doing[p].left = SubSeq(Places(doing[p].component), i, Len(Places(doing[p].component)))

\* Only the manifests of the component that is being set differ from a copy.
CopiesFollow(p) ==
    p \in untouched => \A f \in Manifest :
        \/ clones[p].work.copies[f] = clones[p].work.files[f]
        \/ doing[p].at = "set" /\ f \in PlacesOf(doing[p].component)

\* What was checked of a clone stays so while the script runs.
CheckedIsMain(p) ==
    doing[p].at \in {"checked", "ready", "tagged"} =>
        /\ clones[p].head # 0 /\ clones[p].work = clones[p].tree
        /\ \A f \in PlacesOf(doing[p].component) : clones[p].tree.files[f] = doing[p].version

PinsOut(p) ==
    doing[p].at \in {"ready", "tagged"} /\ doing[p].component = "installer" =>
        \A pin \in Pinned : Has(tags, pin.by, clones[p].tree.files[pin.file])

\* The only tag in a clone is the one the script is about to push.
OwnTagOnly(p) ==
    meddling = 0 =>
        \A t \in clones[p].tags : doing[p].at = "tagged" /\ t = TagOf(p)

PersonInv(p) ==
    /\ HeadIsMain(p)
    /\ PlacesLeft(p)
    /\ CopiesFollow(p)
    /\ CheckedIsMain(p)
    /\ PinsOut(p)
    /\ OwnTagOnly(p)

TagsInv ==
    /\ MainAgrees
    /\ TagsOnMain
    /\ TagNamesItsVersion
    /\ PinsAreReleased

ReleaseIInv ==
    /\ StrongTypeOK
    /\ TagsInv
    /\ \A p \in Person : PersonInv(p)

-----------------------------------------------------------------------------
(* The places of a component are files, the first of them its own.         *)
LEMMA PlacesAreFiles ==
    ASSUME NEW c \in Component
    PROVE  /\ Places(c) \in Seq(File)
           /\ Len(Places(c)) \in 1..3
           /\ PlacesOf(c) \subseteq File
           /\ Places(c)[1] \in PlacesOf(c)
           /\ \A i \in 1..Len(Places(c)) : Places(c)[i] \in PlacesOf(c)
<1>1. c \in {"cirrus", "meteorologist", "installer"}
  BY ReleaseAssumption
<1> DEFINE Named == {"Cargo.toml", "Cargo.lock", "Cirrus.yaml", "meteorologist/package.json",
                     "Meteorologist.yaml", "installer/package.json"}
<1>2. Places(c) \in Seq(Named) /\ Len(Places(c)) \in 1..3
  <2>1. CASE c = "cirrus"
    <3>1. Places(c) = <<"Cargo.toml", "Cargo.lock", "Cirrus.yaml">>
      BY <2>1 DEF Places
    <3>2. QED
      BY <3>1
  <2>2. CASE c = "meteorologist"
    <3>1. Places(c) = <<"meteorologist/package.json", "Meteorologist.yaml">>
      BY <2>2 DEF Places
    <3>2. QED
      BY <3>1
  <2>3. CASE c = "installer"
    <3>1. Places(c) = <<"installer/package.json">>
      BY <2>3 DEF Places
    <3>2. QED
      BY <3>1
  <2>4. QED
    BY <1>1, <2>1, <2>2, <2>3
<1>3. \A i \in 1..Len(Places(c)) : Places(c)[i] \in PlacesOf(c)
  BY <1>2 DEF PlacesOf
<1>4. PlacesOf(c) \subseteq File
  BY DEF File
<1>5. Places(c) \in Seq(File)
  BY <1>2, <1>3, <1>4
<1>6. QED
  BY <1>2, <1>3, <1>4, <1>5

(* Each image that is pinned is pinned in a manifest there is.             *)
LEMMA PinsAreManifests ==
    ASSUME NEW pin \in Pinned
    PROVE  pin.by \in Component /\ pin.file \in Manifest
<1>1. pin.by \in Component /\ pin \in Pins
  BY DEF Pinned
<1>2. CASE pin.by = "cirrus"
  <2>1. pin.file = "Cirrus.yaml"
    BY <1>1, <1>2 DEF Pins
  <2>2. Places("cirrus") = <<"Cargo.toml", "Cargo.lock", "Cirrus.yaml">>
    BY DEF Places
  <2>3. Places("cirrus")[3] = "Cirrus.yaml" /\ 3 \in DOMAIN Places("cirrus")
    BY <2>2
  <2>4. "Cirrus.yaml" \in PlacesOf("cirrus")
    BY <2>3 DEF PlacesOf
  <2>5. QED
    BY <1>1, <1>2, <2>1, <2>4 DEF Manifest, Manifests, File
<1>3. CASE pin.by = "meteorologist"
  <2>1. pin.file = "Meteorologist.yaml"
    BY <1>1, <1>3 DEF Pins
  <2>2. Places("meteorologist") = <<"meteorologist/package.json", "Meteorologist.yaml">>
    BY DEF Places
  <2>3. Places("meteorologist")[2] = "Meteorologist.yaml" /\ 2 \in DOMAIN Places("meteorologist")
    BY <2>2
  <2>4. "Meteorologist.yaml" \in PlacesOf("meteorologist")
    BY <2>3 DEF PlacesOf
  <2>5. QED
    BY <1>1, <1>3, <2>1, <2>4 DEF Manifest, Manifests, File
<1>4. QED
  BY <1>1, <1>2, <1>3 DEF Pins

(* What somebody is doing is told by how far it has come.                  *)
LEMMA DoingIs ==
    ASSUME StrongTypeOK, NEW p \in Person
    PROVE  /\ doing[p].at \in {"rest", "set", "checked", "ready", "tagged"}
           /\ doing[p].at = "rest" => doing[p] = Resting
           /\ doing[p].at = "set" => doing[p] \in Setting
           /\ doing[p].at \in {"checked", "ready", "tagged"} => doing[p] \in Checking
BY DEF StrongTypeOK, Resting, Setting, Checking

(* What is left to write, once a place is written.                         *)
LEMMA NextPlace ==
    ASSUME NEW c \in Component, NEW i \in 1..(Len(Places(c)) + 1), NEW left,
           left = SubSeq(Places(c), i, Len(Places(c))), left # <<>>
    PROVE  /\ Head(left) \in PlacesOf(c)
           /\ Tail(left) = SubSeq(Places(c), i + 1, Len(Places(c)))
           /\ i + 1 \in 1..(Len(Places(c)) + 1)
           /\ Tail(left) \in Seq(File)
<1>1. Places(c) \in Seq(File) /\ Len(Places(c)) \in 1..3
  BY PlacesAreFiles
<1>2. i # Len(Places(c)) + 1
  BY <1>1, SubSeqEmpty
<1>3. i \in 1..Len(Places(c)) /\ Len(Places(c)) \in i..Len(Places(c))
  BY <1>1, <1>2
<1>4. Head(left) = Places(c)[i] /\ Tail(left) = SubSeq(Places(c), i + 1, Len(Places(c)))
  BY <1>1, <1>3, HeadTailOfSubSeq
<1>5. \A j \in (i + 1)..Len(Places(c)) : Places(c)[j] \in File
  BY <1>1, <1>3
<1>6. Tail(left) \in Seq(File)
  BY <1>1, <1>3, <1>4, <1>5, SubSeqProperties
<1>7. QED
  BY <1>3, <1>4, <1>6, PlacesAreFiles

-----------------------------------------------------------------------------
(* What a step leaves alone                                                *)

(* A tag that there is stays there.                                        *)
LEMMA HasStill ==
    ASSUME NEW some, NEW more, some \subseteq more, NEW c, NEW v, Has(some, c, v)
    PROVE  Has(more, c, v)
BY DEF Has

\* Main only gets longer, the remote only gets tags, and mishaps are counted.
Grows ==
    /\ Len(main') \in Nat /\ Len(main) <= Len(main')
    /\ \A i \in 1..Len(main) : main'[i] = main[i]
    /\ tags \subseteq tags'
    /\ meddling' = 0 => meddling = 0

(* Whoever has no part in a step is as before it.                          *)
LEMMA OthersStay ==
    ASSUME ReleaseIInv, Grows, NEW q \in Person, clones'[q] = clones[q], doing'[q] = doing[q],
           q \in untouched' => q \in untouched
    PROVE  PersonInv(q)'
<1>1. PersonInv(q) /\ Len(main) \in Nat
  BY DEF ReleaseIInv, StrongTypeOK
<1>2. HeadIsMain(q)'
  <2>1. clones[q].head # 0 => main'[clones[q].head] = main[clones[q].head]
    BY <1>1 DEF Grows, PersonInv, HeadIsMain
  <2>2. clones[q].head \in 0..Len(main')
    BY <1>1 DEF Grows, PersonInv, HeadIsMain
  <2>3. QED
    BY <1>1, <2>1, <2>2 DEF PersonInv, HeadIsMain
<1>3. PlacesLeft(q)' /\ CopiesFollow(q)' /\ CheckedIsMain(q)'
  BY <1>1 DEF PersonInv, PlacesLeft, CopiesFollow, CheckedIsMain
<1>4. PinsOut(q)'
  BY <1>1, HasStill DEF Grows, PersonInv, PinsOut
<1>5. OwnTagOnly(q)'
  BY <1>1 DEF Grows, PersonInv, OwnTagOnly, TagOf
<1>6. QED
  BY <1>2, <1>3, <1>4, <1>5 DEF PersonInv

(* Nothing about tags changes where neither main nor the remote does.      *)
LEMMA TagsStay ==
    ASSUME ReleaseIInv, UNCHANGED <<main, tags>>
    PROVE  TagsInv'
BY DEF ReleaseIInv, TagsInv, MainAgrees, TagsOnMain, TagNamesItsVersion, PinsAreReleased

(* A step of one person that changes neither main nor the remote has to    *)
(* answer for that person's clone and script only.                         *)
LEMMA OnePersonsStep ==
    ASSUME ReleaseIInv, NEW p \in Person, UNCHANGED <<main, tags>>,
           meddling' = 0 => meddling = 0,
           \A q \in Person \ {p} : /\ clones'[q] = clones[q] /\ doing'[q] = doing[q]
                                   /\ q \in untouched' => q \in untouched,
           StrongTypeOK', PersonInv(p)'
    PROVE  ReleaseIInv'
<1>1. Grows
  BY DEF ReleaseIInv, StrongTypeOK, Grows
<1>2. \A q \in Person : PersonInv(q)'
  <2>1. TAKE q \in Person
  <2>2. CASE q = p
    BY <2>2
  <2>3. CASE q # p
    BY <1>1, <2>3, OthersStay
  <2>4. QED
    BY <2>2, <2>3
<1>3. QED
  BY <1>2, TagsStay DEF ReleaseIInv

-----------------------------------------------------------------------------
(* The clones                                                              *)

\* A file of somebody's working tree is given a version.
Writes(p, f, v) == clones' = [clones EXCEPT ![p].work.files[f] = v]

(* Whoever edits a file changes that file only, and nobody else's clone.   *)
LEMMA FileWritten ==
    ASSUME StrongTypeOK, NEW p \in Person, NEW f \in File, NEW v \in Version, Writes(p, f, v)
    PROVE  /\ clones' \in [Person -> CloneType]
           /\ \A q \in Person \ {p} : clones'[q] = clones[q]
           /\ clones'[p].head = clones[p].head /\ clones'[p].tree = clones[p].tree
           /\ clones'[p].tags = clones[p].tags
           /\ clones'[p].work.copies = clones[p].work.copies
           /\ \A g \in File \ {f} : clones'[p].work.files[g] = clones[p].work.files[g]
<1> DEFINE edited == [clones[p].work EXCEPT !.files[f] = v]
<1>1. clones[p] \in CloneType /\ clones[p].work \in Tree
  BY DEF StrongTypeOK, CloneType
<1>2. /\ edited \in Tree /\ edited.copies = clones[p].work.copies
      /\ \A g \in File \ {f} : edited.files[g] = clones[p].work.files[g]
  BY <1>1 DEF Tree
<1>3. clones' = [clones EXCEPT ![p] = [clones[p] EXCEPT !.work = edited]]
  BY DEF Writes
<1> HIDE DEF edited
<1> DEFINE new == [clones[p] EXCEPT !.work = edited]
<1>4. /\ new \in CloneType /\ new.head = clones[p].head /\ new.tree = clones[p].tree
      /\ new.work = edited /\ new.tags = clones[p].tags
  BY <1>1, <1>2 DEF CloneType
<1> HIDE DEF new
<1>5. /\ clones' \in [Person -> CloneType] /\ clones'[p] = new
      /\ \A q \in Person \ {p} : clones'[q] = clones[q]
  BY <1>3, <1>4 DEF StrongTypeOK, new
<1>6. QED
  BY <1>2, <1>4, <1>5

(* Editing by hand is a mishap, and changes one file of a working tree.  *)
LEMMA EditKeeps ==
    ASSUME ReleaseIInv, NEW p \in Person, EditByHand(p)
    PROVE  ReleaseIInv'
<1>1. PICK f \in File, v \in Version : Writes(p, f, v)
  BY DEF EditByHand, Writes
<1>2. /\ UNCHANGED <<main, tags, doing, sets>> /\ untouched' = untouched \ {p}
      /\ AtRest(p) /\ meddling < MaxMeddling /\ meddling' = meddling + 1
  BY DEF EditByHand, Meddle
<1>3. meddling' \in 0..MaxMeddling /\ meddling' # 0
  BY <1>2, ReleaseAssumption DEF ReleaseIInv, StrongTypeOK
<1>4. /\ clones' \in [Person -> CloneType]
      /\ \A q \in Person \ {p} : clones'[q] = clones[q]
      /\ clones'[p].head = clones[p].head /\ clones'[p].tree = clones[p].tree
  BY <1>1, FileWritten DEF ReleaseIInv
<1>5. StrongTypeOK'
  BY <1>2, <1>3, <1>4 DEF ReleaseIInv, StrongTypeOK
<1>6. PersonInv(p)'
  BY <1>2, <1>3, <1>4 DEF ReleaseIInv, PersonInv, HeadIsMain, PlacesLeft, CopiesFollow, CheckedIsMain,
                          PinsOut, OwnTagOnly, AtRest
<1>7. QED
  BY <1>2, <1>3, <1>4, <1>5, <1>6, OnePersonsStep

(* A commit is off main, and has what its working tree has.              *)
LEMMA CommitKeeps ==
    ASSUME ReleaseIInv, NEW p \in Person, Commit(p)
    PROVE  ReleaseIInv'
<1> DEFINE new == [clones[p] EXCEPT !.head = 0, !.tree = clones[p].work]
<1>1. /\ UNCHANGED <<main, tags, doing, meddling, untouched, sets>> /\ AtRest(p)
      /\ clones' = [clones EXCEPT ![p] = new]
  BY DEF Commit
<1>2. clones[p] \in CloneType /\ 0 \in 0..MaxCommits
  BY ReleaseAssumption DEF ReleaseIInv, StrongTypeOK
<1>3. /\ new \in CloneType /\ new.head = 0
      /\ new.work = clones[p].work /\ new.tags = clones[p].tags
  BY <1>2 DEF CloneType
<1> HIDE DEF new
<1>4. /\ clones' \in [Person -> CloneType] /\ clones'[p] = new
      /\ \A q \in Person \ {p} : clones'[q] = clones[q]
  BY <1>1, <1>3 DEF ReleaseIInv, StrongTypeOK
<1>5. StrongTypeOK'
  BY <1>1, <1>4 DEF ReleaseIInv, StrongTypeOK
<1>6. PersonInv(p)'
  BY <1>1, <1>3, <1>4 DEF ReleaseIInv, PersonInv, HeadIsMain, PlacesLeft, CopiesFollow, CheckedIsMain,
                          PinsOut, OwnTagOnly, AtRest, StrongTypeOK
<1>7. QED
  BY <1>1, <1>4, <1>5, <1>6, OnePersonsStep

(* Whoever goes to main has main's newest tree, whose copies are right.  *)
LEMMA SwitchKeeps ==
    ASSUME ReleaseIInv, NEW p \in Person, SwitchToMain(p)
    PROVE  ReleaseIInv'
<1> DEFINE tree == main[Len(main)]
           new == [clones[p] EXCEPT !.head = Len(main), !.tree = tree, !.work = tree]
<1>1. /\ UNCHANGED <<main, tags, doing, meddling, sets>> /\ AtRest(p)
      /\ untouched' = untouched \union {p}
      /\ clones' = [clones EXCEPT ![p] = new]
  BY DEF SwitchToMain
<1>2. /\ clones[p] \in CloneType /\ Len(main) \in 0..MaxCommits /\ Len(main) \in 1..Len(main)
      /\ tree \in Tree
  BY ReleaseAssumption DEF ReleaseIInv, StrongTypeOK
<1>3. /\ new \in CloneType /\ new.head = Len(main) /\ new.tree = tree
      /\ new.work = tree /\ new.tags = clones[p].tags
  BY <1>2 DEF CloneType
<1>4. \A f \in Manifest : tree.copies[f] = tree.files[f]
  BY <1>2 DEF ReleaseIInv, TagsInv, MainAgrees
<1> HIDE DEF new
<1>5. /\ clones' \in [Person -> CloneType] /\ clones'[p] = new
      /\ \A q \in Person \ {p} : clones'[q] = clones[q]
  BY <1>1, <1>3 DEF ReleaseIInv, StrongTypeOK
<1>6. StrongTypeOK'
  BY <1>1, <1>5 DEF ReleaseIInv, StrongTypeOK
<1>7. PersonInv(p)'
  BY <1>1, <1>2, <1>3, <1>4, <1>5
     DEF ReleaseIInv, PersonInv, HeadIsMain, PlacesLeft, CopiesFollow, CheckedIsMain,
         PinsOut, OwnTagOnly, AtRest
<1>8. QED
  BY <1>1, <1>5, <1>6, <1>7, OnePersonsStep

(* A tag that is deleted leaves fewer in the clone.                      *)
LEMMA DeleteKeeps ==
    ASSUME ReleaseIInv, NEW p \in Person, DeleteStaleTag(p)
    PROVE  ReleaseIInv'
<1>1. PICK t \in clones[p].tags :
          clones' = [clones EXCEPT ![p] = [clones[p] EXCEPT !.tags = clones[p].tags \ {t}]]
  BY DEF DeleteStaleTag
<1> DEFINE new == [clones[p] EXCEPT !.tags = clones[p].tags \ {t}]
<1>2. UNCHANGED <<main, tags, doing, meddling, untouched, sets>> /\ AtRest(p)
  BY DEF DeleteStaleTag
<1>3. clones[p] \in CloneType
  BY DEF ReleaseIInv, StrongTypeOK
<1>4. /\ new \in CloneType /\ new.head = clones[p].head /\ new.tree = clones[p].tree
      /\ new.work = clones[p].work /\ new.tags \subseteq clones[p].tags
  BY <1>3 DEF CloneType
<1> HIDE DEF new
<1>5. /\ clones' \in [Person -> CloneType] /\ clones'[p] = new
      /\ \A q \in Person \ {p} : clones'[q] = clones[q]
  BY <1>1, <1>4 DEF ReleaseIInv, StrongTypeOK, new
<1>6. StrongTypeOK'
  BY <1>2, <1>5 DEF ReleaseIInv, StrongTypeOK
<1>7. PersonInv(p)'
  BY <1>2, <1>4, <1>5
     DEF ReleaseIInv, PersonInv, HeadIsMain, PlacesLeft, CopiesFollow, CheckedIsMain,
         PinsOut, OwnTagOnly, AtRest
<1>8. QED
  BY <1>2, <1>5, <1>6, <1>7, OnePersonsStep

(* A branch that is merged is one CI found to carry its own manifests.     *)
LEMMA MergeKeeps ==
    ASSUME ReleaseIInv, NEW p \in Person, Merge(p)
    PROVE  ReleaseIInv'
<1> DEFINE tree == clones[p].tree
<1>1. /\ Len(main) < MaxCommits /\ main' = Append(main, tree)
      /\ \A f \in Manifest : tree.copies[f] = tree.files[f]
      /\ UNCHANGED <<tags, clones, doing, meddling, untouched, sets>>
  BY DEF Merge
<1>2. main \in Seq(Tree) /\ Len(main) \in 1..MaxCommits /\ tree \in Tree
  BY DEF ReleaseIInv, StrongTypeOK, CloneType
<1>3. /\ main' \in Seq(Tree) /\ Len(main') = Len(main) + 1
      /\ \A i \in 1..Len(main) : main'[i] = main[i]
      /\ main'[Len(main) + 1] = tree
  BY <1>1, <1>2
<1>4. Len(main') \in 1..MaxCommits /\ Len(main) \in Nat
  BY <1>1, <1>2, <1>3, ReleaseAssumption
<1>5. StrongTypeOK'
  BY <1>1, <1>3, <1>4 DEF ReleaseIInv, StrongTypeOK
<1>6. Grows
  BY <1>1, <1>3, <1>4 DEF Grows
<1>7. \A q \in Person : PersonInv(q)'
  BY <1>1, <1>6, OthersStay
<1>8. TagsInv'
  <2>1. MainAgrees'
    <3>1. SUFFICES ASSUME NEW i \in 1..Len(main'), NEW f \in Manifest
                   PROVE  main'[i].copies[f] = main'[i].files[f]
      BY DEF MainAgrees
    <3>2. CASE i \in 1..Len(main)
      BY <1>3, <3>2 DEF ReleaseIInv, TagsInv, MainAgrees
    <3>3. CASE i = Len(main) + 1
      BY <1>1, <1>3, <3>3
    <3>4. QED
      BY <1>3, <1>4, <3>2, <3>3
  <2>2. TagsOnMain' /\ TagNamesItsVersion'
    <3>1. \A t \in tags : t.on \in 1..Len(main) /\ t.on \in 1..Len(main') /\ main'[t.on] = main[t.on]
      BY <1>3, <1>4 DEF ReleaseIInv, TagsInv, TagsOnMain
    <3>2. QED
      BY <1>1, <3>1 DEF ReleaseIInv, TagsInv, TagsOnMain, TagNamesItsVersion
  <2>3. PinsAreReleased'
    BY <1>1 DEF ReleaseIInv, TagsInv, PinsAreReleased
  <2>4. QED
    BY <2>1, <2>2, <2>3 DEF TagsInv
<1>9. QED
  BY <1>5, <1>7, <1>8 DEF ReleaseIInv

-----------------------------------------------------------------------------
(* The scripts                                                             *)

(* A script that ends without doing anything, cut short or not.            *)
LEMMA InterruptKeeps ==
    ASSUME ReleaseIInv, NEW p \in Person, Interrupt(p)
    PROVE  ReleaseIInv'
<1>1. /\ UNCHANGED <<main, tags, clones, sets>> /\ doing' = [doing EXCEPT ![p] = Resting]
      /\ untouched' = IF doing[p].at = "set" THEN untouched \ {p} ELSE untouched
      /\ meddling < MaxMeddling /\ meddling' = meddling + 1
  BY DEF Interrupt, Meddle
<1>2. meddling' \in 0..MaxMeddling /\ meddling' # 0
  BY <1>1, ReleaseAssumption DEF ReleaseIInv, StrongTypeOK
<1>3. /\ doing'[p] = Resting /\ Resting.at = "rest"
      /\ \A q \in Person \ {p} : doing'[q] = doing[q]
      /\ doing' \in [Person -> {Resting} \union Setting \union Checking]
  BY <1>1 DEF ReleaseIInv, StrongTypeOK, Resting
<1>4. StrongTypeOK'
  BY <1>1, <1>2, <1>3 DEF ReleaseIInv, StrongTypeOK
<1>5. PersonInv(p)'
  BY <1>1, <1>2, <1>3 DEF ReleaseIInv, PersonInv, HeadIsMain, PlacesLeft, CopiesFollow, CheckedIsMain,
                          PinsOut, OwnTagOnly
<1>6. QED
  BY <1>1, <1>2, <1>3, <1>4, <1>5, OnePersonsStep

(* A script that somebody says no to leaves everything as it was.        *)
LEMMA DeclineKeeps ==
    ASSUME ReleaseIInv, NEW p \in Person, Decline(p)
    PROVE  ReleaseIInv'
<1>1. /\ UNCHANGED <<main, tags, clones, meddling, untouched, sets>> /\ doing[p].at = "ready"
      /\ doing' = [doing EXCEPT ![p] = Resting]
  BY DEF Decline
<1>2. /\ doing'[p] = Resting /\ Resting.at = "rest"
      /\ \A q \in Person \ {p} : doing'[q] = doing[q]
      /\ doing' \in [Person -> {Resting} \union Setting \union Checking]
  BY <1>1 DEF ReleaseIInv, StrongTypeOK, Resting
<1>3. StrongTypeOK'
  BY <1>1, <1>2 DEF ReleaseIInv, StrongTypeOK
<1>4. PersonInv(p)'
  BY <1>1, <1>2 DEF ReleaseIInv, PersonInv, HeadIsMain, PlacesLeft, CopiesFollow, CheckedIsMain,
                    PinsOut, OwnTagOnly
<1>5. QED
  BY <1>1, <1>2, <1>3, <1>4, OnePersonsStep

(* `set' begins with all the places of its component.                      *)
LEMMA StartSetKeeps ==
    ASSUME ReleaseIInv, NEW p \in Person, NEW c \in Component, StartSet(p, c)
    PROVE  ReleaseIInv'
<1>1. PICK v \in Version : doing' = [doing EXCEPT ![p] =
             [at |-> "set", component |-> c, version |-> v, left |-> Places(c)]]
  BY DEF StartSet
<1> DEFINE new == [at |-> "set", component |-> c, version |-> v, left |-> Places(c)]
<1>2. /\ UNCHANGED <<main, tags, clones, meddling, untouched>> /\ AtRest(p)
      /\ sets < MaxSets /\ sets' = sets + 1
  BY DEF StartSet
<1>3. sets' \in 0..MaxSets
  BY <1>2, ReleaseAssumption DEF ReleaseIInv, StrongTypeOK
<1>4. Places(c) \in Seq(File) /\ Len(Places(c)) \in 1..3
  BY PlacesAreFiles
<1>5. new \in Setting /\ new.at = "set" /\ new.component = c /\ new.left = Places(c)
  BY <1>4 DEF Setting
<1> HIDE DEF new
<1>6. /\ doing'[p] = new /\ \A q \in Person \ {p} : doing'[q] = doing[q]
      /\ doing' \in [Person -> {Resting} \union Setting \union Checking]
  BY <1>1, <1>5 DEF ReleaseIInv, StrongTypeOK, new
<1>7. StrongTypeOK'
  BY <1>2, <1>3, <1>6 DEF ReleaseIInv, StrongTypeOK
<1>8. PlacesLeft(p)'
  <2>1. SubSeq(Places(c), 1, Len(Places(c))) = Places(c) /\ 1 \in 1..(Len(Places(c)) + 1)
    BY <1>4, SubSeqFull
  <2>2. QED
    BY <1>5, <1>6, <2>1 DEF PlacesLeft
<1>9. PersonInv(p)'
  BY <1>2, <1>5, <1>6, <1>8 DEF ReleaseIInv, PersonInv, HeadIsMain, CopiesFollow, CheckedIsMain,
                    PinsOut, OwnTagOnly, AtRest
<1>10. QED
  BY <1>2, <1>6, <1>7, <1>9, OnePersonsStep

(* Only a place of the component that is being set is written.             *)
LEMMA WriteKeeps ==
    ASSUME ReleaseIInv, NEW p \in Person, WritePlace(p)
    PROVE  ReleaseIInv'
<1> DEFINE c == doing[p].component
           left == doing[p].left
<1>1. /\ doing[p].at = "set" /\ left # <<>>
      /\ clones' = [clones EXCEPT ![p].work.files[Head(left)] = doing[p].version]
      /\ doing' = [doing EXCEPT ![p] = [doing[p] EXCEPT !.left = Tail(left)]]
      /\ UNCHANGED <<main, tags, meddling, untouched, sets>>
  BY DEF WritePlace
<1>2. doing[p] \in Setting
  BY <1>1, DoingIs DEF ReleaseIInv
<1>3. c \in Component /\ doing[p].version \in Version
  BY <1>2 DEF Setting
<1>4. PICK i \in 1..(Len(Places(c)) + 1) : left = SubSeq(Places(c), i, Len(Places(c)))
  BY <1>1 DEF ReleaseIInv, PersonInv, PlacesLeft
<1>5. /\ Head(left) \in PlacesOf(c)
      /\ Tail(left) = SubSeq(Places(c), i + 1, Len(Places(c)))
      /\ i + 1 \in 1..(Len(Places(c)) + 1)
      /\ Tail(left) \in Seq(File)
  <2>1. left # <<>> /\ c \in Component
    BY <1>1, <1>3
  <2> HIDE DEF c, left
  <2>2. QED
    BY <2>1, <1>4, NextPlace
<1> DEFINE new == [doing[p] EXCEPT !.left = Tail(left)]
<1>6. new \in Setting /\ new.at = "set" /\ new.component = c /\ new.left = Tail(left)
  <2> DEFINE rest == Tail(left)
  <2>1. rest \in Seq(File)
    BY <1>5
  <2> HIDE DEF rest
  <2>2. LET d == [doing[p] EXCEPT !.left = rest]
        IN  d \in Setting /\ d.at = "set" /\ d.component = doing[p].component /\ d.left = rest
    BY <1>2, <2>1 DEF Setting
  <2>3. QED
    BY <2>2 DEF rest
<1> HIDE DEF new
<1>7. /\ doing'[p] = new /\ \A q \in Person \ {p} : doing'[q] = doing[q]
      /\ doing' \in [Person -> {Resting} \union Setting \union Checking]
  BY <1>1, <1>6 DEF ReleaseIInv, StrongTypeOK, new
<1>8. Head(left) \in File
  BY <1>3, <1>5, PlacesAreFiles
<1>9. /\ clones' \in [Person -> CloneType]
      /\ \A q \in Person \ {p} : clones'[q] = clones[q]
      /\ clones'[p].head = clones[p].head /\ clones'[p].tree = clones[p].tree
      /\ clones'[p].tags = clones[p].tags
      /\ clones'[p].work.copies = clones[p].work.copies
      /\ \A g \in File \ {Head(left)} : clones'[p].work.files[g] = clones[p].work.files[g]
  <2>1. StrongTypeOK
    BY DEF ReleaseIInv
  <2>2. PICK f \in File, v \in Version : f = Head(left) /\ v = doing[p].version
    BY <1>3, <1>8
  <2>3. Writes(p, f, v)
    BY <1>1, <2>2 DEF Writes
  <2> HIDE DEF c, left
  <2>4. /\ clones' \in [Person -> CloneType]
        /\ \A q \in Person \ {p} : clones'[q] = clones[q]
        /\ clones'[p].head = clones[p].head /\ clones'[p].tree = clones[p].tree
        /\ clones'[p].tags = clones[p].tags
        /\ clones'[p].work.copies = clones[p].work.copies
        /\ \A g \in File \ {f} : clones'[p].work.files[g] = clones[p].work.files[g]
    BY <2>1, <2>3, FileWritten
  <2> QED
    BY <2>2, <2>4
<1>10. StrongTypeOK'
  BY <1>1, <1>7, <1>9 DEF ReleaseIInv, StrongTypeOK
<1>11. PlacesLeft(p)'
  BY <1>5, <1>6, <1>7 DEF PlacesLeft
<1>12. CopiesFollow(p)'
  <2>1. ASSUME NEW f \in Manifest, p \in untouched
        PROVE  \/ clones'[p].work.copies[f] = clones'[p].work.files[f]
               \/ f \in PlacesOf(c)
    <3>1. \/ clones[p].work.copies[f] = clones[p].work.files[f]
          \/ f \in PlacesOf(c)
      BY <2>1 DEF ReleaseIInv, PersonInv, CopiesFollow
    <3>2. f \in File
      BY DEF Manifest
    <3>3. QED
      BY <1>5, <1>9, <3>1, <3>2
  <2>2. QED
    BY <1>1, <1>6, <1>7, <2>1 DEF CopiesFollow
<1>13. PersonInv(p)'
  BY <1>1, <1>6, <1>7, <1>9, <1>11, <1>12
     DEF ReleaseIInv, PersonInv, HeadIsMain, CheckedIsMain, PinsOut, OwnTagOnly
<1>14. QED
  BY <1>1, <1>7, <1>9, <1>10, <1>13, OnePersonsStep

(* In the end the copies are those of the manifests that were written.     *)
LEMMA EmbedKeeps ==
    ASSUME ReleaseIInv, NEW p \in Person, UpdateEmbedded(p)
    PROVE  ReleaseIInv'
<1> DEFINE old == clones[p].work
           copies == [f \in Manifest |-> IF f \in PlacesOf(doing[p].component)
                                         THEN old.files[f] ELSE old.copies[f]]
           edited == [old EXCEPT !.copies = copies]
           new == [clones[p] EXCEPT !.work = edited]
<1>1. /\ UNCHANGED <<main, tags, meddling, untouched, sets>> /\ doing[p].at = "set"
      /\ doing' = [doing EXCEPT ![p] = Resting]
      /\ clones' = [clones EXCEPT ![p] = new]
  BY DEF UpdateEmbedded
<1>2. clones[p] \in CloneType /\ old \in Tree
  BY DEF ReleaseIInv, StrongTypeOK, CloneType
<1>3. copies \in [Manifest -> Version]
  BY <1>2 DEF Tree, Manifest
<1>4. \A f \in Manifest : copies[f] = IF f \in PlacesOf(doing[p].component)
                                      THEN old.files[f] ELSE old.copies[f]
  OBVIOUS
<1> HIDE DEF copies
<1>5. edited \in Tree /\ edited.files = old.files /\ edited.copies = copies
  BY <1>2, <1>3 DEF Tree
<1> HIDE DEF edited
<1>6. /\ new \in CloneType /\ new.head = clones[p].head /\ new.tree = clones[p].tree
      /\ new.work = edited /\ new.tags = clones[p].tags
  BY <1>2, <1>5 DEF CloneType
<1> HIDE DEF new
<1>7. /\ clones' \in [Person -> CloneType] /\ clones'[p] = new
      /\ \A q \in Person \ {p} : clones'[q] = clones[q]
  BY <1>1, <1>6 DEF ReleaseIInv, StrongTypeOK
<1>8. /\ doing'[p] = Resting /\ Resting.at = "rest"
      /\ \A q \in Person \ {p} : doing'[q] = doing[q]
      /\ doing' \in [Person -> {Resting} \union Setting \union Checking]
  BY <1>1 DEF ReleaseIInv, StrongTypeOK, Resting
<1>9. StrongTypeOK'
  BY <1>1, <1>7, <1>8 DEF ReleaseIInv, StrongTypeOK
<1>10. CopiesFollow(p)'
  <2>1. ASSUME NEW f \in Manifest, p \in untouched
        PROVE  edited.copies[f] = edited.files[f]
    <3>1. old.copies[f] = old.files[f] \/ f \in PlacesOf(doing[p].component)
      BY <2>1 DEF ReleaseIInv, PersonInv, CopiesFollow
    <3>2. QED
      BY <1>4, <1>5, <3>1
  <2>2. QED
    BY <1>1, <1>6, <1>7, <2>1 DEF CopiesFollow
<1>11. PersonInv(p)'
  BY <1>1, <1>6, <1>7, <1>8, <1>10
     DEF ReleaseIInv, PersonInv, HeadIsMain, PlacesLeft, CheckedIsMain, PinsOut, OwnTagOnly
<1>12. QED
  BY <1>1, <1>7, <1>8, <1>9, <1>11, OnePersonsStep

-----------------------------------------------------------------------------
(* Releasing                                                               *)

(* What is looked at when a release begins is what main has.               *)
LEMMA CheckCloneKeeps ==
    ASSUME ReleaseIInv, NEW p \in Person, NEW c \in Component, CheckClone(p, c)
    PROVE  ReleaseIInv'
<1> DEFINE v == VersionOf(clones[p].work, c)
           new == [at |-> "checked", component |-> c, version |-> v]
<1>1. /\ UNCHANGED <<main, tags, clones, meddling, untouched, sets>> /\ AtRest(p)
      /\ PlacesAgree(clones[p].work, c)
      /\ clones[p].head = Len(main) /\ clones[p].work = clones[p].tree
      /\ doing' = [doing EXCEPT ![p] = new]
  BY DEF CheckClone, OnMain
<1>2. clones[p].work \in Tree /\ Len(main) \in 1..MaxCommits
  BY DEF ReleaseIInv, StrongTypeOK, CloneType
<1>3. Places(c)[1] \in File
  BY PlacesAreFiles
<1>4. v \in Version
  BY <1>2, <1>3 DEF VersionOf, Tree
<1>5. \A f \in PlacesOf(c) : clones[p].tree.files[f] = v
  BY <1>1 DEF PlacesAgree
<1> HIDE DEF v
<1>6. new \in Checking /\ new.at = "checked" /\ new.component = c /\ new.version = v
  BY <1>4 DEF Checking
<1> HIDE DEF new
<1>7. /\ doing'[p] = new /\ \A q \in Person \ {p} : doing'[q] = doing[q]
      /\ doing' \in [Person -> {Resting} \union Setting \union Checking]
  BY <1>1, <1>6 DEF ReleaseIInv, StrongTypeOK
<1>8. StrongTypeOK'
  BY <1>1, <1>7 DEF ReleaseIInv, StrongTypeOK
<1>9. CheckedIsMain(p)'
  BY <1>1, <1>2, <1>5, <1>6, <1>7 DEF CheckedIsMain
<1>10. PersonInv(p)'
  BY <1>1, <1>6, <1>7, <1>9
     DEF ReleaseIInv, PersonInv, HeadIsMain, PlacesLeft, CopiesFollow, PinsOut, OwnTagOnly, AtRest
<1>11. QED
  BY <1>1, <1>7, <1>8, <1>10, OnePersonsStep

(* An installer is only ready once what its manifests pin is out.          *)
LEMMA CheckRemoteKeeps ==
    ASSUME ReleaseIInv, NEW p \in Person, CheckRemote(p)
    PROVE  ReleaseIInv'
<1> DEFINE ready == [doing[p] EXCEPT !.at = "ready"]
           may == Releasable(p, doing[p].component, doing[p].version)
           new == IF may THEN ready ELSE Resting
<1>1. UNCHANGED <<main, tags, clones, meddling, untouched, sets>> /\ doing[p].at = "checked"
  BY DEF CheckRemote
<1>2. doing' = [doing EXCEPT ![p] = new]
  BY DEF CheckRemote
<1>3. doing[p] \in Checking
  BY <1>1, DoingIs DEF ReleaseIInv
<1>4. /\ ready \in Checking /\ ready.at = "ready"
      /\ ready.component = doing[p].component /\ ready.version = doing[p].version
  BY <1>3 DEF Checking
<1>5. Resting.at = "rest"
  BY DEF Resting
<1> HIDE DEF ready, may
<1>6. /\ (doing'[p] = ready /\ may) \/ doing'[p] = Resting
      /\ \A q \in Person \ {p} : doing'[q] = doing[q]
      /\ doing' \in [Person -> {Resting} \union Setting \union Checking]
  BY <1>2, <1>4 DEF ReleaseIInv, StrongTypeOK
<1>7. StrongTypeOK'
  BY <1>1, <1>6 DEF ReleaseIInv, StrongTypeOK
<1>8. ASSUME doing'[p] = Resting PROVE PersonInv(p)'
  BY <1>1, <1>5, <1>8 DEF ReleaseIInv, PersonInv, HeadIsMain, PlacesLeft, CopiesFollow,
                          CheckedIsMain, PinsOut, OwnTagOnly
<1>9. ASSUME doing'[p] = ready, may PROVE PersonInv(p)'
  <2>1. CheckedIsMain(p)'
    BY <1>1, <1>4, <1>9 DEF ReleaseIInv, PersonInv, CheckedIsMain
  <2>2. PinsOut(p)'
    <3>1. doing[p].component = "installer" => PinnedReleased(p)
      BY <1>9 DEF may, Releasable
    <3>2. clones[p].work = clones[p].tree
      BY <1>1 DEF ReleaseIInv, PersonInv, CheckedIsMain
    <3>3. QED
      BY <1>1, <1>4, <1>9, <3>1, <3>2 DEF PinsOut, PinnedReleased
  <2>3. QED
    BY <1>1, <1>4, <1>9, <2>1, <2>2
       DEF ReleaseIInv, PersonInv, HeadIsMain, PlacesLeft, CopiesFollow, OwnTagOnly
<1>10. PersonInv(p)'
  BY <1>6, <1>8, <1>9
<1>11. QED
  BY <1>1, <1>6, <1>7, <1>10, OnePersonsStep

(* The tag a script makes is of a commit of main that says its version.    *)
LEMMA TagMade ==
    ASSUME ReleaseIInv, NEW p \in Person, doing[p].at \in {"ready", "tagged"}
    PROVE  /\ TagOf(p) \in TagType
           /\ TagOf(p).component = doing[p].component /\ TagOf(p).version = doing[p].version
           /\ TagOf(p).on \in 1..Len(main) /\ main[TagOf(p).on] = TagOf(p).tree
           /\ TagOf(p).tree = clones[p].tree
           /\ \A f \in PlacesOf(doing[p].component) : clones[p].tree.files[f] = doing[p].version
<1>1. doing[p] \in Checking
  BY DoingIs DEF ReleaseIInv
<1>2. doing[p].component \in Component /\ doing[p].version \in Version
  BY <1>1 DEF Checking
<1>3. /\ clones[p].head \in 0..MaxCommits /\ clones[p].tree \in Tree
      /\ clones[p].head \in 0..Len(main) /\ clones[p].head # 0
      /\ main[clones[p].head] = clones[p].tree /\ Len(main) \in Nat
      /\ \A f \in PlacesOf(doing[p].component) : clones[p].tree.files[f] = doing[p].version
  BY DEF ReleaseIInv, StrongTypeOK, CloneType, PersonInv, HeadIsMain, CheckedIsMain
<1>4. TagOf(p) \in TagType
  BY <1>2, <1>3 DEF TagOf, TagType
<1>5. /\ TagOf(p).component = doing[p].component /\ TagOf(p).version = doing[p].version
      /\ TagOf(p).on = clones[p].head /\ TagOf(p).tree = clones[p].tree
  BY DEF TagOf
<1>6. QED
  BY <1>3, <1>4, <1>5

(* The script's own tag is the only one in a clone nothing happened to.  *)
LEMMA TagKeeps ==
    ASSUME ReleaseIInv, NEW p \in Person, Tag(p)
    PROVE  ReleaseIInv'
<1> DEFINE new == [clones[p] EXCEPT !.tags = clones[p].tags \union {TagOf(p)}]
           tagged == [doing[p] EXCEPT !.at = "tagged"]
<1>1. /\ UNCHANGED <<main, tags, meddling, untouched, sets>> /\ doing[p].at = "ready"
      /\ clones' = [clones EXCEPT ![p] = new]
      /\ doing' = [doing EXCEPT ![p] = tagged]
  BY DEF Tag
<1>2. clones[p] \in CloneType /\ TagOf(p) \in TagType /\ doing[p] \in Checking
  BY <1>1, TagMade, DoingIs DEF ReleaseIInv, StrongTypeOK
<1>3. /\ new \in CloneType /\ new.head = clones[p].head /\ new.tree = clones[p].tree
      /\ new.work = clones[p].work /\ new.tags = clones[p].tags \union {TagOf(p)}
  <2> DEFINE some == clones[p].tags \union {TagOf(p)}
  <2>1. some \in SUBSET TagType
    BY <1>2 DEF CloneType
  <2> HIDE DEF some
  <2>2. LET d == [clones[p] EXCEPT !.tags = some]
        IN  /\ d \in CloneType /\ d.head = clones[p].head /\ d.tree = clones[p].tree
            /\ d.work = clones[p].work /\ d.tags = some
    BY <1>2, <2>1 DEF CloneType
  <2>3. QED
    BY <2>2 DEF some
<1>4. /\ tagged \in Checking /\ tagged.at = "tagged"
      /\ tagged.component = doing[p].component /\ tagged.version = doing[p].version
  BY <1>2 DEF Checking
<1> HIDE DEF new, tagged
<1>5. /\ clones' \in [Person -> CloneType] /\ clones'[p] = new
      /\ \A q \in Person \ {p} : clones'[q] = clones[q]
  BY <1>1, <1>3 DEF ReleaseIInv, StrongTypeOK
<1>6. /\ doing'[p] = tagged /\ \A q \in Person \ {p} : doing'[q] = doing[q]
      /\ doing' \in [Person -> {Resting} \union Setting \union Checking]
  BY <1>1, <1>4 DEF ReleaseIInv, StrongTypeOK
<1>7. StrongTypeOK'
  BY <1>1, <1>5, <1>6 DEF ReleaseIInv, StrongTypeOK
<1>8. TagOf(p)' = TagOf(p)
  BY <1>3, <1>4, <1>5, <1>6 DEF TagOf
<1>9. OwnTagOnly(p)'
  BY <1>1, <1>3, <1>4, <1>5, <1>6, <1>8 DEF ReleaseIInv, PersonInv, OwnTagOnly
<1>10. PersonInv(p)'
  BY <1>1, <1>3, <1>4, <1>5, <1>6, <1>9
     DEF ReleaseIInv, PersonInv, HeadIsMain, PlacesLeft, CopiesFollow, CheckedIsMain, PinsOut
<1>11. QED
  BY <1>1, <1>5, <1>6, <1>7, <1>10, OnePersonsStep

(* However a push ends, its tag is in the clone no more; where it got to   *)
(* the remote, it is a tag like the others there.                          *)
LEMMA PushEnds ==
    ASSUME ReleaseIInv, NEW p \in Person, doing[p].at = "tagged",
           tags' = tags \/ tags' = tags \union {TagOf(p)},
           clones' = [clones EXCEPT ![p] = [clones[p] EXCEPT !.tags = clones[p].tags \ {TagOf(p)}]],
           doing' = [doing EXCEPT ![p] = Resting],
           UNCHANGED <<main, untouched, sets>>,
           meddling' \in 0..MaxMeddling, meddling' = 0 => meddling = 0
    PROVE  ReleaseIInv'
<1> DEFINE new == [clones[p] EXCEPT !.tags = clones[p].tags \ {TagOf(p)}]
<1>1. /\ TagOf(p) \in TagType
      /\ TagOf(p).component = doing[p].component /\ TagOf(p).version = doing[p].version
      /\ TagOf(p).on \in 1..Len(main) /\ main[TagOf(p).on] = TagOf(p).tree
      /\ TagOf(p).tree = clones[p].tree
      /\ \A f \in PlacesOf(doing[p].component) : clones[p].tree.files[f] = doing[p].version
  BY TagMade
<1>2. tags \subseteq tags' /\ tags' \subseteq tags \union {TagOf(p)}
  OBVIOUS
<1>3. Grows
  BY <1>2 DEF ReleaseIInv, StrongTypeOK, Grows
<1>4. /\ new \in CloneType /\ new.head = clones[p].head /\ new.tree = clones[p].tree
      /\ new.work = clones[p].work /\ new.tags = clones[p].tags \ {TagOf(p)}
  <2> DEFINE some == clones[p].tags \ {TagOf(p)}
  <2>1. clones[p] \in CloneType
    BY DEF ReleaseIInv, StrongTypeOK
  <2>2. some \in SUBSET TagType
    BY <2>1 DEF CloneType
  <2> HIDE DEF some
  <2>3. LET d == [clones[p] EXCEPT !.tags = some]
        IN  /\ d \in CloneType /\ d.head = clones[p].head /\ d.tree = clones[p].tree
            /\ d.work = clones[p].work /\ d.tags = some
    BY <2>1, <2>2 DEF CloneType
  <2>4. QED
    BY <2>3 DEF some
<1>5. clones' = [clones EXCEPT ![p] = new]
  OBVIOUS
<1> HIDE DEF new
<1>6. /\ clones' \in [Person -> CloneType] /\ clones'[p] = new
      /\ \A q \in Person \ {p} : clones'[q] = clones[q]
  BY <1>4, <1>5 DEF ReleaseIInv, StrongTypeOK
<1>7. /\ doing'[p] = Resting /\ Resting.at = "rest"
      /\ \A q \in Person \ {p} : doing'[q] = doing[q]
      /\ doing' \in [Person -> {Resting} \union Setting \union Checking]
  BY DEF ReleaseIInv, StrongTypeOK, Resting
<1>8. StrongTypeOK'
  BY <1>1, <1>2, <1>6, <1>7 DEF ReleaseIInv, StrongTypeOK
<1>9. OwnTagOnly(p)'
  BY <1>4, <1>6 DEF ReleaseIInv, PersonInv, OwnTagOnly
<1>10. PersonInv(p)'
  BY <1>4, <1>6, <1>7, <1>9
     DEF ReleaseIInv, PersonInv, HeadIsMain, PlacesLeft, CopiesFollow, CheckedIsMain, PinsOut
<1>11. \A q \in Person : PersonInv(q)'
  <2>1. TAKE q \in Person
  <2>2. CASE q = p
    BY <1>10, <2>2
  <2>3. CASE q # p
    BY <1>3, <1>6, <1>7, <2>3, OthersStay
  <2>4. QED
    BY <2>2, <2>3
<1>12. TagsOnMain' /\ TagNamesItsVersion' /\ MainAgrees'
  <2>1. /\ TagOf(p).on # 0
        /\ \A f \in PlacesOf(TagOf(p).component) : TagOf(p).tree.files[f] = TagOf(p).version
    BY <1>1
  <2>2. QED
    BY <1>1, <1>2, <2>1 DEF ReleaseIInv, TagsInv, TagsOnMain, TagNamesItsVersion, MainAgrees
<1>13. PinsAreReleased'
  <2>1. SUFFICES ASSUME NEW t \in tags', t.component = "installer", NEW pin \in Pinned
                 PROVE  /\ Has(tags', pin.by, t.tree.files[pin.file])
                        /\ t.tree.copies[pin.file] = t.tree.files[pin.file]
    BY DEF PinsAreReleased
  <2>2. CASE t \in tags
    BY <1>2, <2>1, <2>2, HasStill DEF ReleaseIInv, TagsInv, PinsAreReleased
  <2>3. CASE t = TagOf(p)
    <3>1. Has(tags, pin.by, t.tree.files[pin.file])
      BY <1>1, <2>1, <2>3 DEF ReleaseIInv, PersonInv, PinsOut
    <3>2. t.tree.copies[pin.file] = t.tree.files[pin.file]
      BY <1>1, <2>3, PinsAreManifests DEF ReleaseIInv, TagsInv, MainAgrees
    <3>3. QED
      BY <1>2, <3>1, <3>2, HasStill
  <2>4. QED
    BY <1>2, <2>1, <2>2, <2>3
<1>14. QED
  BY <1>8, <1>11, <1>12, <1>13 DEF ReleaseIInv, TagsInv

(* A push that fails may still have got to the remote.                   *)
LEMMA PushKeeps ==
    ASSUME ReleaseIInv, NEW p \in Person, Push(p) \/ PushFails(p)
    PROVE  ReleaseIInv'
<1>1. meddling \in 0..MaxMeddling /\ MaxMeddling \in Nat
  BY ReleaseAssumption DEF ReleaseIInv, StrongTypeOK
<1>2. CASE Push(p)
  BY <1>1, <1>2, PushEnds DEF Push
<1>3. CASE PushFails(p)
  <2>1. meddling' \in 0..MaxMeddling /\ (meddling' = 0 => meddling = 0)
    BY <1>1, <1>3 DEF PushFails, Meddle
  <2>2. tags' = tags \/ tags' = tags \union {TagOf(p)}
    BY <1>3 DEF PushFails
  <2>3. QED
    BY <1>3, <2>1, <2>2, PushEnds DEF PushFails
<1>4. QED
  BY <1>2, <1>3

-----------------------------------------------------------------------------
(* What is promised of releases follows from the inductive invariant.      *)
LEMMA ReleaseIInvSuffices == ReleaseIInv => ReleaseInv
<1> SUFFICES ASSUME ReleaseIInv PROVE ReleaseInv
  OBVIOUS
<1>1. \A p \in Person : doing[p] \in DoingType
  <2>1. TAKE p \in Person
  <2>2. CASE doing[p].at = "set"
    <3> DEFINE c == doing[p].component
               n == Len(Places(c))
               suffixes == {SubSeq(Places(c), i, n) : i \in 1..n + 1}
    <3>1. doing[p] \in Setting
      BY <2>2, DoingIs DEF ReleaseIInv
    <3>2. c \in Component /\ doing[p].version \in Version
      BY <3>1 DEF Setting
    <3>3. doing[p].left \in suffixes
      BY <2>2 DEF ReleaseIInv, PersonInv, PlacesLeft
    <3>4. doing[p].left \in UNION {{SubSeq(Places(d), i, Len(Places(d))) : i \in 1..Len(Places(d)) + 1}
                                      : d \in Component}
      BY <3>2, <3>3
    <3>5. QED
      BY <3>1, <3>2, <3>4 DEF DoingType, Setting
  <2>3. CASE doing[p].at # "set"
    BY <2>3, DoingIs DEF ReleaseIInv, DoingType, Checking
  <2>4. QED
    BY <2>2, <2>3
<1>2. ReleaseTypeOK
  BY <1>1 DEF ReleaseIInv, ReleaseTypeOK, StrongTypeOK, CloneType, PersonInv, HeadIsMain
<1>3. TagNamesItsVersion /\ PinsAreReleased
  BY DEF ReleaseIInv, TagsInv
<1>4. FailedLeavesNoTag
  BY DEF ReleaseIInv, PersonInv, OwnTagOnly, FailedLeavesNoTag, AtRest
<1>5. SetCanBeMerged
  BY DEF ReleaseIInv, StrongTypeOK, PersonInv, CopiesFollow, SetCanBeMerged, AtRest
<1>6. QED
  BY <1>2, <1>3, <1>4, <1>5 DEF ReleaseInv

(* To begin with everything says the first version, and nothing is out.  *)
LEMMA InitReleaseIInv == ReleaseInit => ReleaseIInv
<1> SUFFICES ASSUME ReleaseInit PROVE ReleaseIInv
  OBVIOUS
<1> DEFINE tree == [files  |-> [f \in File |-> FirstVersion],
                    copies |-> [f \in Manifest |-> FirstVersion]]
           clone == [head |-> 1, tree |-> tree, work |-> tree, tags |-> {}]
<1>1. /\ main = <<tree>> /\ tags = {} /\ clones = [p \in Person |-> clone]
      /\ doing = [p \in Person |-> Resting]
      /\ sets = 0 /\ meddling = 0 /\ untouched = Person
  BY DEF ReleaseInit
<1>2. /\ tree \in Tree
      /\ \A f \in Manifest : tree.copies[f] = tree.files[f]
  BY ReleaseAssumption DEF Tree, Manifest
<1> HIDE DEF tree
<1>3. /\ clone \in CloneType /\ clone.head = 1 /\ clone.tree = tree /\ clone.work = tree
      /\ clone.tags = {}
  BY <1>2, ReleaseAssumption DEF CloneType
<1> HIDE DEF clone
<1>4. main \in Seq(Tree) /\ Len(main) = 1 /\ main[1] = tree
  BY <1>1, <1>2
<1>5. StrongTypeOK
  BY <1>1, <1>3, <1>4, ReleaseAssumption DEF StrongTypeOK
<1>6. TagsInv
  BY <1>1, <1>2, <1>4 DEF TagsInv, MainAgrees, TagsOnMain, TagNamesItsVersion, PinsAreReleased
<1>7. ASSUME NEW p \in Person PROVE PersonInv(p)
  <2>1. clones[p] = clone /\ doing[p].at = "rest"
    BY <1>1 DEF Resting
  <2>2. QED
    BY <1>2, <1>3, <1>4, <2>1 DEF PersonInv, HeadIsMain, PlacesLeft, CopiesFollow, CheckedIsMain,
                                  PinsOut, OwnTagOnly
<1>8. QED
  BY <1>5, <1>6, <1>7 DEF ReleaseIInv

(* Whatever anybody does keeps the inductive invariant.                  *)
LEMMA NextReleaseIInv ==
    ASSUME ReleaseIInv, [ReleaseNext]_releaseVars
    PROVE  ReleaseIInv'
<1>1. CASE UNCHANGED releaseVars
  <2>1. UNCHANGED <<main, tags, clones, doing, sets, meddling, untouched>>
    BY <1>1 DEF releaseVars
  <2>2. StrongTypeOK' /\ Grows
    BY <2>1 DEF ReleaseIInv, StrongTypeOK, Grows
  <2>3. \A q \in Person : PersonInv(q)'
    BY <2>1, <2>2, OthersStay
  <2>4. QED
    BY <2>1, <2>2, <2>3, TagsStay DEF ReleaseIInv
<1>2. CASE ReleaseNext
  <2>1. PICK p \in Person :
           \/ EditByHand(p) \/ Commit(p) \/ Merge(p) \/ SwitchToMain(p)
           \/ DeleteStaleTag(p) \/ Interrupt(p)
           \/ \E c \in Component : StartSet(p, c) \/ CheckClone(p, c)
           \/ WritePlace(p) \/ UpdateEmbedded(p)
           \/ CheckRemote(p) \/ Decline(p) \/ Tag(p) \/ Push(p) \/ PushFails(p)
    BY <1>2 DEF ReleaseNext
  <2>2. CASE EditByHand(p) \/ Commit(p) \/ Merge(p) \/ SwitchToMain(p) \/ DeleteStaleTag(p)
    BY <2>2, EditKeeps, CommitKeeps, MergeKeeps, SwitchKeeps, DeleteKeeps
  <2>3. CASE Interrupt(p) \/ \E c \in Component : StartSet(p, c) \/ CheckClone(p, c)
    BY <2>3, InterruptKeeps, StartSetKeeps, CheckCloneKeeps
  <2>4. CASE WritePlace(p) \/ UpdateEmbedded(p) \/ CheckRemote(p) \/ Decline(p)
    BY <2>4, WriteKeeps, EmbedKeeps, CheckRemoteKeeps, DeclineKeeps
  <2>5. CASE Tag(p) \/ Push(p) \/ PushFails(p)
    BY <2>5, TagKeeps, PushKeeps
  <2>6. QED
    BY <2>1, <2>2, <2>3, <2>4, <2>5
<1>3. QED
  BY <1>1, <1>2

(* However many people set, merge and release versions, and wherever their *)
(* scripts are cut short: a tag names the version of the commit of main it *)
(* is on, an installer that is out pins only images that are out and       *)
(* carries the manifests that pin them, a script that fails leaves no tag  *)
(* behind, and what `set' wrote passes CI.                                 *)
THEOREM ReleasesAreWhole == ReleaseSpec => []ReleaseInv
<1>1. ReleaseIInv /\ [ReleaseNext]_releaseVars => ReleaseIInv'
  BY NextReleaseIInv
<1>2. QED
  BY InitReleaseIInv, <1>1, ReleaseIInvSuffices, PTL DEF ReleaseSpec

-----------------------------------------------------------------------------
(* Where a run has got to                                                  *)

\* The step a run has come to.
Place(steps) == IF steps = <<>> THEN "end" ELSE Head(steps)

Here == Place(run.steps)

AddSteps ==
    {"create-volume-groups", "install-k3s-agent", "wait-for-k3s", "verify-k3s",
     "check-cluster-access", "verify-node-ready"}

DrainSteps == {"check-node-in-cluster", "cordon-node", "drain-node", "verify-node-drained"}

TakeOffSteps ==
    {"check-k3s-present", "stop-k3s", "remove-k3s", "verify-k3s-removed", "remove-node",
     "verify-node-removed"}

CleanSteps == {"check-ready-to-clean", "remove-k3s-state", "verify-clean"}

StorageSteps ==
    {"read-volume-groups", "check-storage-approved", "remove-volume-groups",
     "verify-volume-groups-removed"}

\* What a run may have left to do.
StepName ==
    AddSteps \union DrainSteps \union TakeOffSteps \union CleanSteps \union StorageSteps
    \union {"check-cluster-online"}

RunType ==
    [what : {"nothing", "add-node", "uninstall", "clean", "run-bundle"},
     steps : Seq(StepName), verifying : BOOLEAN, keepGoing : BOOLEAN,
     draining : BOOLEAN, approved : BOOLEAN, inCluster : BOOLEAN,
     installed : BOOLEAN, owned : BOOLEAN, failed : BOOLEAN,
     able : BOOLEAN, faulted : BOOLEAN]

AddOrder ==
    {<<"check-cluster-online", "create-volume-groups">>,
     <<"create-volume-groups", "install-k3s-agent">>,
     <<"install-k3s-agent", "wait-for-k3s">>,
     <<"wait-for-k3s", "verify-k3s">>,
     <<"verify-k3s", "check-cluster-access">>,
     <<"check-cluster-access", "verify-node-ready">>,
     <<"verify-node-ready", "end">>}

DrainOrder ==
    {<<"check-node-in-cluster", "cordon-node">>,
     <<"cordon-node", "drain-node">>,
     <<"drain-node", "verify-node-drained">>}

TakeOffOrder ==
    {<<"check-k3s-present", "stop-k3s">>,
     <<"stop-k3s", "remove-k3s">>,
     <<"remove-k3s", "verify-k3s-removed">>}

RemovedOrder ==
    {<<"remove-node", "verify-node-removed">>,
     <<"verify-node-removed", "end">>}

StorageOrder ==
    {<<"read-volume-groups", "check-storage-approved">>,
     <<"check-storage-approved", "remove-volume-groups">>,
     <<"remove-volume-groups", "verify-volume-groups-removed">>,
     <<"verify-volume-groups-removed", "end">>}

UninstallOrder(draining) ==
    {<<"check-cluster-online",
       IF draining THEN "check-node-in-cluster" ELSE "check-k3s-present">>,
     <<"verify-k3s-removed", "remove-node">>}
    \union (IF draining THEN DrainOrder \union {<<"verify-node-drained", "check-k3s-present">>}
            ELSE {})
    \union TakeOffOrder \union RemovedOrder

CleanOrder(full) ==
    {<<"check-ready-to-clean", "remove-k3s-state">>,
     <<"remove-k3s-state", "verify-clean">>,
     <<"verify-clean", IF full THEN "read-volume-groups" ELSE "end">>}
    \union (IF full THEN StorageOrder ELSE {})

BundleOrder ==
    {<<"verify-node-drained", "end">>, <<"verify-k3s-removed", "end">>}
    \union DrainOrder \union TakeOffOrder \union RemovedOrder \union StorageOrder

\* Each step is followed by the next in the order.
InOrder(steps, order) ==
    \A i \in 1..Len(steps) :
        <<steps[i], IF i = Len(steps) THEN "end" ELSE steps[i + 1]>> \in order

\* A run is on its way, and only one that verifies goes on past a failure.
OnItsWay ==
    /\ run.what = "nothing" <=> run = Idle
    /\ run.what = "add-node" => InOrder(run.steps, AddOrder)
    /\ run.what = "uninstall" => InOrder(run.steps, UninstallOrder(run.draining))
    /\ run.what = "clean" =>
          \E full \in BOOLEAN :
              /\ InOrder(run.steps, CleanOrder(full))
              /\ run.approved => full
              /\ run.able /\ full => run.approved
    /\ run.what = "run-bundle" => InOrder(run.steps, BundleOrder) /\ ~run.verifying /\ ~run.able
    /\ ~run.verifying => ~run.keepGoing
    /\ run.failed /\ ~run.verifying => run.steps = <<>>

-----------------------------------------------------------------------------
(* What is so while it does                                                *)

TypesInv ==
    /\ TypeOK
    /\ run \in RunType

\* K3s runs only where it is whole, and pods only where K3s was.
Sound ==
    /\ k3s.unit => k3s.binary /\ k3s.killall
    /\ k3s.active => k3s.unit /\ k3s.enabled /\ k3s.binary /\ k3s.killall
    /\ k3s.connected => k3s.active
    /\ work.containers \/ work.mounted => k3s.killall /\ k3s.binary

Off == ~k3s.active /\ ~k3s.unit /\ ~k3s.binary /\ ~work.containers /\ ~work.mounted

\* A machine that is out has nothing that could come back.
OutInv ==
    /\ out => Off /\ object = "absent"
    /\ run.what = "add-node" => ~out

\* K3s runs from when it is installed.
AddInv ==
    run.what = "add-node" /\ ~run.failed /\
    (run.verifying \/ Here \in {"wait-for-k3s", "verify-k3s", "check-cluster-access",
                               "verify-node-ready", "end"})
        => k3s.active

Drained == ~work.bound /\ ~work.containers /\ object = "cordoned"

\* What was found in the cluster is still there, and empty once it is drained.
DrainInv ==
    ~run.verifying =>
        /\ run.inCluster =>
              /\ Here = "cordon-node" => object # "absent"
              /\ Here = "drain-node" => object = "cordoned"
              /\ Here = "verify-node-drained" => Drained
              /\ run.draining /\ Here \in {"check-k3s-present", "stop-k3s"} => Drained
        /\ run.able /\ run.draining
              /\ Here \in {"check-cluster-online", "check-node-in-cluster", "cordon-node",
                          "drain-node"}
              => ~work.bound \/ k3s.active

\* K3s is taken off a machine on which it has stopped.
TakeOffInv ==
    ~run.verifying =>
        /\ Here = "stop-k3s" => run.installed = Present
        /\ Here = "remove-k3s" =>
              /\ ~k3s.active /\ ~work.containers /\ ~work.mounted
              /\ ~run.installed => ~Present
        /\ Here = "verify-k3s-removed" => Off

\* What an uninstall has done stays done.
UninstallInv ==
    run.what = "uninstall" =>
        /\ run.verifying \/ Here \in {"remove-node", "verify-node-removed"}
              \/ (Here = "end" /\ ~run.failed) => Off
        /\ run.verifying \/ Here = "verify-node-removed" \/ (Here = "end" /\ ~run.failed)
              => object = "absent"
        /\ run.verifying => ~run.inCluster

\* And what a clean has done.
CleanInv ==
    /\ ~run.verifying =>
          /\ Here = "remove-k3s-state" => ~k3s.active /\ ~work.mounted
          /\ Here \in {"check-storage-approved", "remove-volume-groups"} =>
                run.owned = storage.group
    /\ run.what = "clean" /\ run.able =>
          /\ out
          /\ run.verifying \/ Here \in StorageSteps \union {"verify-clean"}
                \/ (Here = "end" /\ ~run.failed) => ~kept.dirs
          /\ run.approved /\ (run.verifying \/ Here = "verify-volume-groups-removed"
                               \/ (Here = "end" /\ ~run.failed)) => ~storage.group

LifecycleIInv ==
    /\ TypesInv /\ OnItsWay /\ Sound /\ OutInv
    /\ AddInv /\ DrainInv /\ TakeOffInv /\ UninstallInv /\ CleanInv
    /\ RerunSucceeds
-----------------------------------------------------------------------------
(* The ways                                                                *)

\* The step from one place to the next is on the way of the run.
Moves ==
    /\ run.what = "add-node" => <<Here, Here'>> \in AddOrder
    /\ run.what = "uninstall" => <<Here, Here'>> \in UninstallOrder(run.draining)
    /\ run.what = "clean" =>
          \E full \in BOOLEAN :
              /\ <<Here, Here'>> \in CleanOrder(full)
              /\ run.approved => full
              /\ run.able /\ full => run.approved
    /\ run.what = "run-bundle" => <<Here, Here'>> \in BundleOrder

\* What a run was told stays as it was.
SameOrders ==
    /\ run'.what = run.what /\ run'.draining = run.draining
    /\ run'.approved = run.approved /\ run'.able = run.able
    /\ run'.verifying = run.verifying /\ run'.keepGoing = run.keepGoing

(* What is left of a way after its first step is a way.                    *)
LEMMA TailInOrder ==
    ASSUME NEW steps \in Seq(StepName), NEW order, InOrder(steps, order), steps # <<>>
    PROVE  /\ InOrder(Tail(steps), order)
           /\ <<Head(steps), Place(Tail(steps))>> \in order
           /\ Tail(steps) \in Seq(StepName)
<1>1. PICK n \in Nat : n = Len(steps) /\ n > 0
  BY EmptySeq
<1>2. PICK rest \in Seq(StepName) :
         /\ rest = Tail(steps) /\ Len(rest) = n - 1
         /\ \A i \in 1..n - 1 : rest[i] = steps[i + 1]
  <2>1. Tail(steps) \in Seq(StepName) /\ Len(Tail(steps)) = n - 1
    BY <1>1, HeadTailProperties
  <2>2. \A i \in 1..n - 1 : Tail(steps)[i] = steps[i + 1]
    BY <1>1, <2>1, HeadTailProperties
  <2>3. QED
    BY <2>1, <2>2
<1>3. \A i \in 1..n : <<steps[i], IF i = n THEN "end" ELSE steps[i + 1]>> \in order
  BY <1>1 DEF InOrder
<1>4. InOrder(rest, order)
  <2>1. SUFFICES ASSUME NEW i \in 1..n - 1
                 PROVE  <<rest[i], IF i = n - 1 THEN "end" ELSE rest[i + 1]>> \in order
    BY <1>2 DEF InOrder
  <2>2. <<steps[i + 1], IF i + 1 = n THEN "end" ELSE steps[(i + 1) + 1]>> \in order
    BY <1>1, <1>3, <2>1
  <2>3. rest[i] = steps[i + 1]
    BY <1>2, <2>1
  <2>4. CASE i = n - 1
    BY <1>1, <2>2, <2>3, <2>4
  <2>5. CASE i # n - 1
    <3>1. rest[i + 1] = steps[(i + 1) + 1]
      BY <1>1, <1>2, <2>1, <2>5
    <3>2. QED
      BY <1>1, <2>1, <2>2, <2>3, <2>5, <3>1
  <2>6. QED
    BY <2>4, <2>5
<1>5. <<steps[1], IF 1 = n THEN "end" ELSE steps[2]>> \in order
  BY <1>1, <1>3
<1>6. Place(rest) = IF 1 = n THEN "end" ELSE steps[2]
  <2>1. CASE n = 1
    <3>1. rest = <<>>
      BY <1>2, <2>1, EmptySeq
    <3>2. QED
      BY <2>1, <3>1 DEF Place
  <2>2. CASE n # 1
    <3>1. rest # <<>>
      <4>1. Len(rest) # 0
        BY <1>1, <1>2, <2>2
      <4>2. QED
        BY <4>1, EmptySeq
    <3>2. Head(rest) = rest[1]
      OBVIOUS
    <3>3. rest[1] = steps[2]
      BY <1>1, <1>2, <2>2
    <3>4. QED
      BY <2>2, <3>1, <3>2, <3>3 DEF Place
  <2>3. QED
    BY <2>1, <2>2
<1>7. Head(steps) = steps[1]
  OBVIOUS
<1>8. QED
  BY <1>2, <1>4, <1>5, <1>6, <1>7

(* A run that goes on stays on its way.                                    *)
LEMMA GoesOn ==
    ASSUME TypesInv, OnItsWay, run.steps # <<>>, run' \in RunType,
           run'.steps = Tail(run.steps), SameOrders, run'.failed => run'.verifying
    PROVE  OnItsWay' /\ Moves
<1>1. run \in RunType
  BY DEF TypesInv
<1>2. run.steps \in Seq(StepName)
  BY <1>1 DEF RunType
<1>3. \A order : InOrder(run.steps, order) =>
         InOrder(run'.steps, order) /\ <<Here, Here'>> \in order
  BY <1>2, TailInOrder DEF Here, Place
<1>4. run # Idle /\ run.what # "nothing"
  BY DEF OnItsWay, Idle
<1>5. run' # Idle
  BY <1>4 DEF SameOrders, Idle
<1>6. OnItsWay'
  BY <1>3, <1>4, <1>5 DEF OnItsWay, SameOrders
<1>7. Moves
  BY <1>3 DEF OnItsWay, Moves
<1>8. QED
  BY <1>6, <1>7

(* Whose each step is.                                                     *)
LEMMA WhoseStep ==
    ASSUME TypesInv, OnItsWay, run.steps # <<>>
    PROVE  /\ run.what \in {"add-node", "uninstall", "clean", "run-bundle"}
           /\ Here = "check-cluster-online" => run.what \in {"add-node", "uninstall"}
           /\ Here \in AddSteps => run.what = "add-node"
           /\ Here \in DrainSteps =>
                 run.what = "run-bundle" \/ (run.what = "uninstall" /\ run.draining)
           /\ Here \in TakeOffSteps => run.what \in {"uninstall", "run-bundle"}
           /\ Here \in CleanSteps => run.what = "clean"
           /\ Here \in StorageSteps =>
                 \/ run.what = "run-bundle"
                 \/ run.what = "clean" /\ (run.able => run.approved)
           /\ run.verifying => run.what # "run-bundle"
           /\ Here # "end"
<1>1. run \in RunType /\ run.steps \in Seq(StepName)
  BY DEF TypesInv, RunType
<1>2. PICK next : next = Place(Tail(run.steps))
  OBVIOUS
<1>3. \A order : InOrder(run.steps, order) => <<Here, next>> \in order
  BY <1>1, <1>2, TailInOrder DEF Here, Place
<1>4. /\ run.what = "add-node" => <<Here, next>> \in AddOrder
      /\ run.what = "uninstall" => <<Here, next>> \in UninstallOrder(run.draining)
      /\ run.what = "clean" =>
            \E full \in BOOLEAN :
                <<Here, next>> \in CleanOrder(full) /\ (run.able /\ full => run.approved)
      /\ run.what = "run-bundle" => <<Here, next>> \in BundleOrder /\ ~run.verifying
  BY <1>3 DEF OnItsWay
<1>5. run.what \in {"add-node", "uninstall", "clean", "run-bundle"}
  BY <1>1 DEF RunType, OnItsWay, Idle
<1>6. /\ Here = "check-cluster-online" => run.what \in {"add-node", "uninstall"}
      /\ Here \in AddSteps => run.what = "add-node"
      /\ Here # "end"
  BY <1>4, <1>5 DEF AddSteps, AddOrder, UninstallOrder, CleanOrder, BundleOrder, DrainOrder,
                    TakeOffOrder, RemovedOrder, StorageOrder
<1>7. /\ Here \in DrainSteps =>
            run.what = "run-bundle" \/ (run.what = "uninstall" /\ run.draining)
      /\ Here \in TakeOffSteps => run.what \in {"uninstall", "run-bundle"}
  BY <1>4, <1>5 DEF DrainSteps, TakeOffSteps, AddOrder, UninstallOrder, CleanOrder, BundleOrder,
                    DrainOrder, TakeOffOrder, RemovedOrder, StorageOrder
<1>8. /\ Here \in CleanSteps => run.what = "clean"
      /\ Here \in StorageSteps =>
            \/ run.what = "run-bundle"
            \/ run.what = "clean" /\ (run.able => run.approved)
  BY <1>4, <1>5 DEF CleanSteps, StorageSteps, AddOrder, UninstallOrder, CleanOrder,
                    BundleOrder, DrainOrder, TakeOffOrder, RemovedOrder, StorageOrder
<1>9. QED
  BY <1>4, <1>5, <1>6, <1>7, <1>8

(* Where each step leads.                                                  *)
LEMMA WhereTo ==
    ASSUME Moves, run.what \in {"add-node", "uninstall", "clean", "run-bundle"},
           run.draining \in BOOLEAN
    PROVE  /\ Here = "check-cluster-online" =>
                 \/ run.what = "add-node" /\ Here' = "create-volume-groups"
                 \/ run.what = "uninstall" /\ run.draining /\ Here' = "check-node-in-cluster"
                 \/ run.what = "uninstall" /\ ~run.draining /\ Here' = "check-k3s-present"
           /\ Here = "create-volume-groups" => Here' = "install-k3s-agent"
           /\ Here = "install-k3s-agent" => Here' = "wait-for-k3s"
           /\ Here = "wait-for-k3s" => Here' = "verify-k3s"
           /\ Here = "verify-k3s" => Here' = "check-cluster-access"
           /\ Here = "check-cluster-access" => Here' = "verify-node-ready"
           /\ Here = "verify-node-ready" => Here' = "end"
           /\ Here = "check-node-in-cluster" => Here' = "cordon-node"
           /\ Here = "cordon-node" => Here' = "drain-node"
           /\ Here = "drain-node" => Here' = "verify-node-drained"
           /\ Here = "verify-node-drained" =>
                 IF run.what = "uninstall" THEN Here' = "check-k3s-present" ELSE Here' = "end"
           /\ Here = "check-k3s-present" => Here' = "stop-k3s"
           /\ Here = "stop-k3s" => Here' = "remove-k3s"
           /\ Here = "remove-k3s" => Here' = "verify-k3s-removed"
           /\ Here = "verify-k3s-removed" =>
                 IF run.what = "uninstall" THEN Here' = "remove-node" ELSE Here' = "end"
           /\ Here = "remove-node" => Here' = "verify-node-removed"
           /\ Here = "verify-node-removed" => Here' = "end"
<1>1. Here = "check-cluster-online" =>
         \/ run.what = "add-node" /\ Here' = "create-volume-groups"
         \/ run.what = "uninstall" /\ run.draining /\ Here' = "check-node-in-cluster"
         \/ run.what = "uninstall" /\ ~run.draining /\ Here' = "check-k3s-present"
  BY DEF Moves, AddOrder, UninstallOrder, CleanOrder, BundleOrder, DrainOrder, TakeOffOrder,
         RemovedOrder, StorageOrder
<1>2. Here \in AddSteps =>
         /\ Here = "create-volume-groups" => Here' = "install-k3s-agent"
         /\ Here = "install-k3s-agent" => Here' = "wait-for-k3s"
         /\ Here = "wait-for-k3s" => Here' = "verify-k3s"
         /\ Here = "verify-k3s" => Here' = "check-cluster-access"
         /\ Here = "check-cluster-access" => Here' = "verify-node-ready"
         /\ Here = "verify-node-ready" => Here' = "end"
  BY DEF Moves, AddSteps, AddOrder, UninstallOrder, CleanOrder, BundleOrder, DrainOrder,
         TakeOffOrder, RemovedOrder, StorageOrder
<1>3. Here \in DrainSteps =>
         /\ Here = "check-node-in-cluster" => Here' = "cordon-node"
         /\ Here = "cordon-node" => Here' = "drain-node"
         /\ Here = "drain-node" => Here' = "verify-node-drained"
         /\ Here = "verify-node-drained" =>
               IF run.what = "uninstall" THEN Here' = "check-k3s-present" ELSE Here' = "end"
  BY DEF Moves, DrainSteps, AddOrder, UninstallOrder, CleanOrder, BundleOrder, DrainOrder,
         TakeOffOrder, RemovedOrder, StorageOrder
<1>4. Here \in TakeOffSteps =>
         /\ Here = "check-k3s-present" => Here' = "stop-k3s"
         /\ Here = "stop-k3s" => Here' = "remove-k3s"
         /\ Here = "remove-k3s" => Here' = "verify-k3s-removed"
         /\ Here = "verify-k3s-removed" =>
               IF run.what = "uninstall" THEN Here' = "remove-node" ELSE Here' = "end"
         /\ Here = "remove-node" => Here' = "verify-node-removed"
         /\ Here = "verify-node-removed" => Here' = "end"
  BY DEF Moves, TakeOffSteps, AddOrder, UninstallOrder, CleanOrder, BundleOrder, DrainOrder,
         TakeOffOrder, RemovedOrder, StorageOrder
<1>5. QED
  BY <1>1, <1>2, <1>3, <1>4 DEF AddSteps, DrainSteps, TakeOffSteps

(* And those of a clean.                                                   *)
LEMMA WhereToClean ==
    ASSUME Moves, run.what \in {"add-node", "uninstall", "clean", "run-bundle"},
           run.draining \in BOOLEAN
    PROVE  /\ Here = "check-ready-to-clean" => Here' = "remove-k3s-state"
           /\ Here = "remove-k3s-state" => Here' = "verify-clean"
           /\ Here = "verify-clean" =>
                 \/ Here' = "read-volume-groups" /\ (run.able => run.approved)
                 \/ Here' = "end" /\ ~run.approved
           /\ Here = "read-volume-groups" => Here' = "check-storage-approved"
           /\ Here = "check-storage-approved" => Here' = "remove-volume-groups"
           /\ Here = "remove-volume-groups" => Here' = "verify-volume-groups-removed"
           /\ Here = "verify-volume-groups-removed" => Here' = "end"
<1>1. Here \in CleanSteps =>
         /\ Here = "check-ready-to-clean" => Here' = "remove-k3s-state"
         /\ Here = "remove-k3s-state" => Here' = "verify-clean"
         /\ Here = "verify-clean" =>
               \/ Here' = "read-volume-groups" /\ (run.able => run.approved)
               \/ Here' = "end" /\ ~run.approved
  BY DEF Moves, CleanSteps, AddOrder, UninstallOrder, CleanOrder, BundleOrder, DrainOrder,
         TakeOffOrder, RemovedOrder, StorageOrder
<1>2. Here \in StorageSteps =>
         /\ Here = "read-volume-groups" => Here' = "check-storage-approved"
         /\ Here = "check-storage-approved" => Here' = "remove-volume-groups"
         /\ Here = "remove-volume-groups" => Here' = "verify-volume-groups-removed"
         /\ Here = "verify-volume-groups-removed" => Here' = "end"
  BY DEF Moves, AddOrder, UninstallOrder, CleanOrder, BundleOrder, DrainOrder, TakeOffOrder,
         RemovedOrder, StorageOrder, StorageSteps
<1>3. QED
  BY <1>1, <1>2 DEF CleanSteps, StorageSteps
-----------------------------------------------------------------------------
(* How a run stops, and is asked again                                     *)

(* Nothing is said of a run that is none, but that the machine is sound.   *)
LEMMA NoRun ==
    ASSUME run' = Idle, TypeOK', Sound', out' => Off' /\ object' = "absent"
    PROVE  LifecycleIInv'
<1>1. /\ run'.what = "nothing" /\ run'.steps = <<>> /\ ~run'.verifying /\ ~run'.keepGoing
      /\ ~run'.inCluster /\ ~run'.installed /\ ~run'.owned /\ ~run'.able /\ ~run'.failed
      /\ ~run'.draining
  BY DEF Idle
<1>2. run' \in RunType
  BY DEF Idle, RunType
<1>3. Here' = "end"
  BY <1>1 DEF Here, Place
<1>4. TypesInv' /\ OnItsWay'
  BY <1>1, <1>2 DEF TypesInv, OnItsWay
<1>5. OutInv' /\ AddInv' /\ DrainInv' /\ TakeOffInv' /\ UninstallInv' /\ CleanInv'
  BY <1>1, <1>3 DEF OutInv, AddInv, DrainInv, TakeOffInv, UninstallInv, CleanInv, StorageSteps
<1>6. RerunSucceeds'
  BY <1>1 DEF RerunSucceeds
<1>7. QED
  BY <1>4, <1>5, <1>6 DEF LifecycleIInv

(* A run that fails is over, and did what it did.                          *)
LEMMA Stops ==
    ASSUME LifecycleIInv, run.what # "nothing", NEW wrong \in BOOLEAN,
           run' = [run EXCEPT !.failed = TRUE, !.faulted = wrong, !.steps = <<>>],
           run.able => wrong,
           TypeOK', Sound', out' = out, out' => Off' /\ object' = "absent",
           run.verifying => UNCHANGED <<kept, storage, object>> /\ (Off => Off')
    PROVE  LifecycleIInv'
<1>1. run \in RunType
  BY DEF LifecycleIInv, TypesInv
<1>2. /\ SameOrders /\ run'.steps = <<>> /\ run'.failed /\ run'.faulted = wrong
      /\ run'.inCluster = run.inCluster /\ run'.installed = run.installed
      /\ run'.owned = run.owned /\ run' \in RunType
  <2>1. <<>> \in Seq(StepName)
    OBVIOUS
  <2>2. run' \in RunType
    BY <1>1, <2>1 DEF RunType
  <2>3. QED
    BY <1>1, <2>2 DEF RunType, SameOrders
<1>3. Here' = "end" /\ run' # Idle
  BY <1>2 DEF Here, Place, Idle
<1>4. \A order : InOrder(run'.steps, order)
  BY <1>2 DEF InOrder
<1>5. TypesInv'
  BY <1>2 DEF TypesInv
<1>6. OnItsWay'
  BY <1>2, <1>3, <1>4 DEF OnItsWay, SameOrders, LifecycleIInv
<1>7. OutInv' /\ AddInv' /\ DrainInv' /\ TakeOffInv'
  BY <1>2, <1>3 DEF LifecycleIInv, OutInv, AddInv, DrainInv, TakeOffInv, SameOrders
<1>8. UninstallInv'
  BY <1>2, <1>3 DEF LifecycleIInv, UninstallInv, SameOrders
<1>9. CleanInv'
  BY <1>2, <1>3 DEF LifecycleIInv, CleanInv, SameOrders, StorageSteps
<1>10. RerunSucceeds'
  BY <1>2 DEF RerunSucceeds, SameOrders
<1>11. QED
  BY <1>5, <1>6, <1>7, <1>8, <1>9, <1>10 DEF LifecycleIInv

(* A step of a verification changes only what the run has found.           *)
LEMMA AsksAgain ==
    ASSUME LifecycleIInv, run.verifying, run.steps # <<>>, run' \in RunType, SameOrders,
           run'.steps \in {Tail(run.steps), <<>>}, run.failed => run'.failed,
           run.what = "uninstall" => ~run'.inCluster,
           UNCHANGED <<machine, out>>, TypeOK', RerunSucceeds'
    PROVE  LifecycleIInv'
<1>1. run \in RunType /\ run.what # "nothing"
  BY DEF LifecycleIInv, TypesInv, OnItsWay, Idle
<1>2. OnItsWay'
  <2>1. CASE run'.steps = <<>>
    <3>1. \A order : InOrder(run'.steps, order)
      BY <2>1 DEF InOrder
    <3>2. run' # Idle
      BY <1>1 DEF SameOrders, Idle
    <3>3. QED
      BY <1>1, <2>1, <3>1, <3>2 DEF OnItsWay, SameOrders, LifecycleIInv
  <2>2. CASE run'.steps = Tail(run.steps)
    BY <2>2, GoesOn DEF LifecycleIInv, SameOrders
  <2>3. QED
    BY <2>1, <2>2
<1>3. run'.verifying /\ run'.what = run.what
  BY DEF SameOrders
<1>4. Sound' /\ (Off <=> Off')
  BY DEF LifecycleIInv, Sound, Off, machine
<1>5. OutInv' /\ AddInv' /\ DrainInv' /\ TakeOffInv' /\ UninstallInv'
  BY <1>3, <1>4 DEF LifecycleIInv, OutInv, AddInv, DrainInv, TakeOffInv, UninstallInv, machine
<1>6. CleanInv'
  BY <1>3 DEF LifecycleIInv, CleanInv, SameOrders, machine
<1>7. QED
  BY <1>2, <1>4, <1>5, <1>6 DEF LifecycleIInv, TypesInv

(* The fields of a run that goes on or fails.                              *)
LEMMA Advances ==
    ASSUME LifecycleIInv, run.steps # <<>>, ~run.verifying,
           NEW found \in RunType, Onward(found),
           found = [run EXCEPT !.inCluster = found.inCluster, !.installed = found.installed,
                               !.owned = found.owned, !.faulted = found.faulted]
    PROVE  /\ OnItsWay' /\ Moves /\ run' \in RunType /\ SameOrders
           /\ ~run.failed /\ ~run'.failed
           /\ run'.inCluster = found.inCluster /\ run'.installed = found.installed
           /\ run'.owned = found.owned /\ run'.faulted = found.faulted
           /\ run.what \in {"add-node", "uninstall", "clean", "run-bundle"}
           /\ run.draining \in BOOLEAN
<1>1. run \in RunType /\ run.steps \in Seq(StepName)
  BY DEF LifecycleIInv, TypesInv, RunType
<1>2. Tail(run.steps) \in Seq(StepName)
  BY <1>1, HeadTailProperties
<1>3. ~run.failed
  BY DEF LifecycleIInv, OnItsWay
<1>4. found.steps = run.steps /\ found.failed = run.failed /\ found.what = run.what
      /\ found.draining = run.draining /\ found.approved = run.approved
      /\ found.able = run.able /\ found.verifying = run.verifying
      /\ found.keepGoing = run.keepGoing
  BY <1>1 DEF RunType
<1>5. run' = [found EXCEPT !.steps = Tail(run.steps)]
  BY <1>4 DEF Onward
<1>6. run' \in RunType
  BY <1>2, <1>5 DEF RunType
<1>7. SameOrders /\ run'.steps = Tail(run.steps) /\ run'.failed = run.failed
      /\ run'.inCluster = found.inCluster /\ run'.installed = found.installed
      /\ run'.owned = found.owned /\ run'.faulted = found.faulted
  BY <1>4, <1>5 DEF SameOrders, RunType
<1>8. OnItsWay' /\ Moves
  BY <1>3, <1>6, <1>7, GoesOn DEF LifecycleIInv
<1>9. run.what # "nothing"
  BY DEF LifecycleIInv, OnItsWay, Idle
<1>10. QED
  BY <1>1, <1>3, <1>6, <1>7, <1>8, <1>9 DEF RunType

(* One that just passes finds nothing.                                     *)
LEMMA JustPasses ==
    ASSUME LifecycleIInv, run.steps # <<>>, ~run.verifying, Passes
    PROVE  /\ OnItsWay' /\ Moves /\ run' \in RunType /\ SameOrders
           /\ ~run.failed /\ ~run'.failed
           /\ run'.inCluster = run.inCluster /\ run'.installed = run.installed
           /\ run'.owned = run.owned /\ run'.faulted = run.faulted
           /\ run.what \in {"add-node", "uninstall", "clean", "run-bundle"}
           /\ run.draining \in BOOLEAN
<1>1. run \in RunType
  BY DEF LifecycleIInv, TypesInv
<1>2. run = [run EXCEPT !.inCluster = run.inCluster, !.installed = run.installed,
                        !.owned = run.owned, !.faulted = run.faulted]
  BY <1>1 DEF RunType
<1>3. QED
  BY <1>1, <1>2, Advances DEF Passes

(* A failure that changed nothing, on a run that could fail or in one that *)
(* something went wrong with.                                              *)
LEMMA JustFails ==
    ASSUME LifecycleIInv, run.steps # <<>>, NEW wrong \in BOOLEAN, FailsWith(wrong),
           run.able => run.faulted \/ wrong, UNCHANGED <<machine, out>>,
           faults' \in 0..MaxFaults
    PROVE  LifecycleIInv'
<1>1. TypeOK'
  <2>1. run \in RunType
    BY DEF LifecycleIInv, TypesInv
  <2>2. run'.what = run.what /\ DOMAIN run' = DOMAIN run
    BY <2>1 DEF FailsWith, RunType
  <2>3. k3s' = k3s /\ kept' = kept /\ work' = work /\ storage' = storage /\ object' = object
    BY DEF machine
  <2>4. QED
    BY <2>2, <2>3 DEF LifecycleIInv, TypesInv, TypeOK
<1>2. run \in RunType /\ run.what # "nothing"
  BY DEF LifecycleIInv, TypesInv, OnItsWay, Idle
<1>3. PICK blamed \in BOOLEAN : blamed = (run.faulted \/ wrong)
  BY <1>2 DEF RunType
<1>4. Sound' /\ (Off <=> Off')
  BY DEF LifecycleIInv, Sound, Off, machine
<1>5. CASE ~run.verifying
  <2>1. run' = [run EXCEPT !.failed = TRUE, !.faulted = blamed, !.steps = <<>>]
    BY <1>3, <1>5 DEF FailsWith, LifecycleIInv, OnItsWay
  <2>2. run.able => blamed
    BY <1>3
  <2>3. out => Off' /\ object' = "absent"
    BY <1>4 DEF LifecycleIInv, OutInv, machine
  <2>4. QED
    BY <1>1, <1>2, <1>3, <1>4, <1>5, <2>1, <2>2, <2>3, Stops
<1>6. CASE run.verifying
  <2>1. PICK rest \in {Tail(run.steps), <<>>} :
           run' = [run EXCEPT !.failed = TRUE, !.faulted = blamed, !.steps = rest]
    BY <1>3 DEF FailsWith
  <2>2. run.steps \in Seq(StepName)
    BY <1>2 DEF RunType
  <2>3. rest \in Seq(StepName)
    <3>1. Tail(run.steps) \in Seq(StepName)
      BY <2>2, HeadTailProperties
    <3>2. <<>> \in Seq(StepName)
      OBVIOUS
    <3>3. QED
      BY <2>1, <3>1, <3>2
  <2>4. run' \in RunType
    BY <1>2, <2>1, <2>3 DEF RunType
  <2>5. SameOrders /\ run'.steps = rest /\ run'.failed /\ run'.inCluster = run.inCluster
        /\ run'.faulted = blamed
    BY <1>2, <2>1 DEF SameOrders, RunType
  <2>6. run.what = "uninstall" => ~run'.inCluster
    BY <1>6, <2>5 DEF LifecycleIInv, UninstallInv
  <2>7. RerunSucceeds'
    BY <1>3, <2>5 DEF RerunSucceeds, SameOrders
  <2>8. QED
    BY <1>1, <1>6, <2>1, <2>4, <2>5, <2>6, <2>7, AsksAgain
<1>7. QED
  BY <1>5, <1>6

-----------------------------------------------------------------------------
(* Each step                                                               *)

(* A step of a verification that passes has changed nothing but what the   *)
(* run has found, and an uninstall finds that its node isn't there.        *)
LEMMA PassesAgain ==
    ASSUME LifecycleIInv, run.verifying, run.steps # <<>>,
           NEW found \in RunType, Onward(found),
           found = [run EXCEPT !.inCluster = found.inCluster, !.installed = found.installed,
                               !.owned = found.owned, !.faulted = found.faulted],
           run.what = "uninstall" => ~found.inCluster, run.faulted => found.faulted,
           UNCHANGED <<machine, out>>, TypeOK'
    PROVE  LifecycleIInv'
<1>1. run \in RunType /\ run.steps \in Seq(StepName)
  BY DEF LifecycleIInv, TypesInv, RunType
<1>2. Tail(run.steps) \in Seq(StepName)
  BY <1>1, HeadTailProperties
<1>3. found.steps = run.steps /\ found.failed = run.failed /\ found.what = run.what
      /\ found.draining = run.draining /\ found.approved = run.approved
      /\ found.able = run.able /\ found.verifying = run.verifying
      /\ found.keepGoing = run.keepGoing
  BY <1>1 DEF RunType
<1>4. run' = [found EXCEPT !.steps = Tail(run.steps)]
  BY <1>3 DEF Onward
<1>5. run' \in RunType
  BY <1>2, <1>4 DEF RunType
<1>6. SameOrders /\ run'.steps = Tail(run.steps) /\ run'.failed = run.failed
      /\ run'.inCluster = found.inCluster /\ run'.faulted = found.faulted
  BY <1>3, <1>4 DEF SameOrders, RunType
<1>7. RerunSucceeds'
  BY <1>6 DEF LifecycleIInv, RerunSucceeds, SameOrders
<1>8. QED
  BY <1>5, <1>6, <1>7, AsksAgain

(* Also one that finds nothing.                                            *)
LEMMA JustPassesAgain ==
    ASSUME LifecycleIInv, run.verifying, run.steps # <<>>, Passes,
           UNCHANGED <<machine, out>>, TypeOK'
    PROVE  LifecycleIInv'
<1>1. run \in RunType
  BY DEF LifecycleIInv, TypesInv
<1>2. run = [run EXCEPT !.inCluster = run.inCluster, !.installed = run.installed,
                        !.owned = run.owned, !.faulted = run.faulted]
  BY <1>1 DEF RunType
<1>3. run.what = "uninstall" => ~run.inCluster
  BY DEF LifecycleIInv, UninstallInv
<1>4. QED
  BY <1>1, <1>2, <1>3, PassesAgain DEF Passes

(* A step with nothing to do.                                              *)
LEMMA PassOverKeeps ==
    ASSUME LifecycleIInv, PassOver
    PROVE  LifecycleIInv'
<1>1. /\ run.steps # <<>> /\ Passes /\ UNCHANGED <<machine, out, faults>>
      /\ NothingToDo(Here) \/ run.verifying
  BY DEF PassOver, Here, Place
<1>2. TypeOK' /\ Sound' /\ (Off <=> Off') /\ (Drained <=> Drained') /\ (Present <=> Present')
  <2>1. k3s' = k3s /\ kept' = kept /\ work' = work /\ storage' = storage /\ object' = object
        /\ out' = out /\ faults' = faults
    BY <1>1 DEF machine
  <2>2. run'.what = run.what /\ DOMAIN run' = DOMAIN run
    <3>1. run \in RunType
      BY DEF LifecycleIInv, TypesInv
    <3>2. QED
      BY <1>1, <3>1 DEF Passes, Onward, RunType
  <2>3. QED
    BY <2>1, <2>2 DEF LifecycleIInv, TypesInv, TypeOK, Sound, Off, Drained, Present
<1>3. CASE run.verifying
  BY <1>1, <1>2, <1>3, JustPassesAgain
<1>4. CASE ~run.verifying
  <2>1. /\ OnItsWay' /\ Moves /\ run' \in RunType /\ SameOrders
        /\ ~run.failed /\ ~run'.failed
        /\ run'.inCluster = run.inCluster /\ run'.installed = run.installed
        /\ run'.owned = run.owned /\ run'.faulted = run.faulted
        /\ run.what \in {"add-node", "uninstall", "clean", "run-bundle"}
        /\ run.draining \in BOOLEAN
    BY <1>1, <1>4, JustPasses
  <2>2. /\ k3s' = k3s /\ kept' = kept /\ work' = work /\ storage' = storage
        /\ object' = object /\ out' = out
    BY <1>1 DEF machine
  <2>3. \/ Here \in {"cordon-node", "drain-node", "verify-node-drained"} /\ ~run.inCluster
        \/ Here \in {"stop-k3s", "remove-k3s"} /\ ~run.installed
        \/ Here = "remove-volume-groups" /\ ~(run.owned /\ run.approved)
    BY <1>1, <1>4 DEF NothingToDo
  <2>4. CASE Here \in {"cordon-node", "drain-node", "verify-node-drained"} /\ ~run.inCluster
    <3>1. /\ Here = "cordon-node" => Here' = "drain-node"
          /\ Here = "drain-node" => Here' = "verify-node-drained"
          /\ Here = "verify-node-drained" => Here' \in {"check-k3s-present", "end"}
          /\ Here' = "end" => run.what = "run-bundle"
          /\ run.what \in {"run-bundle", "uninstall"}
      BY <1>1, <2>1, <2>4, WhereTo, WhoseStep DEF LifecycleIInv, DrainSteps
    <3>2. QED
      BY <1>2, <1>4, <2>1, <2>2, <2>4, <3>1
         DEF LifecycleIInv, TypesInv, OutInv, AddInv, DrainInv, TakeOffInv, UninstallInv,
             CleanInv, RerunSucceeds, SameOrders, StorageSteps
  <2>5. CASE Here \in {"stop-k3s", "remove-k3s"} /\ ~run.installed
    <3>1. /\ Here = "stop-k3s" => Here' = "remove-k3s"
          /\ Here = "remove-k3s" => Here' = "verify-k3s-removed"
          /\ run.what \in {"run-bundle", "uninstall"}
      BY <1>1, <2>1, <2>5, WhereTo, WhoseStep DEF LifecycleIInv, TakeOffSteps
    <3>2. Here = "stop-k3s" => ~Present
      BY <1>4, <2>5 DEF LifecycleIInv, TakeOffInv
    <3>3. Here = "remove-k3s" => ~Present /\ Off
      BY <1>4, <2>5 DEF LifecycleIInv, TakeOffInv, Off, Present
    <3>4. ~Present => ~k3s.active /\ ~work.containers /\ ~work.mounted
      BY DEF LifecycleIInv, Sound, Present
    <3>5. QED
      BY <1>2, <1>4, <2>1, <2>2, <2>5, <3>1, <3>2, <3>3, <3>4
         DEF LifecycleIInv, TypesInv, OutInv, AddInv, DrainInv, TakeOffInv, UninstallInv,
             CleanInv, RerunSucceeds, SameOrders, StorageSteps
  <2>6. CASE Here = "remove-volume-groups" /\ ~(run.owned /\ run.approved)
    <3>1. /\ Here' = "verify-volume-groups-removed"
          /\ run.what = "run-bundle" \/ (run.what = "clean" /\ (run.able => run.approved))
      BY <1>1, <2>1, <2>6, WhereToClean, WhoseStep DEF LifecycleIInv, StorageSteps
    <3>2. run.owned = storage.group
      BY <1>4, <2>6 DEF LifecycleIInv, CleanInv
    <3>3. QED
      BY <1>2, <1>4, <2>1, <2>2, <2>6, <3>1, <3>2
         DEF LifecycleIInv, TypesInv, OutInv, AddInv, DrainInv, TakeOffInv, UninstallInv,
             CleanInv, RerunSucceeds, SameOrders, StorageSteps
  <2>7. QED
    BY <2>3, <2>4, <2>5, <2>6
<1>5. QED
  BY <1>3, <1>4

(* A step that only looks, passing for a reason it was to look for.        *)
LEMMA LooksOn ==
    ASSUME LifecycleIInv, run.steps # <<>>, Passes, UNCHANGED <<machine, out, faults>>,
           ~run.verifying =>
              /\ Here \in {"check-cluster-online", "verify-node-drained", "verify-k3s-removed",
                           "verify-node-removed", "wait-for-k3s", "verify-k3s",
                           "check-cluster-access", "verify-node-ready"} \union CleanSteps
                        \union {"check-storage-approved", "verify-volume-groups-removed"}
              /\ Here # "remove-k3s-state"
              /\ Here \in {"wait-for-k3s", "verify-k3s"} => k3s.active
              /\ Here = "verify-node-removed" => object = "absent"
              /\ Here = "check-ready-to-clean" => ReadyToClean
              /\ Here = "verify-clean" => ~kept.dirs
              /\ Here = "verify-volume-groups-removed" => ~storage.group
    PROVE  LifecycleIInv'
<1>1. /\ k3s' = k3s /\ kept' = kept /\ work' = work /\ storage' = storage
      /\ object' = object /\ out' = out /\ faults' = faults
  BY DEF machine
<1>2. TypeOK' /\ Sound' /\ (Off <=> Off') /\ (Drained <=> Drained') /\ (Present <=> Present')
  <2>1. run'.what = run.what /\ DOMAIN run' = DOMAIN run
    <3>1. run \in RunType
      BY DEF LifecycleIInv, TypesInv
    <3>2. QED
      BY <3>1 DEF Passes, Onward, RunType
  <2>2. QED
    BY <1>1, <2>1 DEF LifecycleIInv, TypesInv, TypeOK, Sound, Off, Drained, Present
<1>3. CASE run.verifying
  BY <1>2, <1>3, JustPassesAgain
<1>4. CASE ~run.verifying
  <2>1. /\ OnItsWay' /\ Moves /\ run' \in RunType /\ SameOrders
        /\ ~run.failed /\ ~run'.failed
        /\ run'.inCluster = run.inCluster /\ run'.installed = run.installed
        /\ run'.owned = run.owned /\ run'.faulted = run.faulted
        /\ run.what \in {"add-node", "uninstall", "clean", "run-bundle"}
        /\ run.draining \in BOOLEAN
    BY <1>4, JustPasses
  <2>2. CASE Here = "check-cluster-online"
    <3>1. \/ run.what = "add-node" /\ Here' = "create-volume-groups"
          \/ run.what = "uninstall" /\ run.draining /\ Here' = "check-node-in-cluster"
          \/ run.what = "uninstall" /\ ~run.draining /\ Here' = "check-k3s-present"
      BY <2>1, <2>2, WhereTo
    <3>2. QED
      BY <1>1, <1>2, <1>4, <2>1, <2>2, <3>1
         DEF LifecycleIInv, TypesInv, OutInv, AddInv, DrainInv, TakeOffInv, UninstallInv,
             CleanInv, RerunSucceeds, SameOrders, StorageSteps
  <2>3. CASE Here \in {"wait-for-k3s", "verify-k3s", "check-cluster-access",
                       "verify-node-ready"}
    <3>1. /\ Here' \in {"verify-k3s", "check-cluster-access", "verify-node-ready", "end"}
          /\ run.what = "add-node"
      BY <2>1, <2>3, WhereTo, WhoseStep DEF LifecycleIInv, AddSteps
    <3>2. k3s.active
      BY <2>1, <2>3, <3>1 DEF LifecycleIInv, AddInv
    <3>3. QED
      BY <1>1, <1>2, <1>4, <2>1, <2>3, <3>1, <3>2
         DEF LifecycleIInv, TypesInv, OutInv, AddInv, DrainInv, TakeOffInv, UninstallInv,
             CleanInv, RerunSucceeds, SameOrders, StorageSteps
  <2>4. CASE Here = "verify-node-drained"
    <3>1. \/ run.what = "run-bundle" /\ Here' = "end"
          \/ run.what = "uninstall" /\ Here' = "check-k3s-present"
      BY <2>1, <2>4, WhereTo, WhoseStep DEF LifecycleIInv, DrainSteps
    <3>2. QED
      BY <1>1, <1>2, <1>4, <2>1, <2>4, <3>1
         DEF LifecycleIInv, TypesInv, OutInv, AddInv, DrainInv, TakeOffInv, UninstallInv,
             CleanInv, RerunSucceeds, SameOrders, StorageSteps
  <2>5. CASE Here \in {"verify-k3s-removed", "verify-node-removed"}
    <3>1. /\ \/ run.what = "run-bundle" /\ Here' = "end"
             \/ run.what = "uninstall" /\ Here = "verify-k3s-removed" /\ Here' = "remove-node"
             \/ Here = "verify-node-removed" /\ Here' = "end" /\ object = "absent"
          /\ run.what \in {"run-bundle", "uninstall"}
      BY <1>4, <2>1, <2>5, WhereTo, WhoseStep DEF LifecycleIInv, TakeOffSteps
    <3>2. run.what = "uninstall" => Off
      BY <1>4, <2>5 DEF LifecycleIInv, TakeOffInv, UninstallInv
    <3>3. QED
      BY <1>1, <1>2, <1>4, <2>1, <2>5, <3>1, <3>2
         DEF LifecycleIInv, TypesInv, OutInv, AddInv, DrainInv, TakeOffInv, UninstallInv,
             CleanInv, RerunSucceeds, SameOrders, StorageSteps
  <2>6. CASE Here \in {"check-ready-to-clean", "verify-clean"}
    <3>1. /\ \/ Here = "check-ready-to-clean" /\ Here' = "remove-k3s-state"
             \/ Here = "verify-clean" /\ Here' = "read-volume-groups"
             \/ Here = "verify-clean" /\ Here' = "end" /\ ~run.approved
          /\ run.what = "clean"
      BY <2>1, <2>6, WhereToClean, WhoseStep DEF LifecycleIInv, CleanSteps
    <3>2. QED
      BY <1>1, <1>2, <1>4, <2>1, <2>6, <3>1
         DEF LifecycleIInv, TypesInv, OutInv, AddInv, DrainInv, TakeOffInv, UninstallInv,
             CleanInv, RerunSucceeds, SameOrders, StorageSteps, ReadyToClean
  <2>7. CASE Here \in {"check-storage-approved", "verify-volume-groups-removed"}
    <3>1. /\ \/ Here = "check-storage-approved" /\ Here' = "remove-volume-groups"
             \/ Here = "verify-volume-groups-removed" /\ Here' = "end"
          /\ run.what \in {"run-bundle", "clean"}
      BY <2>1, <2>7, WhereToClean, WhoseStep DEF LifecycleIInv, StorageSteps
    <3>2. QED
      BY <1>1, <1>2, <1>4, <2>1, <2>7, <3>1
         DEF LifecycleIInv, TypesInv, OutInv, AddInv, DrainInv, TakeOffInv, UninstallInv,
             CleanInv, RerunSucceeds, SameOrders, StorageSteps
  <2>8. QED
    BY <1>4, <2>2, <2>3, <2>4, <2>5, <2>6, <2>7 DEF CleanSteps
<1>5. QED
  BY <1>3, <1>4

(* A look that goes against a run finds what was in its way from the       *)
(* start, or is of a run nothing is promised of.                           *)
LEMMA LooksFail ==
    ASSUME LifecycleIInv, run.steps # <<>>, FailsWith(FALSE), UNCHANGED <<machine, out, faults>>,
           run.able /\ ~run.faulted => 
              /\ Here \in {"wait-for-k3s", "verify-k3s", "check-cluster-access",
                           "verify-node-ready"} => ~k3s.active
              /\ Here = "verify-node-drained" => run.inCluster /\ work.bound
              /\ Here = "verify-k3s-removed" => ~Off
              /\ Here = "verify-node-removed" => object # "absent"
              /\ Here = "check-ready-to-clean" => ~ReadyToClean
              /\ Here = "verify-clean" => kept.dirs
              /\ Here = "check-storage-approved" => run.owned /\ ~run.approved
              /\ Here = "verify-volume-groups-removed" => storage.group
              /\ Here \in {"verify-node-drained", "verify-k3s-removed",
                           "verify-node-removed", "wait-for-k3s", "verify-k3s",
                           "check-cluster-access", "verify-node-ready", "check-ready-to-clean",
                           "verify-clean", "check-storage-approved",
                           "verify-volume-groups-removed"}
    PROVE  LifecycleIInv'
<1>1. TypesInv /\ OnItsWay /\ Sound /\ OutInv /\ RerunSucceeds
  BY DEF LifecycleIInv
<1>2. ~(run.able /\ ~run.faulted)
  <2>1. SUFFICES ASSUME run.able, ~run.faulted
                 PROVE  FALSE
    OBVIOUS
  <2>2. ~run.failed /\ run.what # "run-bundle"
    BY <1>1, <2>1 DEF RerunSucceeds, OnItsWay
  <2>3. CASE Here \in {"wait-for-k3s", "verify-k3s", "check-cluster-access",
                       "verify-node-ready"}
    <3>1. run.what = "add-node"
      BY <1>1, <2>3, WhoseStep DEF AddSteps
    <3>2. QED
      BY <2>1, <2>2, <2>3, <3>1 DEF LifecycleIInv, AddInv
  <2>4. CASE Here = "verify-node-drained"
    <3>1. run.what = "uninstall"
      BY <1>1, <2>2, <2>4, WhoseStep DEF DrainSteps
    <3>2. QED
      BY <2>1, <2>4, <3>1 DEF LifecycleIInv, DrainInv, UninstallInv, Drained
  <2>5. CASE Here \in {"verify-k3s-removed", "verify-node-removed"}
    <3>1. run.what = "uninstall"
      BY <1>1, <2>2, <2>5, WhoseStep DEF TakeOffSteps
    <3>2. QED
      BY <2>1, <2>5, <3>1 DEF LifecycleIInv, TakeOffInv, UninstallInv
  <2>6. CASE Here \in {"check-ready-to-clean", "verify-clean"}
    <3>1. run.what = "clean"
      BY <1>1, <2>6, WhoseStep DEF CleanSteps
    <3>2. out /\ Off
      BY <1>1, <2>1, <3>1 DEF LifecycleIInv, CleanInv, OutInv
    <3>3. QED
      BY <2>1, <2>6, <3>1, <3>2 DEF LifecycleIInv, CleanInv, ReadyToClean, Off
  <2>7. CASE Here \in {"check-storage-approved", "verify-volume-groups-removed"}
    <3>1. run.what = "clean" /\ run.approved
      BY <1>1, <2>1, <2>2, <2>7, WhoseStep DEF StorageSteps
    <3>2. QED
      BY <2>1, <2>7, <3>1 DEF LifecycleIInv, CleanInv
  <2>8. QED
    BY <2>1, <2>3, <2>4, <2>5, <2>6, <2>7
<1>3. run.able => run.faulted \/ FALSE
  BY <1>2
<1>4. faults' \in 0..MaxFaults /\ UNCHANGED <<machine, out>>
  BY <1>1 DEF TypesInv, TypeOK
<1>5. QED
  BY <1>3, <1>4, JustFails

(* The steps that only look.                                               *)
LEMMA LookKeeps ==
    ASSUME LifecycleIInv,
           \/ CheckClusterOnline
           \/ WaitForK3s \/ VerifyK3s \/ CheckClusterAccess \/ VerifyNodeReady
           \/ Checks("verify-node-drained", ~work.bound)
           \/ VerifyK3sRemoved
           \/ Checks("verify-node-removed", object = "absent")
           \/ CheckReadyToClean \/ VerifyClean
           \/ CheckStorageApproved \/ VerifyVolumeGroupsRemoved
    PROVE  LifecycleIInv'
<1>1. CASE CheckClusterOnline
  BY <1>1, LooksOn DEF CheckClusterOnline, Checks, Doing, At, Here, Place
<1>2. CASE WaitForK3s \/ VerifyK3s \/ CheckClusterAccess \/ VerifyNodeReady
  <2>1. /\ run.steps # <<>> /\ UNCHANGED <<machine, out, faults>>
        /\ Here \in {"wait-for-k3s", "verify-k3s", "check-cluster-access",
                     "verify-node-ready"}
        /\ \/ Passes /\ (Here \in {"wait-for-k3s", "verify-k3s"} => k3s.active)
           \/ FailsWith(FALSE) /\ ~k3s.active
    BY <1>2 DEF WaitForK3s, VerifyK3s, CheckClusterAccess, VerifyNodeReady, WaitsFor, Doing, At,
                Here, Place
  <2>2. CASE FailsWith(FALSE) /\ ~k3s.active
    BY <2>1, <2>2, LooksFail
  <2>3. CASE Passes /\ (Here \in {"wait-for-k3s", "verify-k3s"} => k3s.active)
    BY <2>1, <2>3, LooksOn
  <2>4. QED
    BY <2>1, <2>2, <2>3
<1>3. CASE Checks("verify-node-drained", ~work.bound)
  <2>1. /\ run.steps # <<>> /\ UNCHANGED <<machine, out, faults>>
        /\ Here = "verify-node-drained" /\ run.inCluster
        /\ Passes \/ (work.bound /\ FailsWith(FALSE))
    BY <1>3 DEF Checks, Doing, At, Here, Place, NothingToDo
  <2>2. QED
    BY <2>1, LooksOn, LooksFail
<1>4. CASE VerifyK3sRemoved
  <2>1. /\ run.steps # <<>> /\ UNCHANGED <<machine, out, faults>>
        /\ Here = "verify-k3s-removed"
        /\ Passes \/ (~Off /\ FailsWith(FALSE))
    BY <1>4 DEF VerifyK3sRemoved, Checks, Doing, At, Here, Place, Off
  <2>2. QED
    BY <2>1, LooksOn, LooksFail
<1>5. CASE Checks("verify-node-removed", object = "absent")
  <2>1. /\ run.steps # <<>> /\ UNCHANGED <<machine, out, faults>>
        /\ Here = "verify-node-removed"
        /\ \/ object = "absent" /\ Passes
           \/ object # "absent" /\ FailsWith(FALSE)
    BY <1>5 DEF Checks, Doing, At, Here, Place
  <2>2. QED
    BY <2>1, LooksOn, LooksFail
<1>6. CASE CheckReadyToClean \/ VerifyClean
  <2>1. /\ run.steps # <<>> /\ UNCHANGED <<machine, out, faults>>
        /\ \/ Here = "check-ready-to-clean" /\ ReadyToClean /\ Passes
           \/ Here = "check-ready-to-clean" /\ ~ReadyToClean /\ FailsWith(FALSE)
           \/ Here = "verify-clean" /\ ~kept.dirs /\ Passes
           \/ Here = "verify-clean" /\ kept.dirs /\ FailsWith(FALSE)
    <3>1. CASE CheckReadyToClean
      BY <3>1 DEF CheckReadyToClean, Checks, Doing, At, Here, Place
    <3>2. CASE VerifyClean
      BY <3>2 DEF VerifyClean, Checks, Doing, At, Here, Place
    <3>3. QED
      BY <1>6, <3>1, <3>2
  <2>2. QED
    BY <2>1, LooksOn, LooksFail DEF CleanSteps
<1>7. CASE CheckStorageApproved \/ VerifyVolumeGroupsRemoved
  <2>1. /\ run.steps # <<>> /\ UNCHANGED <<machine, out, faults>>
        /\ \/ Here = "check-storage-approved" /\ Passes
           \/ Here = "check-storage-approved" /\ run.owned /\ ~run.approved /\ FailsWith(FALSE)
           \/ Here = "verify-volume-groups-removed" /\ ~storage.group /\ Passes
           \/ Here = "verify-volume-groups-removed" /\ storage.group /\ FailsWith(FALSE)
    <3>1. CASE CheckStorageApproved
      BY <3>1 DEF CheckStorageApproved, Checks, Doing, At, Here, Place
    <3>2. CASE VerifyVolumeGroupsRemoved
      BY <3>2 DEF VerifyVolumeGroupsRemoved, Checks, Doing, At, Here, Place
    <3>3. QED
      BY <1>7, <3>1, <3>2
  <2>2. QED
    BY <2>1, LooksOn, LooksFail
<1>8. QED
  BY <1>1, <1>2, <1>3, <1>4, <1>5, <1>6, <1>7

(* What a run finds out changes nothing else.                              *)
LEMMA OnlyFinds ==
    ASSUME LifecycleIInv, NEW found \in RunType, found.what = run.what, Onward(found),
           UNCHANGED <<machine, out>>, faults' \in 0..MaxFaults
    PROVE  /\ TypeOK' /\ Sound' /\ (Off <=> Off') /\ (Drained <=> Drained')
           /\ (Present <=> Present')
           /\ k3s' = k3s /\ kept' = kept /\ work' = work /\ storage' = storage
           /\ object' = object /\ out' = out
<1>1. run'.what = run.what /\ DOMAIN run' = DOMAIN Idle
  BY DEF Onward, RunType, Idle
<1>2. QED
  BY <1>1 DEF machine, LifecycleIInv, TypesInv, TypeOK, Sound, Off, Drained, Present

(* The steps that find something out, and those that were told wrong.      *)
LEMMA FindKeeps ==
    ASSUME LifecycleIInv,
           \/ CheckNodeInCluster \/ CheckK3sPresent \/ ReadVolumeGroups
           \/ /\ Doing("verify-node-drained") \/ Doing("verify-node-removed")
              /\ Fault
              /\ Onward([run EXCEPT !.faulted = TRUE])
              /\ UNCHANGED <<machine, out>>
    PROVE  LifecycleIInv'
<1>1. run \in RunType /\ TypesInv /\ OnItsWay
  BY DEF LifecycleIInv, TypesInv
<1>2. /\ run.steps # <<>> /\ UNCHANGED <<machine, out>> /\ faults' \in 0..MaxFaults
      /\ Here \in {"check-node-in-cluster", "check-k3s-present", "read-volume-groups",
                   "verify-node-drained", "verify-node-removed"}
  <2>1. faults \in 0..MaxFaults /\ MaxFaults \in Nat
    BY <1>1, ConstantsAssumption DEF TypesInv, TypeOK
  <2>2. faults' \in 0..MaxFaults
    <3>1. faults' = faults \/ Fault
      BY DEF CheckNodeInCluster, CheckK3sPresent, ReadVolumeGroups
    <3>2. QED
      BY <2>1, <3>1 DEF Fault
  <2>3. QED
    BY <2>2 DEF CheckNodeInCluster, CheckK3sPresent, ReadVolumeGroups, Doing, At, Here, Place
<1>3. PICK found \in RunType :
         /\ Onward(found)
         /\ found = [run EXCEPT !.inCluster = found.inCluster, !.installed = found.installed,
                                !.owned = found.owned, !.faulted = found.faulted]
         /\ run.faulted => found.faulted
         /\ run.what = "uninstall" /\ run.verifying => ~found.inCluster
         /\ Here = "check-node-in-cluster" /\ found.inCluster => object # "absent"
         /\ Here # "check-node-in-cluster" => found.inCluster = run.inCluster
         /\ Here = "check-k3s-present" => found.installed = Present
         /\ Here = "read-volume-groups" => found.owned = storage.group
         /\ Here = "verify-node-removed" => found.faulted
  <2>1. CASE CheckNodeInCluster
    <3>1. Here = "check-node-in-cluster"
      BY <2>1 DEF CheckNodeInCluster, Doing, At, Here, Place
    <3>2. run.verifying /\ run.what = "uninstall" => object = "absent"
      BY DEF LifecycleIInv, UninstallInv
    <3>3. PICK there, wrong \in BOOLEAN :
             /\ Onward([run EXCEPT !.inCluster = there, !.faulted = wrong])
             /\ there => object # "absent"
             /\ run.faulted => wrong
      <4>1. CASE Onward([run EXCEPT !.inCluster = (object # "absent")])
        <5>1. run.faulted \in BOOLEAN
          BY <1>1 DEF RunType
        <5>2. PICK there \in BOOLEAN : there = (object # "absent")
          OBVIOUS
        <5>3. [run EXCEPT !.inCluster = there] =
                 [run EXCEPT !.inCluster = there, !.faulted = run.faulted]
          BY <1>1 DEF RunType
        <5>4. QED
          BY <4>1, <5>1, <5>2, <5>3
      <4>2. CASE Onward([run EXCEPT !.inCluster = FALSE, !.faulted = TRUE])
        BY <4>2
      <4>3. QED
        BY <2>1, <4>1, <4>2 DEF CheckNodeInCluster
    <3>4. PICK found \in RunType : found = [run EXCEPT !.inCluster = there, !.faulted = wrong]
      BY <1>1 DEF RunType
    <3>5. /\ found.inCluster = there /\ found.faulted = wrong
          /\ found.installed = run.installed /\ found.owned = run.owned
      BY <1>1, <3>4 DEF RunType
    <3>6. found = [run EXCEPT !.inCluster = found.inCluster, !.installed = found.installed,
                              !.owned = found.owned, !.faulted = found.faulted]
      BY <1>1, <3>4, <3>5 DEF RunType
    <3>7. QED
      BY <3>1, <3>2, <3>3, <3>4, <3>5, <3>6
  <2>2. CASE CheckK3sPresent
    <3>1. Here = "check-k3s-present"
      BY <2>2 DEF CheckK3sPresent, Doing, At, Here, Place
    <3>2. PICK found : found = [run EXCEPT !.installed = Present]
      OBVIOUS
    <3>3. Present \in BOOLEAN
      BY <1>1 DEF TypesInv, TypeOK, Present
    <3>4. found \in RunType
      BY <1>1, <3>2, <3>3 DEF RunType
    <3>5. /\ found.inCluster = run.inCluster /\ found.faulted = run.faulted
          /\ found.installed = Present /\ found.owned = run.owned
      BY <1>1, <3>2 DEF RunType
    <3>6. found = [run EXCEPT !.inCluster = found.inCluster, !.installed = found.installed,
                              !.owned = found.owned, !.faulted = found.faulted]
      BY <1>1, <3>2, <3>5 DEF RunType
    <3>7. run.what = "uninstall" /\ run.verifying => ~run.inCluster
      BY DEF LifecycleIInv, UninstallInv
    <3>8. QED
      BY <2>2, <3>1, <3>2, <3>4, <3>5, <3>6, <3>7 DEF CheckK3sPresent
  <2>3. CASE ReadVolumeGroups
    <3>1. Here = "read-volume-groups"
      BY <2>3 DEF ReadVolumeGroups, Doing, At, Here, Place
    <3>2. PICK found : found = [run EXCEPT !.owned = storage.group]
      OBVIOUS
    <3>3. storage.group \in BOOLEAN
      BY <1>1 DEF TypesInv, TypeOK
    <3>4. found \in RunType
      BY <1>1, <3>2, <3>3 DEF RunType
    <3>5. /\ found.inCluster = run.inCluster /\ found.faulted = run.faulted
          /\ found.installed = run.installed /\ found.owned = storage.group
      BY <1>1, <3>2 DEF RunType
    <3>6. found = [run EXCEPT !.inCluster = found.inCluster, !.installed = found.installed,
                              !.owned = found.owned, !.faulted = found.faulted]
      BY <1>1, <3>2, <3>5 DEF RunType
    <3>7. run.what = "uninstall" /\ run.verifying => ~run.inCluster
      BY DEF LifecycleIInv, UninstallInv
    <3>8. QED
      BY <2>3, <3>1, <3>2, <3>4, <3>5, <3>6, <3>7 DEF ReadVolumeGroups
  <2>4. CASE /\ Doing("verify-node-drained") \/ Doing("verify-node-removed")
             /\ Onward([run EXCEPT !.faulted = TRUE])
    <3>1. Here \in {"verify-node-drained", "verify-node-removed"}
      BY <2>4 DEF Doing, At, Here, Place
    <3>2. PICK found : found = [run EXCEPT !.faulted = TRUE]
      OBVIOUS
    <3>3. found \in RunType
      BY <1>1, <3>2 DEF RunType
    <3>4. /\ found.inCluster = run.inCluster /\ found.faulted
          /\ found.installed = run.installed /\ found.owned = run.owned
      BY <1>1, <3>2 DEF RunType
    <3>5. found = [run EXCEPT !.inCluster = found.inCluster, !.installed = found.installed,
                              !.owned = found.owned, !.faulted = found.faulted]
      BY <1>1, <3>2, <3>4 DEF RunType
    <3>6. run.what = "uninstall" /\ run.verifying => ~run.inCluster
      BY DEF LifecycleIInv, UninstallInv
    <3>7. QED
      BY <2>4, <3>1, <3>2, <3>3, <3>4, <3>5, <3>6
  <2>5. QED
    BY <2>1, <2>2, <2>3, <2>4
<1>4. found.what = run.what
  BY <1>1, <1>3 DEF RunType
<1>5. /\ TypeOK' /\ Sound' /\ (Off <=> Off') /\ (Drained <=> Drained')
      /\ (Present <=> Present')
      /\ k3s' = k3s /\ kept' = kept /\ work' = work /\ storage' = storage
      /\ object' = object /\ out' = out
  BY <1>2, <1>3, <1>4, OnlyFinds
<1>6. CASE run.verifying
  BY <1>2, <1>3, <1>5, <1>6, PassesAgain
<1>7. CASE ~run.verifying
  <2>1. /\ OnItsWay' /\ Moves /\ run' \in RunType /\ SameOrders
        /\ ~run.failed /\ ~run'.failed
        /\ run'.inCluster = found.inCluster /\ run'.installed = found.installed
        /\ run'.owned = found.owned /\ run'.faulted = found.faulted
        /\ run.what \in {"add-node", "uninstall", "clean", "run-bundle"}
        /\ run.draining \in BOOLEAN
    BY <1>2, <1>3, <1>7, Advances
  <2>2. CASE Here = "check-node-in-cluster"
    <3>1. Here' = "cordon-node" /\ run.what \in {"uninstall", "run-bundle"}
      BY <1>1, <1>2, <2>1, <2>2, WhereTo, WhoseStep DEF DrainSteps
    <3>2. QED
      BY <1>3, <1>5, <1>7, <2>1, <2>2, <3>1
         DEF LifecycleIInv, TypesInv, OutInv, AddInv, DrainInv, TakeOffInv, UninstallInv,
             CleanInv, RerunSucceeds, SameOrders, StorageSteps
  <2>3. CASE Here = "check-k3s-present"
    <3>1. Here' = "stop-k3s" /\ run.what \in {"uninstall", "run-bundle"}
      BY <1>1, <1>2, <2>1, <2>3, WhereTo, WhoseStep DEF TakeOffSteps
    <3>2. run'.installed = Present'
      BY <1>3, <1>5, <2>1, <2>3 DEF Present
    <3>3. QED
      BY <1>3, <1>5, <1>7, <2>1, <2>3, <3>1, <3>2
         DEF LifecycleIInv, TypesInv, OutInv, AddInv, DrainInv, TakeOffInv, UninstallInv,
             CleanInv, RerunSucceeds, SameOrders, StorageSteps
  <2>4. CASE Here = "read-volume-groups"
    <3>1. Here' = "check-storage-approved" /\ run.what \in {"clean", "run-bundle"}
      BY <1>1, <1>2, <2>1, <2>4, WhereToClean, WhoseStep DEF StorageSteps
    <3>2. QED
      BY <1>3, <1>5, <1>7, <2>1, <2>4, <3>1
         DEF LifecycleIInv, TypesInv, OutInv, AddInv, DrainInv, TakeOffInv, UninstallInv,
             CleanInv, RerunSucceeds, SameOrders, StorageSteps
  <2>5. CASE Here = "verify-node-drained"
    <3>1. \/ run.what = "run-bundle" /\ Here' = "end"
          \/ run.what = "uninstall" /\ Here' = "check-k3s-present"
      BY <1>1, <1>2, <2>1, <2>5, WhereTo, WhoseStep DEF DrainSteps
    <3>2. QED
      BY <1>3, <1>5, <1>7, <2>1, <2>5, <3>1
         DEF LifecycleIInv, TypesInv, OutInv, AddInv, DrainInv, TakeOffInv, UninstallInv,
             CleanInv, RerunSucceeds, SameOrders, StorageSteps
  <2>6. CASE Here = "verify-node-removed"
    <3>1. Here' = "end" /\ run.what \in {"uninstall", "run-bundle"}
      BY <1>1, <1>2, <2>1, <2>6, WhereTo, WhoseStep DEF TakeOffSteps
    <3>2. QED
      BY <1>3, <1>5, <1>7, <2>1, <2>6, <3>1
         DEF LifecycleIInv, TypesInv, OutInv, AddInv, DrainInv, TakeOffInv, UninstallInv,
             CleanInv, RerunSucceeds, SameOrders, StorageSteps
  <2>7. QED
    BY <1>2, <2>2, <2>3, <2>4, <2>5, <2>6
<1>8. QED
  BY <1>6, <1>7

-----------------------------------------------------------------------------
(* The steps that change the machine                                       *)

MachineTypes ==
    /\ k3s \in [unit : BOOLEAN, enabled : BOOLEAN, binary : BOOLEAN, killall : BOOLEAN,
                active : BOOLEAN, connected : BOOLEAN]
    /\ kept \in [dirs : BOOLEAN, credentials : BOOLEAN]
    /\ work \in [bound : BOOLEAN, containers : BOOLEAN, mounted : BOOLEAN]
    /\ storage \in [group : BOOLEAN, data : BOOLEAN]
    /\ storage.data => storage.group
    /\ object \in {"absent", "schedulable", "cordoned"}
    /\ faults \in 0..MaxFaults
    /\ out \in BOOLEAN

(* The types are those of the machine and of the run.                      *)
LEMMA TypesTogether == (MachineTypes /\ run \in RunType) <=> TypesInv
BY DEF TypesInv, TypeOK, MachineTypes, RunType, Idle

(* A step that was cut short is the end of its run.                        *)
LEMMA Breaks ==
    ASSUME LifecycleIInv, run.steps # <<>>, ~run.verifying, FailsWith(TRUE),
           MachineTypes', Sound', out' = out, out => Off' /\ object' = "absent"
    PROVE  LifecycleIInv'
<1>1. run \in RunType /\ run.what # "nothing"
  BY DEF LifecycleIInv, TypesInv, OnItsWay, Idle
<1>2. ~run.keepGoing
  BY DEF LifecycleIInv, OnItsWay
<1>3. run' = [run EXCEPT !.failed = TRUE, !.faulted = TRUE, !.steps = <<>>]
  BY <1>2 DEF FailsWith
<1>4. run' \in RunType
  <2>1. <<>> \in Seq(StepName)
    OBVIOUS
  <2>2. QED
    BY <1>1, <1>3, <2>1 DEF RunType
<1>5. TypeOK'
  BY <1>4 DEF TypeOK, MachineTypes, RunType, Idle
<1>6. QED
  BY <1>1, <1>3, <1>5, Stops

(* Whatever a step of its own does to a machine: so far, or all of it.     *)
LEMMA ChangesFacts ==
    ASSUME LifecycleIInv, NEW step, step \notin Prompt, NEW states, Changes(step, states)
    PROVE  /\ run.steps # <<>> /\ Here = step /\ ~run.verifying /\ ~NothingToDo(step)
           /\ faults' \in 0..MaxFaults
           /\ \/ Passes /\ k3s' = Last(states) /\ faults' = faults
              \/ \E i \in 1..Len(states) - 1 : k3s' = states[i] /\ FailsWith(TRUE)
<1>1. faults \in 0..MaxFaults /\ MaxFaults \in Nat
  BY ConstantsAssumption DEF LifecycleIInv, TypesInv, TypeOK
<1>2. faults' = faults \/ (faults < MaxFaults /\ faults' = faults + 1)
  BY DEF Changes, Fault
<1>3. faults' \in 0..MaxFaults
  BY <1>1, <1>2
<1>4. QED
  BY <1>3 DEF Changes, Doing, At, Here, Place

(* Installing the agent.                                                   *)
LEMMA InstallKeeps ==
    ASSUME LifecycleIInv, CreateVolumeGroups \/ InstallK3sAgent
    PROVE  LifecycleIInv'
<1>1. TypesInv /\ OnItsWay /\ MachineTypes /\ Sound /\ run \in RunType
  BY TypesTogether DEF LifecycleIInv
<1>2. CASE CreateVolumeGroups
  <2>1. /\ run.steps # <<>> /\ Here = "create-volume-groups" /\ ~run.verifying /\ Passes
        /\ storage' = [storage EXCEPT !.group = TRUE]
        /\ k3s' = k3s /\ kept' = kept /\ work' = work /\ object' = object /\ out' = out
        /\ faults' = faults
    BY <1>2 DEF CreateVolumeGroups, Doing, At, Here, Place, Prompt
  <2>2. /\ OnItsWay' /\ Moves /\ run' \in RunType /\ SameOrders
        /\ ~run.failed /\ ~run'.failed
        /\ run'.inCluster = run.inCluster /\ run'.installed = run.installed
        /\ run'.owned = run.owned /\ run'.faulted = run.faulted
        /\ run.what \in {"add-node", "uninstall", "clean", "run-bundle"}
        /\ run.draining \in BOOLEAN
    BY <2>1, JustPasses
  <2>3. Here' = "install-k3s-agent" /\ run.what = "add-node"
    BY <1>1, <2>1, <2>2, WhereTo, WhoseStep DEF AddSteps
  <2>4. MachineTypes' /\ Sound'
    BY <1>1, <2>1 DEF MachineTypes, Sound
  <2>5. OutInv' /\ AddInv' /\ DrainInv' /\ TakeOffInv' /\ UninstallInv' /\ CleanInv'
    BY <2>1, <2>2, <2>3
       DEF LifecycleIInv, OutInv, AddInv, DrainInv, TakeOffInv, UninstallInv, CleanInv,
           SameOrders, StorageSteps
  <2>6. RerunSucceeds'
    BY <2>2 DEF RerunSucceeds
  <2>7. TypesInv'
    BY <2>2, <2>4 DEF TypesInv, TypeOK, MachineTypes, RunType, Idle
  <2>8. QED
    BY <2>2, <2>4, <2>5, <2>6, <2>7 DEF LifecycleIInv
<1>3. CASE InstallK3sAgent
  <2> DEFINE binary  == [k3s EXCEPT !.binary = TRUE]
             scripts == [binary EXCEPT !.killall = TRUE]
             unit    == [scripts EXCEPT !.unit = TRUE]
             enabled == [unit EXCEPT !.enabled = TRUE]
             started == [enabled EXCEPT !.active = TRUE, !.connected = FALSE]
             states  == <<binary, scripts, unit, enabled, started>>
  <2>1. Changes("install-k3s-agent", states)
    BY <1>3 DEF InstallK3sAgent
  <2>2. "install-k3s-agent" \notin Prompt
    BY DEF Prompt
  <2>3. /\ run.steps # <<>> /\ Here = "install-k3s-agent" /\ ~run.verifying
        /\ faults' \in 0..MaxFaults
        /\ \/ Passes /\ k3s' = Last(states)
           \/ \E i \in 1..Len(states) - 1 : k3s' = states[i] /\ FailsWith(TRUE)
    BY <2>1, <2>2, ChangesFacts
  <2>4. Last(states) = started /\ Len(states) = 5
    BY DEF Last
  <2> HIDE DEF binary, scripts, unit, enabled, started
  <2>5. \A i \in 1..4 : states[i] \in {binary, scripts, unit, enabled}
    OBVIOUS
  <2>6. /\ kept' = [kept EXCEPT !.dirs = TRUE]
        /\ work' = work /\ storage' = storage /\ object' = object /\ out' = out
    BY <1>3 DEF InstallK3sAgent
  <2>7. run.what = "add-node" /\ ~out
    BY <1>1, <2>3, WhoseStep DEF AddSteps, LifecycleIInv, OutInv
  <2>8. /\ MachineTypes' /\ Sound'
        /\ Passes => k3s'.active
        /\ Passes \/ FailsWith(TRUE)
    <3>1. CASE Passes /\ k3s' = started
      BY <1>1, <2>3, <2>6, <3>1
         DEF MachineTypes, Sound, binary, scripts, unit, enabled, started
    <3>2. CASE FailsWith(TRUE) /\ k3s' \in {binary, scripts, unit, enabled}
      <4>1. ~Passes
        <5>1. ~run.failed
          BY <2>3 DEF LifecycleIInv, OnItsWay
        <5>2. QED
          BY <1>1, <3>2, <5>1 DEF Passes, Onward, FailsWith, RunType
      <4> DEFINE Installs ==
                    [unit : BOOLEAN, enabled : BOOLEAN, binary : BOOLEAN, killall : BOOLEAN,
                     active : BOOLEAN, connected : BOOLEAN]
                 Stands(k) == /\ k \in Installs
                              /\ k.unit => k.binary /\ k.killall
                              /\ k.active => k.unit /\ k.enabled /\ k.binary /\ k.killall
                              /\ k.connected => k.active
                              /\ k3s.killall => k.killall
                              /\ k3s.binary => k.binary
      <4>2. Stands(k3s)
        BY <1>1 DEF MachineTypes, Sound
      <4>3. Stands(binary) /\ binary.binary
        BY <4>2 DEF binary
      <4>4. Stands(scripts) /\ scripts.binary /\ scripts.killall
        BY <4>3 DEF scripts
      <4>5. Stands(unit) /\ unit.binary /\ unit.killall
        BY <4>4 DEF unit
      <4>6. Stands(enabled)
        BY <4>5 DEF enabled
      <4>7. Stands(k3s')
        BY <3>2, <4>3, <4>4, <4>5, <4>6
      <4>8. MachineTypes'
        BY <1>1, <2>3, <2>6, <4>7 DEF MachineTypes
      <4>9. Sound'
        BY <1>1, <2>6, <4>7 DEF Sound
      <4> QED
        BY <3>2, <4>1, <4>8, <4>9
    <3>3. CASE \E i \in 1..Len(states) - 1 : k3s' = states[i] /\ FailsWith(TRUE)
      <4>1. PICK i \in 1..4 : k3s' = states[i] /\ FailsWith(TRUE)
        <5>1. Len(states) - 1 = 4
          OBVIOUS
        <5>2. QED
          BY <3>3, <5>1
      <4>2. QED
        BY <2>5, <3>2, <4>1
    <3>4. QED
      BY <2>3, <2>4, <3>1, <3>3
  <2>9. CASE FailsWith(TRUE)
    BY <2>3, <2>6, <2>7, <2>8, <2>9, Breaks
  <2>10. CASE Passes
    <3>1. /\ OnItsWay' /\ Moves /\ run' \in RunType /\ SameOrders
          /\ ~run.failed /\ ~run'.failed
          /\ run'.inCluster = run.inCluster /\ run'.installed = run.installed
          /\ run'.owned = run.owned /\ run'.faulted = run.faulted
          /\ run.what \in {"add-node", "uninstall", "clean", "run-bundle"}
          /\ run.draining \in BOOLEAN
      BY <2>3, <2>10, JustPasses
    <3>2. Here' = "wait-for-k3s"
      BY <2>3, <3>1, WhereTo
    <3>3. OutInv' /\ AddInv' /\ DrainInv' /\ TakeOffInv' /\ UninstallInv' /\ CleanInv'
      BY <2>3, <2>6, <2>7, <2>8, <2>10, <3>1, <3>2
         DEF OutInv, AddInv, DrainInv, TakeOffInv, UninstallInv, CleanInv, SameOrders,
             StorageSteps
    <3>4. RerunSucceeds'
      BY <3>1 DEF RerunSucceeds
    <3>5. TypesInv'
      BY <2>8, <3>1 DEF TypesInv, TypeOK, MachineTypes, RunType, Idle
    <3>6. QED
      BY <2>8, <3>1, <3>3, <3>4, <3>5 DEF LifecycleIInv
  <2>11. QED
    BY <2>8, <2>9, <2>10
<1>4. QED
  BY <1>2, <1>3

(* Draining a node.                                                        *)
LEMMA DrainKeeps ==
    ASSUME LifecycleIInv, CordonNode \/ DrainNode
    PROVE  LifecycleIInv'
<1>1. TypesInv /\ OnItsWay /\ MachineTypes /\ Sound /\ run \in RunType
  BY TypesTogether DEF LifecycleIInv
<1>2. /\ run.steps # <<>> /\ Here \in {"cordon-node", "drain-node"} /\ ~run.verifying
      /\ run.inCluster
      /\ k3s' = k3s /\ kept' = kept /\ storage' = storage /\ out' = out /\ faults' = faults
  BY DEF CordonNode, DrainNode, Doing, At, Here, Place, Prompt, NothingToDo
<1>3. object # "absent" /\ run.what # "nothing"
  BY <1>1, <1>2, WhoseStep DEF LifecycleIInv, DrainInv
<1>4. ~out
  BY <1>3 DEF LifecycleIInv, OutInv
<1>5. CASE /\ Here = "drain-node" /\ FailsWith(FALSE) /\ work.bound /\ ~k3s.active
           /\ UNCHANGED <<machine, out>>
  <2>1. ~run.able
    <3>1. run.what # "run-bundle" => run.draining
      BY <1>1, <1>2, WhoseStep DEF DrainSteps
    <3>2. run.what = "run-bundle" => ~run.able
      BY <1>1 DEF OnItsWay
    <3>3. QED
      BY <1>2, <1>5, <3>1, <3>2 DEF LifecycleIInv, DrainInv
  <2>2. faults' \in 0..MaxFaults
    BY <1>1, <1>2 DEF MachineTypes
  <2>3. run.able => run.faulted \/ FALSE
    BY <2>1
  <2>4. QED
    BY <1>2, <1>5, <2>2, <2>3, JustFails
<1>6. CASE /\ Passes /\ object' = "cordoned"
           /\ \/ Here = "cordon-node" /\ work' = work
              \/ Here = "drain-node" /\ work' = NoWork
  <2>1. /\ OnItsWay' /\ Moves /\ run' \in RunType /\ SameOrders
        /\ ~run.failed /\ ~run'.failed
        /\ run'.inCluster = run.inCluster /\ run'.installed = run.installed
        /\ run'.owned = run.owned /\ run'.faulted = run.faulted
        /\ run.what \in {"add-node", "uninstall", "clean", "run-bundle"}
        /\ run.draining \in BOOLEAN
    BY <1>2, <1>6, JustPasses
  <2>2. /\ Here = "cordon-node" => Here' = "drain-node"
        /\ Here = "drain-node" => Here' = "verify-node-drained"
        /\ run.what \in {"uninstall", "run-bundle"}
    BY <1>1, <1>2, <2>1, WhereTo, WhoseStep DEF DrainSteps
  <2>3. NoWork = [bound |-> FALSE, containers |-> FALSE, mounted |-> FALSE]
    BY DEF NoWork
  <2>4. /\ work' \in [bound : BOOLEAN, containers : BOOLEAN, mounted : BOOLEAN]
        /\ work'.containers \/ work'.mounted => work.containers \/ work.mounted
    <3>1. CASE work' = work
      BY <1>1, <3>1 DEF MachineTypes
    <3>2. CASE work' = NoWork
      BY <2>3, <3>2
    <3>3. QED
      BY <1>6, <3>1, <3>2
  <2>5. MachineTypes' /\ Sound'
    BY <1>1, <1>2, <1>6, <2>4 DEF MachineTypes, Sound
  <2>6. OutInv' /\ AddInv' /\ TakeOffInv' /\ UninstallInv' /\ CleanInv'
    BY <1>2, <1>4, <2>1, <2>2
       DEF OutInv, AddInv, TakeOffInv, UninstallInv, CleanInv, SameOrders, StorageSteps
  <2>7. DrainInv'
    <3>1. CASE Here = "cordon-node"
      BY <1>2, <1>6, <2>1, <2>2, <3>1 DEF LifecycleIInv, DrainInv, SameOrders
    <3>2. CASE Here = "drain-node"
      BY <1>2, <1>6, <2>1, <2>2, <2>3, <3>2 DEF DrainInv, SameOrders, Drained
    <3>3. QED
      BY <1>2, <3>1, <3>2
  <2>8. RerunSucceeds'
    BY <2>1 DEF RerunSucceeds
  <2>9. TypesInv'
    BY <2>1, <2>5 DEF TypesInv, TypeOK, MachineTypes, RunType, Idle
  <2>10. QED
    BY <2>1, <2>5, <2>6, <2>7, <2>8, <2>9 DEF LifecycleIInv
<1>7. CASE CordonNode
  BY <1>3, <1>6, <1>7 DEF CordonNode, Doing, At, Here, Place
<1>8. CASE DrainNode
  <2>1. Here = "drain-node" /\ object' = "cordoned"
    BY <1>8 DEF DrainNode, Doing, At, Here, Place
  <2>2. object = "cordoned"
    BY <1>2, <2>1 DEF LifecycleIInv, DrainInv
  <2>3. \/ Passes /\ work' = NoWork
        \/ work.bound /\ ~k3s.active /\ FailsWith(FALSE) /\ work' = work
    BY <1>8 DEF DrainNode
  <2>4. QED
    BY <1>2, <1>5, <1>6, <2>1, <2>2, <2>3 DEF machine
<1>9. QED
  BY <1>7, <1>8

(* Stopping K3s, which kills what it started, and taking it off.           *)
LEMMA TakeOffKeeps ==
    ASSUME LifecycleIInv, StopK3s \/ RemoveK3s
    PROVE  LifecycleIInv'
<1>1. TypesInv /\ OnItsWay /\ MachineTypes /\ Sound /\ run \in RunType
  BY TypesTogether DEF LifecycleIInv
<1> DEFINE stopped  == [k3s EXCEPT !.active = FALSE, !.connected = FALSE]
           disabled == [stopped EXCEPT !.enabled = FALSE]
           stops    == <<stopped, disabled>>
           unit     == [k3s EXCEPT !.unit = FALSE]
           scripts  == [unit EXCEPT !.killall = FALSE]
           binary   == [scripts EXCEPT !.binary = FALSE]
           removes  == <<unit, scripts, binary>>
<1>2. StopK3s => Changes("stop-k3s", stops)
  BY DEF StopK3s
<1>3. RemoveK3s => Changes("remove-k3s", removes)
  BY DEF RemoveK3s
<1> HIDE DEF stopped, disabled, unit, scripts, binary
<1>4. /\ Last(stops) = disabled /\ Len(stops) - 1 = 1 /\ stops[1] = stopped
      /\ Last(removes) = binary /\ Len(removes) - 1 = 2
      /\ removes[1] = unit /\ removes[2] = scripts
  BY DEF Last
<1>5. "stop-k3s" \notin Prompt /\ "remove-k3s" \notin Prompt
  BY DEF Prompt
<1>6. /\ run.steps # <<>> /\ ~run.verifying /\ faults' \in 0..MaxFaults /\ run.installed
      /\ kept' = kept /\ storage' = storage /\ object' = object /\ out' = out
      /\ \/ /\ Here = "stop-k3s" /\ work' = Killed
            /\ \/ Passes /\ k3s' = disabled
               \/ FailsWith(TRUE) /\ k3s' = stopped
         \/ /\ Here = "remove-k3s" /\ work' = work
            /\ \/ Passes /\ k3s' = binary
               \/ FailsWith(TRUE) /\ k3s' \in {unit, scripts}
  <2>1. CASE StopK3s
    <3>1. /\ run.steps # <<>> /\ Here = "stop-k3s" /\ ~run.verifying
          /\ ~NothingToDo("stop-k3s") /\ faults' \in 0..MaxFaults
          /\ \/ Passes /\ k3s' = Last(stops)
             \/ \E i \in 1..Len(stops) - 1 : k3s' = stops[i] /\ FailsWith(TRUE)
      BY <1>2, <1>5, <2>1, ChangesFacts
    <3>2. \/ Passes /\ k3s' = disabled
          \/ FailsWith(TRUE) /\ k3s' = stopped
      <4>1. CASE Passes /\ k3s' = Last(stops)
        BY <1>4, <4>1
      <4>2. CASE \E i \in 1..Len(stops) - 1 : k3s' = stops[i] /\ FailsWith(TRUE)
        <5>1. PICK i \in 1..1 : k3s' = stops[i] /\ FailsWith(TRUE)
          BY <1>4, <4>2
        <5>2. i = 1
          BY <5>1
        <5>3. QED
          BY <1>4, <5>1, <5>2
      <4>3. QED
        BY <3>1, <4>1, <4>2
    <3>3. run.installed
      BY <3>1 DEF NothingToDo
    <3>4. QED
      BY <2>1, <3>1, <3>2, <3>3 DEF StopK3s
  <2>2. CASE RemoveK3s
    <3>1. /\ run.steps # <<>> /\ Here = "remove-k3s" /\ ~run.verifying
          /\ ~NothingToDo("remove-k3s") /\ faults' \in 0..MaxFaults
          /\ \/ Passes /\ k3s' = Last(removes)
             \/ \E i \in 1..Len(removes) - 1 : k3s' = removes[i] /\ FailsWith(TRUE)
      BY <1>3, <1>5, <2>2, ChangesFacts
    <3>2. \/ Passes /\ k3s' = binary
          \/ FailsWith(TRUE) /\ k3s' \in {unit, scripts}
      <4>1. CASE Passes /\ k3s' = Last(removes)
        BY <1>4, <4>1
      <4>2. CASE \E i \in 1..Len(removes) - 1 : k3s' = removes[i] /\ FailsWith(TRUE)
        <5>1. PICK i \in 1..2 : k3s' = removes[i] /\ FailsWith(TRUE)
          BY <1>4, <4>2
        <5>2. i = 1 \/ i = 2
          BY <5>1
        <5>3. QED
          BY <1>4, <5>1, <5>2
      <4>3. QED
        BY <3>1, <4>1, <4>2
    <3>3. run.installed
      BY <3>1 DEF NothingToDo
    <3>4. QED
      BY <2>2, <3>1, <3>2, <3>3 DEF RemoveK3s
  <2>3. QED
    BY <2>1, <2>2
<1>7. Here = "remove-k3s" => ~k3s.active /\ ~work.containers /\ ~work.mounted
  BY <1>6 DEF LifecycleIInv, TakeOffInv
<1>8. Killed \in [bound : BOOLEAN, containers : BOOLEAN, mounted : BOOLEAN]
      /\ ~Killed.containers /\ ~Killed.mounted /\ Killed.bound = work.bound
  <2>1. work \in [bound : BOOLEAN, containers : BOOLEAN, mounted : BOOLEAN]
    BY <1>1 DEF MachineTypes
  <2>2. work.containers \/ work.mounted => k3s.killall
    BY <1>1 DEF Sound
  <2>3. QED
    BY <2>1, <2>2 DEF Killed
<1>9. MachineTypes' /\ Sound' /\ ~work'.containers /\ ~work'.mounted /\ ~k3s'.active
      /\ work'.bound = work.bound
  <2>1. k3s' \in {disabled, stopped, binary, unit, scripts}
    BY <1>6
  <2>2. /\ k3s' \in [unit : BOOLEAN, enabled : BOOLEAN, binary : BOOLEAN, killall : BOOLEAN,
                     active : BOOLEAN, connected : BOOLEAN]
        /\ k3s'.active => k3s.active /\ Here = "remove-k3s"
        /\ k3s'.connected => k3s.connected /\ Here = "remove-k3s"
        /\ k3s'.unit => k3s'.binary /\ k3s'.killall
    <3>1. k3s.unit => k3s.binary /\ k3s.killall
      BY <1>1 DEF Sound
    <3>2. k3s \in [unit : BOOLEAN, enabled : BOOLEAN, binary : BOOLEAN, killall : BOOLEAN,
                   active : BOOLEAN, connected : BOOLEAN]
      BY <1>1 DEF MachineTypes
    <3>3. CASE k3s' = stopped
      BY <1>6, <3>1, <3>2, <3>3 DEF stopped
    <3>4. CASE k3s' = disabled
      BY <1>6, <3>1, <3>2, <3>4 DEF stopped, disabled
    <3>5. CASE Here = "remove-k3s" /\ k3s' \in {unit, scripts, binary}
      BY <3>2, <3>5 DEF unit, scripts, binary
    <3>6. QED
      BY <1>6, <3>3, <3>4, <3>5
  <2>3. ~k3s'.active /\ ~k3s'.connected
    BY <1>1, <1>7, <2>2 DEF Sound
  <2>4. ~work'.containers /\ ~work'.mounted /\ work'.bound = work.bound
    BY <1>6, <1>7, <1>8
  <2>5. work' \in [bound : BOOLEAN, containers : BOOLEAN, mounted : BOOLEAN]
    BY <1>1, <1>6, <1>8 DEF MachineTypes
  <2>6. QED
    BY <1>1, <1>6, <2>2, <2>3, <2>4, <2>5 DEF MachineTypes, Sound
<1>10. out => Off' /\ object' = "absent"
  <2>1. out => Off /\ object = "absent"
    BY DEF LifecycleIInv, OutInv
  <2>2. Off => ~k3s'.unit /\ ~k3s'.binary
    <3>1. k3s \in [unit : BOOLEAN, enabled : BOOLEAN, binary : BOOLEAN, killall : BOOLEAN,
                   active : BOOLEAN, connected : BOOLEAN]
      BY <1>1 DEF MachineTypes
    <3>2. QED
      BY <1>6, <3>1 DEF Off, stopped, disabled, unit, scripts, binary
  <2>3. QED
    BY <1>6, <1>9, <2>1, <2>2 DEF Off
<1>11. CASE FailsWith(TRUE)
  BY <1>6, <1>9, <1>10, <1>11, Breaks
<1>12. CASE Passes
  <2>1. /\ OnItsWay' /\ Moves /\ run' \in RunType /\ SameOrders
        /\ ~run.failed /\ ~run'.failed
        /\ run'.inCluster = run.inCluster /\ run'.installed = run.installed
        /\ run'.owned = run.owned /\ run'.faulted = run.faulted
        /\ run.what \in {"add-node", "uninstall", "clean", "run-bundle"}
        /\ run.draining \in BOOLEAN
    BY <1>6, <1>12, JustPasses
  <2>2. /\ Here = "stop-k3s" => Here' = "remove-k3s"
        /\ Here = "remove-k3s" => Here' = "verify-k3s-removed"
        /\ run.what \in {"uninstall", "run-bundle"}
    BY <1>1, <1>6, <2>1, WhereTo, WhoseStep DEF TakeOffSteps
  <2>3. ~FailsWith(TRUE)
    BY <1>1, <2>1 DEF FailsWith, RunType
  <2>4. Here = "remove-k3s" => Off'
    <3>1. k3s \in [unit : BOOLEAN, enabled : BOOLEAN, binary : BOOLEAN, killall : BOOLEAN,
                   active : BOOLEAN, connected : BOOLEAN]
      BY <1>1 DEF MachineTypes
    <3>2. Here = "remove-k3s" => k3s' = binary
      BY <1>6, <2>3
    <3>3. Here = "remove-k3s" => ~k3s'.unit /\ ~k3s'.binary
      BY <3>1, <3>2 DEF unit, scripts, binary
    <3>4. QED
      BY <1>9, <3>3 DEF Off
  <2>5. TakeOffInv'
    BY <1>6, <1>9, <2>1, <2>2, <2>4 DEF TakeOffInv
  <2>6. OutInv' /\ AddInv' /\ DrainInv' /\ UninstallInv' /\ CleanInv'
    BY <1>6, <1>10, <2>1, <2>2
       DEF LifecycleIInv, OutInv, AddInv, DrainInv, UninstallInv, CleanInv, SameOrders,
           StorageSteps
  <2>7. RerunSucceeds'
    BY <2>1 DEF RerunSucceeds
  <2>8. TypesInv'
    BY <1>9, <2>1 DEF TypesInv, TypeOK, MachineTypes, RunType, Idle
  <2>9. QED
    BY <1>9, <2>1, <2>5, <2>6, <2>7, <2>8 DEF LifecycleIInv
<1>13. QED
  BY <1>6, <1>11, <1>12

(* Removing the node from the cluster.                                     *)
LEMMA RemoveNodeKeeps == ASSUME LifecycleIInv, RemoveNode PROVE LifecycleIInv'
<1>1. TypesInv /\ OnItsWay /\ MachineTypes /\ Sound /\ run \in RunType
  BY TypesTogether DEF LifecycleIInv
<1>2. /\ run.steps # <<>> /\ Here = "remove-node" /\ ~run.verifying /\ Passes
      /\ object' = "absent"
      /\ work' = [work EXCEPT !.bound = FALSE]
      /\ k3s' = [k3s EXCEPT !.connected = FALSE]
      /\ kept' = kept /\ storage' = storage /\ out' = out /\ faults' = faults
  BY DEF RemoveNode, Doing, At, Here, Place, Prompt
<1>3. /\ OnItsWay' /\ Moves /\ run' \in RunType /\ SameOrders
      /\ ~run.failed /\ ~run'.failed
      /\ run'.inCluster = run.inCluster /\ run'.installed = run.installed
      /\ run'.owned = run.owned /\ run'.faulted = run.faulted
      /\ run.what \in {"add-node", "uninstall", "clean", "run-bundle"}
      /\ run.draining \in BOOLEAN
  BY <1>2, JustPasses
<1>4. Here' = "verify-node-removed" /\ run.what \in {"uninstall", "run-bundle"}
  BY <1>1, <1>2, <1>3, WhereTo, WhoseStep DEF TakeOffSteps
<1>5. MachineTypes' /\ Sound' /\ (Off <=> Off')
  BY <1>1, <1>2 DEF MachineTypes, Sound, Off
<1>6. OutInv' /\ AddInv' /\ DrainInv' /\ TakeOffInv' /\ UninstallInv' /\ CleanInv'
  BY <1>2, <1>3, <1>4, <1>5
     DEF LifecycleIInv, OutInv, AddInv, DrainInv, TakeOffInv, UninstallInv, CleanInv,
         SameOrders, StorageSteps
<1>7. RerunSucceeds'
  BY <1>3 DEF RerunSucceeds
<1>8. TypesInv'
  BY <1>3, <1>5 DEF TypesInv, TypeOK, MachineTypes, RunType, Idle
<1>9. QED
  BY <1>3, <1>5, <1>6, <1>7, <1>8 DEF LifecycleIInv

(* Cleaning a node.                                                        *)
LEMMA CleanKeeps ==
    ASSUME LifecycleIInv, RemoveK3sState \/ RemoveVolumeGroups
    PROVE  LifecycleIInv'
<1>1. TypesInv /\ OnItsWay /\ MachineTypes /\ Sound /\ run \in RunType
  BY TypesTogether DEF LifecycleIInv
<1>2. CASE RemoveK3sState
  <2>1. /\ run.steps # <<>> /\ Here = "remove-k3s-state" /\ ~run.verifying
        /\ \/ /\ kept' = [dirs |-> FALSE, credentials |-> FALSE]
              /\ k3s' = [k3s EXCEPT !.unit = FALSE]
              /\ Passes
              /\ faults' = faults
           \/ /\ Fault
              /\ kept' = [kept EXCEPT !.credentials = FALSE]
              /\ FailsWith(TRUE)
              /\ k3s' = k3s
        /\ storage' = [storage EXCEPT !.data = @ /\ ~work.mounted]
        /\ work' = work /\ object' = object /\ out' = out
    BY <1>2 DEF RemoveK3sState, Doing, At, Here, Place, Prompt
  <2>2. ~k3s.active /\ ~work.mounted /\ run.what = "clean"
    BY <1>1, <2>1, WhoseStep DEF LifecycleIInv, CleanInv, CleanSteps
  <2>3. storage' = storage
    <3>1. storage \in [group : BOOLEAN, data : BOOLEAN]
      BY <1>1 DEF MachineTypes
    <3>2. QED
      BY <2>1, <2>2, <3>1
  <2>4. faults' \in 0..MaxFaults
    <3>1. faults \in 0..MaxFaults /\ MaxFaults \in Nat
      BY <1>1, ConstantsAssumption DEF MachineTypes
    <3>2. faults' = faults \/ (faults < MaxFaults /\ faults' = faults + 1)
      BY <2>1 DEF Fault
    <3>3. QED
      BY <3>1, <3>2
  <2>5. MachineTypes' /\ Sound' /\ (Off => Off')
    <3>1. kept' \in [dirs : BOOLEAN, credentials : BOOLEAN]
      <4>1. kept \in [dirs : BOOLEAN, credentials : BOOLEAN]
        BY <1>1 DEF MachineTypes
      <4>2. CASE kept' = [dirs |-> FALSE, credentials |-> FALSE]
        BY <4>2
      <4>3. CASE kept' = [kept EXCEPT !.credentials = FALSE]
        BY <4>1, <4>3
      <4>4. QED
        BY <2>1, <4>2, <4>3
    <3>2. k3s' = k3s \/ k3s' = [k3s EXCEPT !.unit = FALSE]
      BY <2>1
    <3>3. QED
      BY <1>1, <2>1, <2>2, <2>3, <2>4, <3>1, <3>2 DEF MachineTypes, Sound, Off
  <2>6. out => Off' /\ object' = "absent"
    BY <2>1, <2>5 DEF LifecycleIInv, OutInv
  <2>7. CASE FailsWith(TRUE)
    BY <2>1, <2>5, <2>6, <2>7, Breaks
  <2>8. CASE Passes /\ kept' = [dirs |-> FALSE, credentials |-> FALSE]
    <3>1. /\ OnItsWay' /\ Moves /\ run' \in RunType /\ SameOrders
          /\ ~run.failed /\ ~run'.failed
          /\ run'.inCluster = run.inCluster /\ run'.installed = run.installed
          /\ run'.owned = run.owned /\ run'.faulted = run.faulted
          /\ run.what \in {"add-node", "uninstall", "clean", "run-bundle"}
          /\ run.draining \in BOOLEAN
      BY <2>1, <2>8, JustPasses
    <3>2. Here' = "verify-clean"
      BY <2>1, <3>1, WhereToClean
    <3>3. OutInv' /\ AddInv' /\ DrainInv' /\ TakeOffInv' /\ UninstallInv' /\ CleanInv'
      BY <2>1, <2>2, <2>6, <2>8, <3>1, <3>2
         DEF LifecycleIInv, OutInv, AddInv, DrainInv, TakeOffInv, UninstallInv, CleanInv,
             SameOrders, StorageSteps
    <3>4. RerunSucceeds'
      BY <3>1 DEF RerunSucceeds
    <3>5. TypesInv'
      BY <2>5, <3>1 DEF TypesInv, TypeOK, MachineTypes, RunType, Idle
    <3>6. QED
      BY <2>5, <3>1, <3>3, <3>4, <3>5 DEF LifecycleIInv
  <2>9. QED
    BY <2>1, <2>7, <2>8
<1>3. CASE RemoveVolumeGroups
  <2>1. /\ run.steps # <<>> /\ Here = "remove-volume-groups" /\ ~run.verifying
        /\ run.owned /\ run.approved
        /\ k3s' = k3s /\ kept' = kept /\ work' = work /\ object' = object /\ out' = out
        /\ faults' = faults
        /\ \/ work.mounted /\ FailsWith(FALSE) /\ storage' = storage
           \/ storage' = [group |-> FALSE, data |-> FALSE] /\ Passes
    BY <1>3 DEF RemoveVolumeGroups, Doing, At, Here, Place, Prompt, NothingToDo
  <2>2. /\ run.what \in {"clean", "run-bundle"}
        /\ run.able => run.what = "clean"
    BY <1>1, <2>1, WhoseStep DEF StorageSteps, OnItsWay
  <2>3. CASE work.mounted /\ FailsWith(FALSE) /\ storage' = storage
    <3>1. ~run.able
      BY <2>2, <2>3 DEF LifecycleIInv, CleanInv, OutInv, Off
    <3>2. faults' \in 0..MaxFaults /\ UNCHANGED <<machine, out>>
      BY <1>1, <2>1, <2>3 DEF MachineTypes, machine
    <3>3. run.able => run.faulted \/ FALSE
      BY <3>1
    <3>4. QED
      BY <2>1, <2>3, <3>2, <3>3, JustFails
  <2>4. CASE storage' = [group |-> FALSE, data |-> FALSE] /\ Passes
    <3>1. /\ OnItsWay' /\ Moves /\ run' \in RunType /\ SameOrders
          /\ ~run.failed /\ ~run'.failed
          /\ run'.inCluster = run.inCluster /\ run'.installed = run.installed
          /\ run'.owned = run.owned /\ run'.faulted = run.faulted
          /\ run.what \in {"add-node", "uninstall", "clean", "run-bundle"}
          /\ run.draining \in BOOLEAN
      BY <2>1, <2>4, JustPasses
    <3>2. Here' = "verify-volume-groups-removed"
      BY <2>1, <3>1, WhereToClean
    <3>3. MachineTypes' /\ Sound' /\ (Off <=> Off')
      BY <1>1, <2>1, <2>4 DEF MachineTypes, Sound, Off
    <3>4. OutInv' /\ AddInv' /\ DrainInv' /\ TakeOffInv' /\ UninstallInv' /\ CleanInv'
      BY <2>1, <2>2, <2>4, <3>1, <3>2, <3>3
         DEF LifecycleIInv, OutInv, AddInv, DrainInv, TakeOffInv, UninstallInv, CleanInv,
             SameOrders, StorageSteps
    <3>5. RerunSucceeds'
      BY <3>1 DEF RerunSucceeds
    <3>6. TypesInv'
      BY <3>1, <3>3 DEF TypesInv, TypeOK, MachineTypes, RunType, Idle
    <3>7. QED
      BY <3>1, <3>3, <3>4, <3>5, <3>6 DEF LifecycleIInv
  <2>5. QED
    BY <2>1, <2>3, <2>4
<1>4. QED
  BY <1>2, <1>3

-----------------------------------------------------------------------------
(* How runs begin and end                                                  *)

(* The pipelines are on their ways.                                        *)
LEMMA Ways ==
    /\ InOrder(AddNodePipeline, AddOrder) /\ AddNodePipeline \in Seq(StepName)
    /\ Place(AddNodePipeline) = "check-cluster-online"
    /\ \A skip \in BOOLEAN :
          /\ InOrder(UninstallPipeline(skip), UninstallOrder(~skip))
          /\ UninstallPipeline(skip) \in Seq(StepName)
          /\ Place(UninstallPipeline(skip)) = "check-cluster-online"
    /\ \A full \in BOOLEAN :
          /\ InOrder(CleanPipeline(full), CleanOrder(full))
          /\ CleanPipeline(full) \in Seq(StepName)
          /\ Place(CleanPipeline(full)) = "check-ready-to-clean"
    /\ \A bundle \in {Drain, K3sUninstall, NodeRemoved, StorageRemove} :
          /\ InOrder(bundle, BundleOrder) /\ bundle \in Seq(StepName)
          /\ Place(bundle) \in {"check-node-in-cluster", "check-k3s-present", "remove-node",
                                "read-volume-groups"}
<1>1. /\ InOrder(AddNodePipeline, AddOrder) /\ AddNodePipeline \in Seq(StepName)
      /\ Place(AddNodePipeline) = "check-cluster-online"
  <2>1. /\ Len(AddNodePipeline) = 7
        /\ AddNodePipeline[1] = "check-cluster-online"
        /\ AddNodePipeline[2] = "create-volume-groups"
        /\ AddNodePipeline[3] = "install-k3s-agent"
        /\ AddNodePipeline[4] = "wait-for-k3s"
        /\ AddNodePipeline[5] = "verify-k3s"
        /\ AddNodePipeline[6] = "check-cluster-access"
        /\ AddNodePipeline[7] = "verify-node-ready"
    BY DEF AddNodePipeline, K3s
  <2>2. AddNodePipeline \in Seq(StepName)
    BY DEF StepName, AddSteps, AddNodePipeline, K3s
  <2>3. SUFFICES ASSUME NEW i \in 1..7
                 PROVE  <<AddNodePipeline[i], IF i = 7 THEN "end" ELSE AddNodePipeline[i + 1]>>
                            \in AddOrder
    BY <2>1, <2>2, EmptySeq DEF InOrder, Place
  <2>4. i = 1 \/ i = 2 \/ i = 3 \/ i = 4 \/ i = 5 \/ i = 6 \/ i = 7
    OBVIOUS
  <2>5. QED
    BY <2>1, <2>4 DEF AddOrder
<1>2. /\ InOrder(UninstallPipeline(TRUE), UninstallOrder(FALSE))
      /\ UninstallPipeline(TRUE) \in Seq(StepName)
      /\ Place(UninstallPipeline(TRUE)) = "check-cluster-online"
  <2>1. PICK steps : steps = UninstallPipeline(TRUE)
    OBVIOUS
  <2>2. PICK order : order = UninstallOrder(FALSE)
    OBVIOUS
  <2>3. /\ Len(steps) = 7
        /\ steps[1] = "check-cluster-online"
        /\ steps[2] = "check-k3s-present"
        /\ steps[3] = "stop-k3s"
        /\ steps[4] = "remove-k3s"
        /\ steps[5] = "verify-k3s-removed"
        /\ steps[6] = "remove-node"
        /\ steps[7] = "verify-node-removed"
    BY <2>1 DEF UninstallPipeline, K3sUninstall, NodeRemoved
  <2>4. steps \in Seq(StepName)
    BY <2>1 DEF StepName, TakeOffSteps, UninstallPipeline, K3sUninstall, NodeRemoved
  <2>5. /\ <<"check-cluster-online", "check-k3s-present">> \in order
        /\ <<"check-k3s-present", "stop-k3s">> \in order
        /\ <<"stop-k3s", "remove-k3s">> \in order
        /\ <<"remove-k3s", "verify-k3s-removed">> \in order
        /\ <<"verify-k3s-removed", "remove-node">> \in order
        /\ <<"remove-node", "verify-node-removed">> \in order
        /\ <<"verify-node-removed", "end">> \in order
    BY <2>2 DEF UninstallOrder, TakeOffOrder, RemovedOrder
  <2>6. InOrder(steps, order)
    <3>1. SUFFICES ASSUME NEW i \in 1..7
                   PROVE  <<steps[i], IF i = 7 THEN "end" ELSE steps[i + 1]>> \in order
      BY <2>3 DEF InOrder
    <3>2. i = 1 \/ i = 2 \/ i = 3 \/ i = 4 \/ i = 5 \/ i = 6 \/ i = 7
      OBVIOUS
    <3>3. QED
      BY <2>3, <2>5, <3>2
  <2>7. Place(steps) = "check-cluster-online"
    BY <2>3, <2>4, EmptySeq DEF Place
  <2>8. QED
    BY <2>1, <2>2, <2>4, <2>6, <2>7, Zenon
<1>3. /\ InOrder(UninstallPipeline(FALSE), UninstallOrder(TRUE))
      /\ UninstallPipeline(FALSE) \in Seq(StepName)
      /\ Place(UninstallPipeline(FALSE)) = "check-cluster-online"
  <2>1. PICK steps : steps = UninstallPipeline(FALSE)
    OBVIOUS
  <2>2. PICK order : order = UninstallOrder(TRUE)
    OBVIOUS
  <2>3. /\ Len(steps) = 11
        /\ steps[1] = "check-cluster-online"
        /\ steps[2] = "check-node-in-cluster"
        /\ steps[3] = "cordon-node"
        /\ steps[4] = "drain-node"
        /\ steps[5] = "verify-node-drained"
        /\ steps[6] = "check-k3s-present"
        /\ steps[7] = "stop-k3s"
        /\ steps[8] = "remove-k3s"
        /\ steps[9] = "verify-k3s-removed"
        /\ steps[10] = "remove-node"
        /\ steps[11] = "verify-node-removed"
    BY <2>1 DEF UninstallPipeline, Drain, K3sUninstall, NodeRemoved
  <2>4. steps \in Seq(StepName)
    BY <2>1 DEF StepName, DrainSteps, TakeOffSteps, UninstallPipeline, Drain,
                  K3sUninstall, NodeRemoved
  <2>5. /\ <<"check-cluster-online", "check-node-in-cluster">> \in order
        /\ <<"check-node-in-cluster", "cordon-node">> \in order
        /\ <<"cordon-node", "drain-node">> \in order
        /\ <<"drain-node", "verify-node-drained">> \in order
        /\ <<"verify-node-drained", "check-k3s-present">> \in order
        /\ <<"check-k3s-present", "stop-k3s">> \in order
        /\ <<"stop-k3s", "remove-k3s">> \in order
        /\ <<"remove-k3s", "verify-k3s-removed">> \in order
        /\ <<"verify-k3s-removed", "remove-node">> \in order
        /\ <<"remove-node", "verify-node-removed">> \in order
        /\ <<"verify-node-removed", "end">> \in order
    BY <2>2 DEF UninstallOrder, DrainOrder, TakeOffOrder, RemovedOrder
  <2>6. InOrder(steps, order)
    <3>1. SUFFICES ASSUME NEW i \in 1..11
                   PROVE  <<steps[i], IF i = 11 THEN "end" ELSE steps[i + 1]>> \in order
      BY <2>3 DEF InOrder
    <3>2. i = 1 \/ i = 2 \/ i = 3 \/ i = 4 \/ i = 5 \/ i = 6
            \/ i = 7 \/ i = 8 \/ i = 9 \/ i = 10 \/ i = 11
      OBVIOUS
    <3>3. QED
      BY <2>3, <2>5, <3>2
  <2>7. Place(steps) = "check-cluster-online"
    BY <2>3, <2>4, EmptySeq DEF Place
  <2>8. QED
    BY <2>1, <2>2, <2>4, <2>6, <2>7, Zenon
<1>4. /\ InOrder(CleanPipeline(FALSE), CleanOrder(FALSE)) /\ CleanPipeline(FALSE) \in Seq(StepName)
      /\ Place(CleanPipeline(FALSE)) = "check-ready-to-clean"
  <2>1. PICK steps : steps = CleanPipeline(FALSE)
    OBVIOUS
  <2>2. PICK order : order = CleanOrder(FALSE)
    OBVIOUS
  <2>3. /\ Len(steps) = 3
        /\ steps[1] = "check-ready-to-clean"
        /\ steps[2] = "remove-k3s-state"
        /\ steps[3] = "verify-clean"
    BY <2>1 DEF CleanPipeline, Clean
  <2>4. steps \in Seq(StepName)
    BY <2>1 DEF StepName, CleanSteps, CleanPipeline, Clean
  <2>5. /\ <<"check-ready-to-clean", "remove-k3s-state">> \in order
        /\ <<"remove-k3s-state", "verify-clean">> \in order
        /\ <<"verify-clean", "end">> \in order
    BY <2>2 DEF CleanOrder
  <2>6. InOrder(steps, order)
    <3>1. SUFFICES ASSUME NEW i \in 1..3
                   PROVE  <<steps[i], IF i = 3 THEN "end" ELSE steps[i + 1]>> \in order
      BY <2>3 DEF InOrder
    <3>2. i = 1 \/ i = 2 \/ i = 3
      OBVIOUS
    <3>3. QED
      BY <2>3, <2>5, <3>2
  <2>7. Place(steps) = "check-ready-to-clean"
    BY <2>3, <2>4, EmptySeq DEF Place
  <2>8. QED
    BY <2>1, <2>2, <2>4, <2>6, <2>7, Zenon
<1>5. /\ InOrder(CleanPipeline(TRUE), CleanOrder(TRUE)) /\ CleanPipeline(TRUE) \in Seq(StepName)
      /\ Place(CleanPipeline(TRUE)) = "check-ready-to-clean"
  <2>1. PICK steps : steps = CleanPipeline(TRUE)
    OBVIOUS
  <2>2. PICK order : order = CleanOrder(TRUE)
    OBVIOUS
  <2>3. /\ Len(steps) = 7
        /\ steps[1] = "check-ready-to-clean"
        /\ steps[2] = "remove-k3s-state"
        /\ steps[3] = "verify-clean"
        /\ steps[4] = "read-volume-groups"
        /\ steps[5] = "check-storage-approved"
        /\ steps[6] = "remove-volume-groups"
        /\ steps[7] = "verify-volume-groups-removed"
    BY <2>1 DEF CleanPipeline, Clean, StorageRemove
  <2>4. steps \in Seq(StepName)
    BY <2>1 DEF StepName, CleanSteps, StorageSteps, CleanPipeline, Clean, StorageRemove
  <2>5. /\ <<"check-ready-to-clean", "remove-k3s-state">> \in order
        /\ <<"remove-k3s-state", "verify-clean">> \in order
        /\ <<"verify-clean", "read-volume-groups">> \in order
        /\ <<"read-volume-groups", "check-storage-approved">> \in order
        /\ <<"check-storage-approved", "remove-volume-groups">> \in order
        /\ <<"remove-volume-groups", "verify-volume-groups-removed">> \in order
        /\ <<"verify-volume-groups-removed", "end">> \in order
    BY <2>2 DEF CleanOrder, StorageOrder
  <2>6. InOrder(steps, order)
    <3>1. SUFFICES ASSUME NEW i \in 1..7
                   PROVE  <<steps[i], IF i = 7 THEN "end" ELSE steps[i + 1]>> \in order
      BY <2>3 DEF InOrder
    <3>2. i = 1 \/ i = 2 \/ i = 3 \/ i = 4 \/ i = 5 \/ i = 6 \/ i = 7
      OBVIOUS
    <3>3. QED
      BY <2>3, <2>5, <3>2
  <2>7. Place(steps) = "check-ready-to-clean"
    BY <2>3, <2>4, EmptySeq DEF Place
  <2>8. QED
    BY <2>1, <2>2, <2>4, <2>6, <2>7, Zenon
<1>6. /\ InOrder(Drain, BundleOrder) /\ Drain \in Seq(StepName)
      /\ Place(Drain) = "check-node-in-cluster"
  <2>1. /\ Len(Drain) = 4
        /\ Drain[1] = "check-node-in-cluster"
        /\ Drain[2] = "cordon-node"
        /\ Drain[3] = "drain-node"
        /\ Drain[4] = "verify-node-drained"
    BY DEF Drain
  <2>2. Drain \in Seq(StepName)
    BY DEF StepName, DrainSteps, Drain
  <2>3. SUFFICES ASSUME NEW i \in 1..4
                 PROVE  <<Drain[i], IF i = 4 THEN "end" ELSE Drain[i + 1]>>
                            \in BundleOrder
    BY <2>1, <2>2, EmptySeq DEF InOrder, Place
  <2>4. i = 1 \/ i = 2 \/ i = 3 \/ i = 4
    OBVIOUS
  <2>5. QED
    BY <2>1, <2>4 DEF BundleOrder, DrainOrder
<1>7. /\ InOrder(K3sUninstall, BundleOrder) /\ K3sUninstall \in Seq(StepName)
      /\ Place(K3sUninstall) = "check-k3s-present"
  <2>1. /\ Len(K3sUninstall) = 4
        /\ K3sUninstall[1] = "check-k3s-present"
        /\ K3sUninstall[2] = "stop-k3s"
        /\ K3sUninstall[3] = "remove-k3s"
        /\ K3sUninstall[4] = "verify-k3s-removed"
    BY DEF K3sUninstall
  <2>2. K3sUninstall \in Seq(StepName)
    BY DEF StepName, TakeOffSteps, K3sUninstall
  <2>3. SUFFICES ASSUME NEW i \in 1..4
                 PROVE  <<K3sUninstall[i], IF i = 4 THEN "end" ELSE K3sUninstall[i + 1]>>
                            \in BundleOrder
    BY <2>1, <2>2, EmptySeq DEF InOrder, Place
  <2>4. i = 1 \/ i = 2 \/ i = 3 \/ i = 4
    OBVIOUS
  <2>5. QED
    BY <2>1, <2>4 DEF BundleOrder, TakeOffOrder
<1>8. /\ InOrder(NodeRemoved, BundleOrder) /\ NodeRemoved \in Seq(StepName)
      /\ Place(NodeRemoved) = "remove-node"
  <2>1. /\ Len(NodeRemoved) = 2
        /\ NodeRemoved[1] = "remove-node"
        /\ NodeRemoved[2] = "verify-node-removed"
    BY DEF NodeRemoved
  <2>2. NodeRemoved \in Seq(StepName)
    BY DEF StepName, TakeOffSteps, NodeRemoved
  <2>3. SUFFICES ASSUME NEW i \in 1..2
                 PROVE  <<NodeRemoved[i], IF i = 2 THEN "end" ELSE NodeRemoved[i + 1]>>
                            \in BundleOrder
    BY <2>1, <2>2, EmptySeq DEF InOrder, Place
  <2>4. i = 1 \/ i = 2
    OBVIOUS
  <2>5. QED
    BY <2>1, <2>4 DEF BundleOrder, RemovedOrder
<1>9. /\ InOrder(StorageRemove, BundleOrder) /\ StorageRemove \in Seq(StepName)
      /\ Place(StorageRemove) = "read-volume-groups"
  <2>1. /\ Len(StorageRemove) = 4
        /\ StorageRemove[1] = "read-volume-groups"
        /\ StorageRemove[2] = "check-storage-approved"
        /\ StorageRemove[3] = "remove-volume-groups"
        /\ StorageRemove[4] = "verify-volume-groups-removed"
    BY DEF StorageRemove
  <2>2. StorageRemove \in Seq(StepName)
    BY DEF StepName, StorageSteps, StorageRemove
  <2>3. SUFFICES ASSUME NEW i \in 1..4
                 PROVE  <<StorageRemove[i], IF i = 4 THEN "end" ELSE StorageRemove[i + 1]>>
                            \in BundleOrder
    BY <2>1, <2>2, EmptySeq DEF InOrder, Place
  <2>4. i = 1 \/ i = 2 \/ i = 3 \/ i = 4
    OBVIOUS
  <2>5. QED
    BY <2>1, <2>4 DEF BundleOrder, StorageOrder
<1>10. QED
  BY <1>1, <1>2, <1>3, <1>4, <1>5, <1>6, <1>7, <1>8, <1>9

(* A run that begins has found nothing and done nothing.                   *)
LEMMA BeginKeeps ==
    ASSUME LifecycleIInv, run' \in RunType, ~run'.verifying, ~run'.inCluster, ~run'.failed,
           OnItsWay', UNCHANGED <<machine, faults>>, out' \in BOOLEAN, out' => out,
           run'.what = "add-node" => ~out',
           Here' \in {"check-cluster-online", "check-ready-to-clean", "check-node-in-cluster",
                      "check-k3s-present", "remove-node", "read-volume-groups"},
           run'.what = "uninstall" => Here' = "check-cluster-online",
           run'.what = "clean" => Here' = "check-ready-to-clean" /\ (run'.able => out'),
           run'.able /\ run'.draining => ~work.bound \/ k3s.active
    PROVE  LifecycleIInv'
<1>1. MachineTypes /\ Sound /\ OutInv
  BY TypesTogether DEF LifecycleIInv
<1>2. k3s' = k3s /\ kept' = kept /\ work' = work /\ storage' = storage /\ object' = object
  BY DEF machine
<1>3. MachineTypes' /\ Sound' /\ (Off <=> Off')
  BY <1>1, <1>2 DEF MachineTypes, Sound, Off
<1>4. TypesInv'
  BY <1>3 DEF TypesInv, TypeOK, MachineTypes, RunType, Idle
<1>5. OutInv' /\ AddInv' /\ TakeOffInv' /\ UninstallInv' /\ CleanInv'
  BY <1>1, <1>2, <1>3 DEF OutInv, AddInv, TakeOffInv, UninstallInv, CleanInv, StorageSteps
<1>6. DrainInv'
  BY <1>2 DEF DrainInv
<1>7. RerunSucceeds'
  BY DEF RerunSucceeds
<1>8. QED
  BY <1>3, <1>4, <1>5, <1>6, <1>7 DEF LifecycleIInv

(* What a run that begins is told.                                         *)
LEMMA Begun ==
    ASSUME KeepGoing \subseteq {FALSE}, NEW keepGoing \in KeepGoing,
           NEW what \in {"add-node", "uninstall", "clean", "run-bundle"},
           NEW steps \in Seq(StepName),
           NEW draining \in BOOLEAN, NEW approved \in BOOLEAN, NEW able \in BOOLEAN,
           Begin(what, steps, [keepGoing |-> keepGoing, draining |-> draining,
                               approved |-> approved, able |-> able])
    PROVE  /\ run' \in RunType /\ run' # Idle
           /\ run'.what = what /\ run'.steps = steps /\ Here' = Place(steps)
           /\ ~run'.verifying /\ ~run'.keepGoing /\ ~run'.inCluster /\ ~run'.failed
           /\ run'.draining = draining /\ run'.approved = approved /\ run'.able = able
           /\ UNCHANGED <<machine, faults>>
<1>1. keepGoing = FALSE
  OBVIOUS
<1>2. run' = [what |-> what, steps |-> steps, verifying |-> FALSE, keepGoing |-> FALSE,
              draining |-> draining, approved |-> approved, inCluster |-> FALSE,
              installed |-> FALSE, owned |-> FALSE, failed |-> FALSE,
              able |-> able, faulted |-> FALSE]
  BY <1>1 DEF Begin, Idle
<1>3. run' \in RunType
  BY <1>2 DEF RunType
<1>4. run'.what = what /\ run'.steps = steps
  BY <1>2
<1>5. run' # Idle
  BY <1>4 DEF Idle
<1>6. Here' = Place(steps)
  BY <1>4 DEF Here, Place
<1>7. /\ ~run'.verifying /\ ~run'.keepGoing /\ ~run'.inCluster /\ ~run'.failed
      /\ run'.draining = draining /\ run'.approved = approved /\ run'.able = able
  BY <1>2
<1>8. UNCHANGED <<machine, faults>>
  BY DEF Begin
<1>9. QED
  BY <1>3, <1>4, <1>5, <1>6, <1>7, <1>8

(* Beginning a run of each kind.                                           *)
LEMMA OperatorKeeps ==
    ASSUME KeepGoing \subseteq {FALSE}, LifecycleIInv, Operator
    PROVE  LifecycleIInv'
<1>1. TypesInv /\ Sound /\ OutInv /\ MachineTypes
  BY TypesTogether DEF LifecycleIInv
<1>2. CASE BeginAddNode
  <2>1. PICK k \in KeepGoing :
           Begin("add-node", AddNodePipeline,
                 [keepGoing |-> k, draining |-> FALSE, approved |-> FALSE, able |-> TRUE])
    BY <1>2 DEF BeginAddNode
  <2>2. /\ run' \in RunType /\ run' # Idle
        /\ run'.what = "add-node" /\ run'.steps = AddNodePipeline
        /\ Here' = Place(AddNodePipeline)
        /\ ~run'.verifying /\ ~run'.keepGoing /\ ~run'.inCluster /\ ~run'.failed
        /\ run'.draining = FALSE
        /\ UNCHANGED <<machine, faults>>
    BY <2>1, Ways, Begun
  <2>3. InOrder(AddNodePipeline, AddOrder) /\ Here' = "check-cluster-online"
    BY <2>2, Ways
  <2>4. OnItsWay'
    BY <2>2, <2>3 DEF OnItsWay
  <2>5. ~out'
    BY <1>2 DEF BeginAddNode
  <2>6. out' \in BOOLEAN
    BY <1>2 DEF BeginAddNode
  <2>7. QED
    BY <2>2, <2>3, <2>4, <2>5, <2>6, BeginKeeps
<1>3. ASSUME NEW skipDrain \in BOOLEAN, BeginUninstall(skipDrain)
      PROVE  LifecycleIInv'
  <2>1. PICK able \in BOOLEAN : able <=> skipDrain \/ ~work.bound \/ k3s.active
    OBVIOUS
  <2>2. PICK draining \in BOOLEAN : draining <=> ~skipDrain
    OBVIOUS
  <2>3. PICK k \in KeepGoing :
           Begin("uninstall", UninstallPipeline(skipDrain),
                 [keepGoing |-> k, draining |-> draining, approved |-> FALSE, able |-> able])
    <3>1. draining = ~skipDrain /\ able = (skipDrain \/ ~work.bound \/ k3s.active)
      <4>1. k3s.active \in BOOLEAN /\ work.bound \in BOOLEAN
        BY <1>1 DEF MachineTypes
      <4>2. QED
        BY <2>1, <2>2, <4>1
    <3>2. QED
      BY <1>3, <3>1 DEF BeginUninstall
  <2>4. PICK steps \in Seq(StepName) :
           /\ steps = UninstallPipeline(skipDrain)
           /\ InOrder(steps, UninstallOrder(~skipDrain))
           /\ Place(steps) = "check-cluster-online"
    BY Ways
  <2>5. /\ run' \in RunType /\ run' # Idle
        /\ run'.what = "uninstall" /\ run'.steps = steps /\ Here' = Place(steps)
        /\ ~run'.verifying /\ ~run'.keepGoing /\ ~run'.inCluster /\ ~run'.failed
        /\ run'.draining = draining /\ run'.able = able
        /\ UNCHANGED <<machine, faults>>
    BY <2>3, <2>4, Begun
  <2>6. InOrder(steps, UninstallOrder(draining))
    BY <2>2, <2>4
  <2>7. OnItsWay'
    BY <2>5, <2>6 DEF OnItsWay
  <2>8. out' = out /\ out \in BOOLEAN
    BY <1>1, <1>3 DEF BeginUninstall, MachineTypes
  <2>9. run'.able /\ run'.draining => ~work.bound \/ k3s.active
    BY <2>1, <2>2, <2>5
  <2>10. QED
    BY <2>4, <2>5, <2>7, <2>8, <2>9, BeginKeeps
<1>4. ASSUME NEW full \in BOOLEAN, NEW yes \in BOOLEAN, BeginClean(full, yes)
      PROVE  LifecycleIInv'
  <2>1. out \in BOOLEAN
    BY <1>1 DEF MachineTypes
  <2>2. PICK able \in BOOLEAN : able = (out /\ (full => yes))
    BY <2>1
  <2>3. PICK approved \in BOOLEAN : approved = (full /\ yes)
    OBVIOUS
  <2>4. PICK k \in KeepGoing :
           Begin("clean", CleanPipeline(full),
                 [keepGoing |-> k, draining |-> FALSE, approved |-> approved, able |-> able])
    BY <1>4, <2>2, <2>3 DEF BeginClean
  <2>5. PICK steps \in Seq(StepName) :
           /\ steps = CleanPipeline(full)
           /\ InOrder(steps, CleanOrder(full))
           /\ Place(steps) = "check-ready-to-clean"
    BY Ways
  <2>6. /\ run' \in RunType /\ run' # Idle
        /\ run'.what = "clean" /\ run'.steps = steps /\ Here' = Place(steps)
        /\ ~run'.verifying /\ ~run'.keepGoing /\ ~run'.inCluster /\ ~run'.failed
        /\ run'.draining = FALSE /\ run'.approved = approved /\ run'.able = able
        /\ UNCHANGED <<machine, faults>>
    BY <2>4, <2>5, Begun
  <2>7. approved => full
    BY <2>3
  <2>8. able /\ full => approved
    BY <2>2, <2>3
  <2>9. OnItsWay'
    BY <2>5, <2>6, <2>7, <2>8 DEF OnItsWay
  <2>10. out' = out
    BY <1>4 DEF BeginClean
  <2>11. able => out
    BY <2>2
  <2>12. QED
    BY <2>1, <2>5, <2>6, <2>9, <2>10, <2>11, BeginKeeps
<1>5. CASE BeginBundle
  <2>1. PICK k \in KeepGoing, bundle \in {Drain, K3sUninstall, NodeRemoved, StorageRemove} :
           Begin("run-bundle", bundle,
                 [keepGoing |-> k, draining |-> FALSE, approved |-> FALSE, able |-> FALSE])
    BY <1>5 DEF BeginBundle
  <2>2. /\ InOrder(bundle, BundleOrder) /\ bundle \in Seq(StepName)
        /\ Place(bundle) \in {"check-node-in-cluster", "check-k3s-present", "remove-node",
                              "read-volume-groups"}
    BY Ways
  <2>3. /\ run' \in RunType /\ run' # Idle
        /\ run'.what = "run-bundle" /\ run'.steps = bundle /\ Here' = Place(bundle)
        /\ ~run'.verifying /\ ~run'.keepGoing /\ ~run'.inCluster /\ ~run'.failed
        /\ run'.able = FALSE
        /\ UNCHANGED <<machine, faults>>
    BY <2>1, <2>2, Begun
  <2>4. OnItsWay'
    BY <2>2, <2>3 DEF OnItsWay
  <2>5. out' = out /\ out \in BOOLEAN
    BY <1>1, <1>5 DEF BeginBundle, MachineTypes
  <2>6. QED
    BY <2>2, <2>3, <2>4, <2>5, BeginKeeps
<1>6. CASE StopByHand
  <2>1. /\ run' = Idle /\ k3s' = [k3s EXCEPT !.active = FALSE, !.connected = FALSE]
        /\ kept' = kept /\ work' = work /\ storage' = storage /\ object' = object
        /\ out' = out /\ faults' = faults
    BY <1>6 DEF StopByHand
  <2>2. MachineTypes' /\ Sound' /\ (Off => Off')
    BY <1>1, <2>1 DEF MachineTypes, Sound, Off
  <2>3. TypeOK'
    BY <2>1, <2>2 DEF MachineTypes, TypeOK, Idle
  <2>4. out' => Off' /\ object' = "absent"
    BY <1>1, <2>1, <2>2 DEF OutInv
  <2>5. QED
    BY <2>1, <2>2, <2>3, <2>4, NoRun
<1>7. QED
  BY <1>2, <1>3, <1>4, <1>5, <1>6 DEF Operator

(* A run that has done all its steps has what it was for, and is asked.    *)
LEMMA VerifyKeeps == ASSUME LifecycleIInv, Verify PROVE LifecycleIInv'
<1>1. MachineTypes /\ run \in RunType
  BY TypesTogether DEF LifecycleIInv
<1>2. PICK steps \in Seq(StepName) :
         /\ StartVerifying(steps)
         /\ Place(steps) \in {"check-cluster-online", "check-ready-to-clean"}
         /\ run.what \in {"add-node", "uninstall", "clean"}
         /\ run.what = "add-node" => InOrder(steps, AddOrder)
         /\ run.what = "uninstall" => InOrder(steps, UninstallOrder(run.draining))
         /\ run.what = "clean" => InOrder(steps, CleanOrder(run.approved))
  <2>1. CASE run.what = "add-node" /\ StartVerifying(AddNodePipeline)
    BY <2>1, Ways
  <2>2. CASE run.what = "uninstall" /\ StartVerifying(UninstallPipeline(~run.draining))
    <3>1. PICK skip \in BOOLEAN : skip = ~run.draining
      OBVIOUS
    <3>2. run.draining \in BOOLEAN
      BY <1>1 DEF RunType
    <3>3. run.draining = ~skip
      BY <3>1, <3>2
    <3>4. /\ InOrder(UninstallPipeline(skip), UninstallOrder(~skip))
          /\ UninstallPipeline(skip) \in Seq(StepName)
          /\ Place(UninstallPipeline(skip)) = "check-cluster-online"
      BY Ways
    <3>5. InOrder(UninstallPipeline(skip), UninstallOrder(run.draining))
      BY <3>3, <3>4, Zenon
    <3>6. StartVerifying(UninstallPipeline(skip))
      BY <2>2, <3>1, Zenon
    <3>7. QED
      BY <2>2, <3>4, <3>5, <3>6
  <2>3. CASE run.what = "clean" /\ StartVerifying(CleanPipeline(run.approved))
    <3>1. run.approved \in BOOLEAN
      BY <1>1 DEF RunType
    <3>2. QED
      BY <2>3, <3>1, Ways
  <2>4. QED
    BY <2>1, <2>2, <2>3 DEF Verify
<1>3. /\ run' = [run EXCEPT !.verifying = TRUE, !.keepGoing = TRUE, !.steps = steps,
                            !.inCluster = FALSE, !.installed = FALSE, !.owned = FALSE]
      /\ run.steps = <<>> /\ ~run.failed /\ ~run.verifying /\ run # Idle
      /\ UNCHANGED <<machine, out, faults>>
  BY <1>2 DEF StartVerifying
<1>4. /\ run'.what = run.what /\ run'.steps = steps /\ run'.verifying
      /\ run'.draining = run.draining /\ run'.approved = run.approved
      /\ run'.able = run.able /\ ~run'.failed /\ ~run'.inCluster
      /\ run' \in RunType
  BY <1>1, <1>2, <1>3 DEF RunType
<1>5. Here = "end" /\ Here' = Place(steps) /\ run' # Idle
  <2>1. Here = "end"
    BY <1>3 DEF Here, Place
  <2>2. Here' = Place(steps)
    BY <1>4 DEF Here, Place
  <2>3. run' # Idle
    BY <1>4 DEF Idle
  <2>4. QED
    BY <2>1, <2>2, <2>3
<1>6. OnItsWay'
  <2>1. run.approved \in BOOLEAN
    BY <1>1 DEF RunType
  <2>2. QED
    BY <1>2, <1>4, <1>5, <2>1 DEF OnItsWay
<1>7. /\ k3s' = k3s /\ kept' = kept /\ work' = work /\ storage' = storage /\ object' = object
      /\ out' = out /\ faults' = faults
  BY <1>3 DEF machine
<1>8. TypesInv' /\ Sound' /\ (Off <=> Off')
  BY <1>1, <1>4, <1>7
     DEF LifecycleIInv, TypesInv, TypeOK, MachineTypes, Sound, Off, RunType, Idle
<1>9. OutInv' /\ AddInv' /\ DrainInv' /\ TakeOffInv' /\ UninstallInv' /\ CleanInv'
  BY <1>2, <1>3, <1>4, <1>5, <1>7, <1>8
     DEF LifecycleIInv, OutInv, AddInv, DrainInv, TakeOffInv, UninstallInv, CleanInv,
         StorageSteps
<1>10. RerunSucceeds'
  BY <1>4 DEF RerunSucceeds
<1>11. QED
  BY <1>6, <1>8, <1>9, <1>10 DEF LifecycleIInv

(* A run ends, or is abandoned.                                            *)
LEMMA EndKeeps == ASSUME LifecycleIInv, Ends \/ Abandon PROVE LifecycleIInv'
<1>1. MachineTypes /\ Sound /\ OutInv
  BY TypesTogether DEF LifecycleIInv
<1>2. run' = Idle /\ UNCHANGED machine
  BY DEF Ends, Abandon
<1>3. k3s' = k3s /\ kept' = kept /\ work' = work /\ storage' = storage /\ object' = object
  BY <1>2 DEF machine
<1>4. Sound' /\ (Off <=> Off')
  BY <1>1, <1>3 DEF Sound, Off
<1>5. faults' \in 0..MaxFaults
  <2>1. faults \in 0..MaxFaults /\ MaxFaults \in Nat
    BY <1>1, ConstantsAssumption DEF MachineTypes
  <2>2. faults' = faults \/ (faults < MaxFaults /\ faults' = faults + 1)
    BY DEF Ends, Abandon, Fault
  <2>3. QED
    BY <2>1, <2>2
<1>6. out' \in BOOLEAN /\ (out' => out \/ (Off /\ object = "absent"))
  <2>1. CASE Ends
    <3>1. /\ run.steps = <<>>
          /\ out' = (out \/ (run.what = "uninstall" /\ ~run.failed))
      BY <2>1 DEF Ends
    <3>2. Here = "end"
      BY <3>1 DEF Here, Place
    <3>3. run.what = "uninstall" /\ ~run.failed => Off /\ object = "absent"
      BY <3>2 DEF LifecycleIInv, UninstallInv
    <3>4. QED
      BY <3>1, <3>3
  <2>2. CASE Abandon
    BY <1>1, <2>2 DEF Abandon, MachineTypes
  <2>3. QED
    BY <2>1, <2>2
<1>7. out' => Off' /\ object' = "absent"
  BY <1>1, <1>3, <1>4, <1>6 DEF OutInv
<1>8. TypeOK'
  BY <1>1, <1>2, <1>3, <1>5, <1>6 DEF MachineTypes, TypeOK, Idle
<1>9. QED
  BY <1>2, <1>4, <1>7, <1>8, NoRun

(* A step that breaks before it did anything.                              *)
LEMMA StepBreaksKeeps == ASSUME LifecycleIInv, StepBreaks PROVE LifecycleIInv'
<1>1. faults \in 0..MaxFaults /\ MaxFaults \in Nat
  BY ConstantsAssumption DEF LifecycleIInv, TypesInv, TypeOK
<1>2. faults < MaxFaults /\ faults' = faults + 1
  BY DEF StepBreaks, Fault
<1>3. faults' \in 0..MaxFaults
  BY <1>1, <1>2
<1>4. run.steps # <<>> /\ FailsWith(TRUE) /\ UNCHANGED <<machine, out>>
  BY DEF StepBreaks
<1>5. run.able => run.faulted \/ TRUE
  OBVIOUS
<1>6. QED
  BY <1>3, <1>4, <1>5, JustFails

-----------------------------------------------------------------------------
(* What goes on around a run                                               *)

(* A run that does nothing stays where it is.                              *)
LEMMA StaysPut ==
    ASSUME LifecycleIInv, run' = run
    PROVE  OnItsWay' /\ RerunSucceeds' /\ Here' = Here /\ run' \in RunType
<1>1. OnItsWay'
  BY DEF LifecycleIInv, OnItsWay
<1>2. RerunSucceeds' /\ Here' = Here /\ run' \in RunType
  BY DEF LifecycleIInv, RerunSucceeds, Here, TypesInv
<1>3. QED
  BY <1>1, <1>2

(* The agent joins, and its pods come and go.                              *)
LEMMA ClusterKeeps ==
    ASSUME LifecycleIInv, Joins \/ Schedule \/ StartPods \/ StopPods
    PROVE  LifecycleIInv'
<1>1. MachineTypes /\ Sound
  BY TypesTogether DEF LifecycleIInv
<1>2. run' = run /\ out' = out /\ faults' = faults
  BY DEF Joins, Schedule, StartPods, StopPods
<1>3. OnItsWay' /\ RerunSucceeds' /\ Here' = Here /\ run' \in RunType
  BY <1>2, StaysPut
<1>4. k3s.active
  BY <1>1 DEF Joins, Schedule, StartPods, StopPods, Sound
<1>5. ~Off /\ ~out
  BY <1>4 DEF LifecycleIInv, OutInv, Off
<1>6. /\ MachineTypes' /\ Sound'
      /\ k3s'.active /\ k3s'.unit = k3s.unit /\ k3s'.binary = k3s.binary
      /\ storage'.group = storage.group
      /\ object # "absent" => object' = object
      /\ Drained => Drained'
      /\ ~work'.bound \/ k3s'.active
  <2>1. CASE Joins
    <3>1. /\ k3s' = [k3s EXCEPT !.connected = TRUE]
          /\ kept' = [dirs |-> TRUE, credentials |-> TRUE]
          /\ object' = IF object = "absent" THEN "schedulable" ELSE object
          /\ work' = work /\ storage' = storage
      BY <2>1 DEF Joins
    <3>2. kept' \in [dirs : BOOLEAN, credentials : BOOLEAN]
      BY <3>1
    <3>3. object' \in {"absent", "schedulable", "cordoned"}
      BY <1>1, <3>1 DEF MachineTypes
    <3>4. k3s' \in [unit : BOOLEAN, enabled : BOOLEAN, binary : BOOLEAN, killall : BOOLEAN,
                    active : BOOLEAN, connected : BOOLEAN]
          /\ k3s'.active = k3s.active /\ k3s'.unit = k3s.unit /\ k3s'.binary = k3s.binary
          /\ k3s'.enabled = k3s.enabled /\ k3s'.killall = k3s.killall
      BY <1>1, <3>1 DEF MachineTypes
    <3>5. MachineTypes'
      BY <1>1, <1>2, <3>1, <3>2, <3>3, <3>4 DEF MachineTypes
    <3>6. Sound'
      BY <1>1, <1>4, <3>1, <3>4 DEF Sound
    <3>7. Drained => Drained'
      BY <3>1 DEF Drained
    <3>8. QED
      BY <1>4, <3>1, <3>4, <3>5, <3>6, <3>7
  <2>2. CASE Schedule
    BY <1>1, <1>2, <1>4, <2>2 DEF Schedule, MachineTypes, Sound, Drained
  <2>3. CASE StartPods
    BY <1>1, <1>2, <1>4, <2>3 DEF StartPods, MachineTypes, Sound, Drained
  <2>4. CASE StopPods
    <3>1. work' = [bound |-> FALSE, containers |-> FALSE, mounted |-> FALSE]
      BY <2>4 DEF StopPods, NoWork
    <3>2. work' \in [bound : BOOLEAN, containers : BOOLEAN, mounted : BOOLEAN]
      BY <3>1
    <3>3. QED
      BY <1>1, <1>2, <1>4, <2>4, <3>1, <3>2 DEF StopPods, MachineTypes, Sound, Drained
  <2>5. QED
    BY <2>1, <2>2, <2>3, <2>4
<1>7. OutInv' /\ AddInv'
  BY <1>2, <1>5, <1>6 DEF OutInv, AddInv
<1>8. DrainInv'
  BY <1>2, <1>3, <1>6 DEF LifecycleIInv, DrainInv, Drained
<1>9. TakeOffInv'
  BY <1>2, <1>3, <1>4, <1>5, <1>6 DEF LifecycleIInv, TakeOffInv, Present
<1>10. UninstallInv'
  BY <1>2, <1>3, <1>5 DEF LifecycleIInv, UninstallInv
<1>11. CleanInv'
  BY <1>2, <1>3, <1>4, <1>5, <1>6 DEF LifecycleIInv, CleanInv
<1>12. TypesInv'
  BY <1>3, <1>6 DEF TypesInv, TypeOK, MachineTypes, RunType, Idle
<1>13. QED
  BY <1>3, <1>6, <1>7, <1>8, <1>9, <1>10, <1>11, <1>12 DEF LifecycleIInv

(* The machine restarts.                                                   *)
LEMMA RebootKeeps == ASSUME LifecycleIInv, Reboot PROVE LifecycleIInv'
<1>1. MachineTypes /\ Sound /\ OutInv /\ run \in RunType /\ OnItsWay
  BY TypesTogether DEF LifecycleIInv
<1>2. /\ k3s' = [k3s EXCEPT !.active = k3s.unit /\ k3s.enabled /\ k3s.binary,
                            !.connected = FALSE]
      /\ work' = [work EXCEPT !.containers = FALSE, !.mounted = FALSE]
      /\ kept' = kept /\ storage' = storage /\ object' = object /\ out' = out
  BY DEF Reboot
<1>3. faults' \in 0..MaxFaults
  <2>1. faults \in 0..MaxFaults /\ MaxFaults \in Nat
    BY <1>1, ConstantsAssumption DEF MachineTypes
  <2>2. faults < MaxFaults /\ faults' = faults + 1
    BY DEF Reboot, Fault
  <2>3. QED
    BY <2>1, <2>2
<1>4. MachineTypes' /\ Sound' /\ (Off => Off')
  <2>1. /\ k3s' \in [unit : BOOLEAN, enabled : BOOLEAN, binary : BOOLEAN, killall : BOOLEAN,
                     active : BOOLEAN, connected : BOOLEAN]
        /\ k3s'.active = (k3s.unit /\ k3s.enabled /\ k3s.binary)
        /\ k3s'.unit = k3s.unit /\ k3s'.binary = k3s.binary
        /\ k3s'.enabled = k3s.enabled /\ k3s'.killall = k3s.killall /\ ~k3s'.connected
    <3>1. k3s \in [unit : BOOLEAN, enabled : BOOLEAN, binary : BOOLEAN, killall : BOOLEAN,
                   active : BOOLEAN, connected : BOOLEAN]
      BY <1>1 DEF MachineTypes
    <3>2. PICK active \in BOOLEAN : active = (k3s.unit /\ k3s.enabled /\ k3s.binary)
      OBVIOUS
    <3>3. k3s' = [k3s EXCEPT !.active = active, !.connected = FALSE]
      BY <1>2, <3>2
    <3>4. QED
      BY <3>1, <3>2, <3>3
  <2>2. /\ work' \in [bound : BOOLEAN, containers : BOOLEAN, mounted : BOOLEAN]
        /\ ~work'.containers /\ ~work'.mounted
    BY <1>1, <1>2 DEF MachineTypes
  <2>3. QED
    BY <1>1, <1>2, <1>3, <2>1, <2>2 DEF MachineTypes, Sound, Off
<1>5. out' => Off' /\ object' = "absent"
  BY <1>1, <1>2, <1>4 DEF OutInv
<1>6. CASE run = Idle
  <2>1. run' = Idle
    BY <1>6 DEF Reboot
  <2>2. TypeOK'
    BY <1>4, <2>1 DEF MachineTypes, TypeOK, Idle
  <2>3. QED
    BY <1>4, <1>5, <2>1, <2>2, NoRun
<1>7. CASE run # Idle
  <2>1. run' = [run EXCEPT !.failed = TRUE, !.faulted = TRUE, !.steps = <<>>]
    BY <1>7 DEF Reboot
  <2>2. run.what # "nothing"
    BY <1>1, <1>7 DEF OnItsWay
  <2>3. TypeOK'
    <3>1. run'.what = run.what /\ DOMAIN run' = DOMAIN run
      BY <1>1, <2>1 DEF RunType
    <3>2. QED
      BY <1>1, <1>4, <3>1 DEF LifecycleIInv, TypesInv, MachineTypes, TypeOK
  <2>4. QED
    BY <1>2, <1>4, <1>5, <2>1, <2>2, <2>3, Stops
<1>8. QED
  BY <1>6, <1>7

(* Every step keeps it.                                                    *)
LEMMA LifecycleNext ==
    ASSUME KeepGoing \subseteq {FALSE}, LifecycleIInv, [Next]_vars
    PROVE  LifecycleIInv'
<1>1. CASE PassOver
  BY <1>1, PassOverKeeps
<1>2. CASE CheckClusterOnline
  BY <1>2, LookKeeps
<1>3. CASE AddNodeStep
  BY <1>3, InstallKeeps, LookKeeps DEF AddNodeStep
<1>4. CASE UninstallStep
  <2>1. CASE VerifyNodeDrained
    BY <2>1, LookKeeps, FindKeeps DEF VerifyNodeDrained
  <2>2. CASE VerifyNodeRemoved
    BY <2>2, LookKeeps, FindKeeps DEF VerifyNodeRemoved
  <2>3. CASE CheckNodeInCluster \/ CheckK3sPresent
    BY <2>3, FindKeeps
  <2>4. CASE CordonNode \/ DrainNode
    BY <2>4, DrainKeeps
  <2>5. CASE StopK3s \/ RemoveK3s
    BY <2>5, TakeOffKeeps
  <2>6. CASE VerifyK3sRemoved
    BY <2>6, LookKeeps
  <2>7. CASE RemoveNode
    BY <2>7, RemoveNodeKeeps
  <2>8. QED
    BY <1>4, <2>1, <2>2, <2>3, <2>4, <2>5, <2>6, <2>7 DEF UninstallStep
<1>5. CASE CleanStep
  <2>1. CASE CheckReadyToClean \/ VerifyClean \/ CheckStorageApproved
                \/ VerifyVolumeGroupsRemoved
    BY <2>1, LookKeeps
  <2>2. CASE RemoveK3sState \/ RemoveVolumeGroups
    BY <2>2, CleanKeeps
  <2>3. CASE ReadVolumeGroups
    BY <2>3, FindKeeps
  <2>4. QED
    BY <1>5, <2>1, <2>2, <2>3 DEF CleanStep
<1>6. CASE Verify
  BY <1>6, VerifyKeeps
<1>7. CASE Ends \/ Abandon
  BY <1>7, EndKeeps
<1>8. CASE StepBreaks
  BY <1>8, StepBreaksKeeps
<1>9. CASE Operator
  BY <1>9, OperatorKeeps
<1>10. CASE Joins \/ Schedule \/ StartPods \/ StopPods
  BY <1>10, ClusterKeeps
<1>11. CASE Reboot
  BY <1>11, RebootKeeps
<1>12. CASE UNCHANGED vars
  <2>1. /\ k3s' = k3s /\ kept' = kept /\ work' = work /\ storage' = storage
        /\ object' = object /\ run' = run /\ out' = out /\ faults' = faults
    BY <1>12 DEF vars
  <2>2. OnItsWay' /\ RerunSucceeds' /\ Here' = Here
    BY <2>1, StaysPut
  <2>3. TypesInv' /\ Sound' /\ (Off <=> Off') /\ (Drained <=> Drained')
        /\ (Present <=> Present')
    BY <2>1 DEF LifecycleIInv, TypesInv, TypeOK, Sound, Off, Drained, Present
  <2>4. OutInv' /\ AddInv' /\ DrainInv' /\ UninstallInv'
    BY <2>1, <2>2, <2>3 DEF LifecycleIInv, OutInv, AddInv, DrainInv, UninstallInv
  <2>5. TakeOffInv' /\ CleanInv'
    BY <2>1, <2>2 DEF LifecycleIInv, TakeOffInv, CleanInv, Off, Present
  <2>6. QED
    BY <2>2, <2>3, <2>4, <2>5 DEF LifecycleIInv
<1>13. QED
  BY <1>1, <1>2, <1>3, <1>4, <1>5, <1>6, <1>7, <1>8, <1>9, <1>10, <1>11, <1>12 DEF Next, Run

(* A machine nothing was done to yet has it.                               *)
LEMMA LifecycleInit == Init => LifecycleIInv
<1>1. SUFFICES ASSUME Init PROVE LifecycleIInv
  OBVIOUS
<1>2. /\ run.what = "nothing" /\ run.steps = <<>> /\ ~run.verifying /\ ~run.keepGoing
      /\ ~run.inCluster /\ ~run.installed /\ ~run.owned /\ ~run.able /\ ~run.failed
      /\ ~run.draining /\ run = Idle /\ ~out
  BY <1>1 DEF Init, Idle
<1>3. run \in RunType
  BY <1>1 DEF Init, Idle, RunType
<1>4. Here = "end"
  BY <1>2 DEF Here, Place
<1>5. MachineTypes /\ Sound
  <2>1. /\ k3s \in [unit : BOOLEAN, enabled : BOOLEAN, binary : BOOLEAN, killall : BOOLEAN,
                    active : BOOLEAN, connected : BOOLEAN]
        /\ ~k3s.unit /\ ~k3s.active /\ ~k3s.connected
    BY <1>1 DEF Init, NoK3s
  <2>2. /\ work \in [bound : BOOLEAN, containers : BOOLEAN, mounted : BOOLEAN]
        /\ ~work.containers /\ ~work.mounted
    BY <1>1 DEF Init, NoWork
  <2>3. /\ kept \in [dirs : BOOLEAN, credentials : BOOLEAN]
        /\ storage \in [group : BOOLEAN, data : BOOLEAN] /\ ~storage.data
        /\ object = "absent" /\ out \in BOOLEAN
    BY <1>1 DEF Init
  <2>4. faults \in 0..MaxFaults
    BY <1>1, ConstantsAssumption DEF Init
  <2>5. MachineTypes
    BY <2>1, <2>2, <2>3, <2>4 DEF MachineTypes
  <2>6. Sound
    BY <2>1, <2>2 DEF Sound
  <2>7. QED
    BY <2>5, <2>6
<1>6. TypesInv /\ OnItsWay
  BY <1>2, <1>3, <1>5, TypesTogether DEF OnItsWay
<1>7. OutInv /\ AddInv /\ DrainInv /\ TakeOffInv /\ UninstallInv /\ CleanInv /\ RerunSucceeds
  BY <1>2, <1>4
     DEF OutInv, AddInv, DrainInv, TakeOffInv, UninstallInv, CleanInv, RerunSucceeds,
         StorageSteps
<1>8. QED
  BY <1>5, <1>6, <1>7 DEF LifecycleIInv

(* However many things go wrong, in whatever order runs are begun and left *)
(* behind, a node that was taken out stays out and no later run is in its  *)
(* way, so long as a run stops at its first failure, as it does without    *)
(* --keep-going (runners/addNode.ts, uninstall.ts, clean.ts).              *)
THEOREM LifecycleHolds ==
    ASSUME KeepGoing \subseteq {FALSE} PROVE Spec => []LifecycleInv
<1>1. Init => LifecycleIInv
  BY LifecycleInit
<1>2. LifecycleIInv /\ [Next]_vars => LifecycleIInv'
  BY LifecycleNext
<1>3. LifecycleIInv => LifecycleInv
  BY DEF LifecycleIInv, LifecycleInv, TypesInv, OutInv, Off, StaysOut
<1>4. QED
  BY <1>1, <1>2, <1>3, PTL DEF Spec

(* What a step does to what is stored.                                     *)
LEMMA DataStays ==
    ASSUME LifecycleIInv, [Next]_vars, storage.data, ~storage'.data
    PROVE  run.approved /\ At("remove-volume-groups")
<1>1. MachineTypes /\ TypesInv /\ OnItsWay
  BY TypesTogether DEF LifecycleIInv
<1>2. storage \in [group : BOOLEAN, data : BOOLEAN]
  BY <1>1 DEF MachineTypes
<1>3. CASE CreateVolumeGroups
  BY <1>2, <1>3 DEF CreateVolumeGroups
<1>4. CASE StartPods
  BY <1>2, <1>4 DEF StartPods
<1>5. CASE RemoveK3sState
  <2>1. Here = "remove-k3s-state" /\ ~run.verifying
    BY <1>5 DEF RemoveK3sState, Doing, At, Here, Place, Prompt
  <2>2. ~work.mounted
    BY <2>1 DEF LifecycleIInv, CleanInv
  <2>3. storage' = [storage EXCEPT !.data = @ /\ ~work.mounted]
    BY <1>5 DEF RemoveK3sState
  <2>4. QED
    BY <1>2, <2>2, <2>3
<1>6. CASE RemoveVolumeGroups
  BY <1>6 DEF RemoveVolumeGroups, Doing, NothingToDo
<1>7. storage' # storage
  OBVIOUS
<1>8. ~(UNCHANGED vars)
  BY <1>7 DEF vars
<1>9. ~(PassOver \/ CheckClusterOnline \/ Verify \/ Ends \/ StepBreaks \/ Abandon)
  BY <1>7 DEF PassOver, CheckClusterOnline, Checks, Verify, StartVerifying, Ends, StepBreaks,
              Abandon, machine
<1>10. ~(InstallK3sAgent \/ WaitForK3s \/ VerifyK3s \/ CheckClusterAccess \/ VerifyNodeReady)
  BY <1>7 DEF InstallK3sAgent, WaitForK3s, VerifyK3s, CheckClusterAccess, VerifyNodeReady,
              WaitsFor, machine
<1>11. ~UninstallStep
  BY <1>7 DEF UninstallStep, CheckNodeInCluster, CordonNode, DrainNode, VerifyNodeDrained,
              CheckK3sPresent, StopK3s, RemoveK3s, VerifyK3sRemoved, RemoveNode,
              VerifyNodeRemoved, Checks, machine
<1>12. ~(CheckReadyToClean \/ VerifyClean \/ ReadVolumeGroups \/ CheckStorageApproved
            \/ VerifyVolumeGroupsRemoved)
  BY <1>7 DEF CheckReadyToClean, VerifyClean, ReadVolumeGroups, CheckStorageApproved,
              VerifyVolumeGroupsRemoved, Checks, machine
<1>13. ~(Operator \/ Joins \/ Schedule \/ StopPods \/ Reboot)
  BY <1>7 DEF Operator, BeginAddNode, BeginUninstall, BeginClean, BeginBundle, Begin, StopByHand,
              Joins, Schedule, StopPods, Reboot, machine
<1>14. QED
  BY <1>3, <1>4, <1>5, <1>6, <1>8, <1>9, <1>10, <1>11, <1>12, <1>13
     DEF Next, Run, AddNodeStep, CleanStep

(* Neither data nor pods are lost to the removal of a node, for any number *)
(* of faults.                                                              *)
THEOREM NothingIsLost ==
    ASSUME KeepGoing \subseteq {FALSE} PROVE Spec => NothingLost
<1>1. LifecycleIInv /\ [Next]_vars =>
         [storage.data /\ ~storage'.data =>
             run.approved /\ At("remove-volume-groups")]_vars
  BY DataStays
<1>2. LifecycleIInv =>
         [Doing("stop-k3s") /\ StopK3s /\ run.draining /\ run.inCluster
             => ~work.containers]_vars
  <2>1. SUFFICES ASSUME LifecycleIInv, Doing("stop-k3s"), run.draining, run.inCluster
                 PROVE  ~work.containers
    OBVIOUS
  <2>2. Here = "stop-k3s" /\ ~run.verifying
    BY <2>1 DEF Doing, At, Here, Place, Prompt
  <2>3. QED
    BY <2>1, <2>2 DEF LifecycleIInv, DrainInv, Drained
<1>3. Init => LifecycleIInv
  BY LifecycleInit
<1>4. LifecycleIInv /\ [Next]_vars => LifecycleIInv'
  BY LifecycleNext
<1>5. QED
  BY <1>1, <1>2, <1>3, <1>4, PTL DEF Spec, NothingLost, DataKept, MovedNotDropped

-----------------------------------------------------------------------------
(* A configuration, gone through again                                     *)

\* How a section leaves its says.
Written(s, says) ==
    CASE s = "cluster"  -> says.hosts \in [Service -> Domain]
      [] s = "network"  -> /\ says.congestion # None /\ says.kubeProxy # None
                           /\ says.congestion = "bbr" => says.qdisc = "fq"
      [] s = "storage"  -> says \in [Claim -> Size]
      [] s = "packages" -> \A p \in Catalogue :
                              says.chosen[p] \in {None, "true", "enabled", "disabled"}
      [] OTHER          -> TRUE

\* What a section doesn't ask about is still there.
Beside(s, old, new) ==
    CASE s = "network"    -> new.addresses = old.addresses
      [] s = "registries" -> \A h \in Host : old[h].more => new[h].more
      [] s = "packages"   -> \A p \in Package :
             /\ old.chosen[p] \in {"enabled", "disabled"} => new.chosen[p] \in {"enabled", "disabled"}
             /\ p \notin Catalogue => new.chosen[p] = old.chosen[p]
      [] OTHER            -> TRUE

\* No node was taken out, and what each says beside is still there.
NodesBeside(old, new) ==
    /\ Len(old) <= Len(new)
    /\ \A i \in DOMAIN old :
          /\ new[i].fixed = old[i].fixed
          /\ old[i].labels = "map" => new[i].labels = "map"

\* Every gateway is one by its role.
ByRole(nodes) == \A i \in DOMAIN nodes : nodes[i].gateway => "gateway" \in nodes[i].roles

AllKept(s, old, new) == Kept(s, old, new) /\ (s = "nodes" => Len(new) = Len(old))

WellSaid(d) == Problems(d) = {} /\ ByRole(d.nodes)

\* What was loaded, and what a session has made of it since.
SessionInv ==
    LET old == session.loaded
        new == session.draft
    IN  /\ \A s \in Sections \ session.ran : new[s] = old[s]
        /\ \A s \in wrote : Written(s, old[s])
        /\ \A s \in wrote \union session.ran : Written(s, new[s])
        /\ session.entered => \A s \in wrote \intersect session.ran : AllKept(s, old[s], new[s])
        /\ \A s \in Sections : Beside(s, old[s], new[s])
        /\ ~removed => NodesBeside(old.nodes, new.nodes)
        /\ "packages" \in session.ran => Enabled(new.packages.chosen) \intersect Catalogue = ticked
        /\ session.entered /\ WellSaid(old) => WellSaid(new)

ConfigureTypes ==
    /\ file \in [is : {"missing", "broken", "config"}, draft : DraftType]
    /\ session \in [at : {"closed", "open", "writing"}, mode : {"walk", "menu"}, draft : DraftType,
                    loaded : DraftType, ran : SUBSET Sections, entered : BOOLEAN]
    /\ WellMade(file.draft) /\ WellMade(session.draft) /\ WellMade(session.loaded)
    /\ subject \in Sections /\ runs \in 0..MaxRuns
    /\ wrote \subseteq Sections /\ ticked \subseteq Catalogue /\ removed \in BOOLEAN

ConfigureIInv ==
    /\ ConfigureTypes
    /\ session.at = "writing" => file = Broken
    /\ file.is # "broken" => \A s \in wrote : Written(s, file.draft[s])
    /\ session.at # "closed" => SessionInv

LEMMA SectionsAre ==
    Sections = {"cluster", "nodes", "network", "storage", "k3s", "registries", "packages", "mail"}
<1>1. Sections = {Section[i] : i \in 1..8}
  BY DEF Sections, Section
<1> QED
  BY <1>1 DEF Section

\* The hostnames are under some domain once they were asked about, and are then
\* what is offered.
LEMMA ClusterAnswers ==
    ASSUME NEW c \in ClusterType, NEW o \in ClusterOutcomes(c)
    PROVE  /\ o.is \in ClusterType /\ o.enter \in BOOLEAN
           /\ Written("cluster", o.is)
           /\ o.enter /\ Written("cluster", c) => o.is = c
<1>1. PICK m \in Domain, derived \in BOOLEAN, asked \in [Service -> Domain] :
         o = ClusterAnswered(c, m, derived, asked)
  BY DEF ClusterOutcomes
<1>2. /\ o.is = [main  |-> m,
                 hosts |-> [s \in Service |-> IF derived /\ c.hosts[s] = None THEN m ELSE asked[s]]]
      /\ o.enter \in BOOLEAN
      /\ o.enter => /\ m = c.main
                    /\ derived = (c.hosts["auth"] = None)
                    /\ \A s \in Service : asked[s] = IF c.hosts[s] # None THEN c.hosts[s] ELSE m
  BY <1>1 DEF ClusterAnswered
<1>3. o.is.hosts \in [Service -> Domain]
  BY <1>2
<1>4. o.is \in ClusterType /\ o.enter \in BOOLEAN
  <2>1. o.is = [main |-> m, hosts |-> o.is.hosts]
    BY <1>2
  <2>2. o.is.hosts \in [Service -> Domain \union {None}]
    BY <1>3
  <2> QED
    BY <1>2, <2>1, <2>2 DEF ClusterType
<1>5. ASSUME o.enter, Written("cluster", c)
      PROVE  o.is = c
  <2>1. c.hosts \in [Service -> Domain]
    BY <1>5 DEF Written
  <2>2. \A s \in Service : c.hosts[s] # None
    BY <2>1, AnswersAssumption
  <2>3. \A s \in Service : o.is.hosts[s] = c.hosts[s]
    BY <1>2, <1>5, <2>2
  <2>4. o.is.hosts = c.hosts
    BY <1>3, <2>1, <2>3
  <2> QED
    BY <1>2, <1>5, <2>4 DEF ClusterType
<1> QED
  BY <1>3, <1>4, <1>5 DEF Written

LEMMA NetworkAnswers ==
    ASSUME NEW n \in NetworkType, NEW o \in NetworkOutcomes(n)
    PROVE  /\ o.is \in NetworkType /\ o.enter \in BOOLEAN
           /\ Written("network", o.is) /\ Beside("network", n, o.is)
           /\ o.enter /\ Written("network", n) => o.is = n
           /\ o.enter => (o.is.mesh # None) = (n.mesh # None) /\ o.is.apiKey = n.apiKey
<1>1. PICK c \in {"bbr", "cubic"}, k \in {"replaced", "usual"}, joins \in BOOLEAN, key \in BOOLEAN :
         o = NetworkAnswered(n, c, k, joins, key)
  BY DEF NetworkOutcomes
<1>2. /\ o.is = [n EXCEPT !.congestion = c, !.qdisc = Qdisc(n, c), !.kubeProxy = k,
                          !.mesh = IF joins THEN "mesh" ELSE @, !.apiKey = @ \/ (joins /\ key)]
      /\ o.enter \in BOOLEAN
      /\ o.enter => /\ c = OfferedCongestion(n)
                    /\ k = (IF n.kubeProxy = None THEN "replaced" ELSE n.kubeProxy)
                    /\ joins = (n.mesh # None) /\ ~key
  BY <1>1 DEF NetworkAnswered
<1>3. o.is = [congestion |-> c, qdisc |-> Qdisc(n, c), kubeProxy |-> k,
              mesh |-> IF joins THEN "mesh" ELSE n.mesh, apiKey |-> n.apiKey \/ (joins /\ key),
              addresses |-> n.addresses]
  BY <1>2 DEF NetworkType
<1>4. Qdisc(n, c) \in STRING
  BY LiteralsAssumption DEF NetworkType, Qdisc
<1>5. o.is \in NetworkType /\ o.enter \in BOOLEAN
  BY <1>2, <1>3, <1>4 DEF NetworkType
<1>6. Written("network", o.is) /\ Beside("network", n, o.is)
  <2>1. o.is.congestion = c /\ o.is.kubeProxy = k /\ o.is.qdisc = Qdisc(n, c)
        /\ o.is.addresses = n.addresses
    BY <1>3
  <2>2. c # None /\ k # None /\ (c = "bbr" => Qdisc(n, c) = "fq")
    BY DEF None, Qdisc
  <2> QED
    BY <2>1, <2>2 DEF Written, Beside
<1>7. ASSUME o.enter
      PROVE  (o.is.mesh # None) = (n.mesh # None) /\ o.is.apiKey = n.apiKey
  BY <1>2, <1>3, <1>7 DEF NetworkType, None
<1>8. ASSUME o.enter, Written("network", n)
      PROVE  o.is = n
  <2>1. n = [congestion |-> n.congestion, qdisc |-> n.qdisc, kubeProxy |-> n.kubeProxy,
             mesh |-> n.mesh, apiKey |-> n.apiKey, addresses |-> n.addresses]
    BY DEF NetworkType
  <2>2. c = n.congestion /\ k = n.kubeProxy
    BY <1>2, <1>8 DEF Written, OfferedCongestion
  <2>3. Qdisc(n, c) = n.qdisc
    BY <1>8, <2>2 DEF Written, Qdisc
  <2>4. o.is.mesh = n.mesh /\ o.is.apiKey = n.apiKey
    BY <1>2, <1>3, <1>8 DEF NetworkType, None
  <2> QED
    BY <1>3, <2>1, <2>2, <2>3, <2>4
<1> QED
  BY <1>5, <1>6, <1>7, <1>8

LEMMA StorageAnswers ==
    ASSUME NEW s \in StorageType, NEW o \in StorageOutcomes(s)
    PROVE  /\ o.is \in StorageType /\ o.enter \in BOOLEAN
           /\ Written("storage", o.is)
           /\ o.enter /\ Written("storage", s) => o.is = s
<1>1. PICK sizes \in [Claim -> Size] : o = [is |-> sizes, enter |-> sizes = OfferedSizes(s)]
  BY DEF StorageOutcomes
<1>2. o.is \in StorageType /\ o.enter \in BOOLEAN /\ Written("storage", o.is)
  BY <1>1 DEF StorageType, Written
<1>3. ASSUME o.enter, Written("storage", s)
      PROVE  o.is = s
  <2>1. s \in [Claim -> Size]
    BY <1>3 DEF Written
  <2>2. \A c \in Claim : s[c] # -1 /\ s[c] # 0
    BY <2>1 DEF Size
  <2>3. OfferedSizes(s) = [c \in Claim |-> s[c]]
    BY <2>2 DEF OfferedSizes
  <2> QED
    BY <1>1, <1>3, <2>1, <2>3
<1> QED
  BY <1>2, <1>3

LEMMA K3sAnswers ==
    ASSUME NEW token \in STRING, NEW o \in K3sOutcomes(token)
    PROVE  /\ o.is \in STRING /\ o.enter \in BOOLEAN
           /\ o.enter /\ token # None => o.is = token
<1>1. \/ token # None /\ o = [is |-> token, enter |-> TRUE]
      \/ \E t \in {"generated", "pasted", None} :
            o = [is |-> t, enter |-> token = None /\ t = "generated"]
  BY DEF K3sOutcomes
<1> QED
  <2>1. CASE token # None /\ o = [is |-> token, enter |-> TRUE]
    BY <2>1
  <2>2. ASSUME NEW t \in {"generated", "pasted", None},
               o = [is |-> t, enter |-> token = None /\ t = "generated"]
        PROVE  /\ o.is \in STRING /\ o.enter \in BOOLEAN
               /\ o.enter /\ token # None => o.is = token
    <3>1. t \in STRING
      BY LiteralsAssumption
    <3>2. o.is = t /\ o.enter = (token = None /\ t = "generated")
      BY <2>2
    <3> QED
      BY <3>1, <3>2
  <2> QED
    BY <1>1, <2>1, <2>2

\* A login stays a whole one, and what else a registry says is left alone.
LEMMA RegistryAnswers ==
    ASSUME NEW r \in [Host -> RegistryType], NEW o \in RegistriesOutcomes(r),
           \A h \in Host : (r[h].user = None) = (r[h].secret = None)
    PROVE  /\ o.is \in [Host -> RegistryType] /\ o.enter \in BOOLEAN
           /\ \A h \in Host : (o.is[h].user = None) = (o.is[h].secret = None)
           /\ Beside("registries", r, o.is)
           /\ o.enter => o.is = r
<1>1. CASE o = [is |-> r, enter |-> TRUE]
  BY <1>1 DEF Beside
<1>2. CASE \E h \in Host, u \in {"ann", "bob"}, s \in {None, "new"} :
              o = [is |-> [r EXCEPT ![h] = Answered(h, @, u, s)], enter |-> FALSE]
  <2>1. PICK h \in Host, u \in {"ann", "bob"}, s \in {None, "new"} :
           o = [is |-> [r EXCEPT ![h] = Answered(h, @, u, s)], enter |-> FALSE]
    BY <1>2
  <2> DEFINE a == Answered(h, r[h], u, s)
  <2>2. r[h] \in RegistryType /\ (r[h].user = None) = (r[h].secret = None)
    OBVIOUS
  <2>3. a \in RegistryType /\ a.more = r[h].more /\ (a.user = None) = (a.secret = None)
    <3>1. u \in STRING /\ s \in STRING /\ u # None
      BY LiteralsAssumption DEF None
    <3> QED
      BY <2>2, <3>1 DEF Answered, RegistryType
  <2> HIDE DEF a
  <2>4. o.is = [r EXCEPT ![h] = a] /\ o.enter = FALSE
    BY <2>1 DEF a
  <2>5. \A g \in Host : o.is[g] = IF g = h THEN a ELSE r[g]
    BY <2>4
  <2>6. o.is \in [Host -> RegistryType] /\ o.enter \in BOOLEAN
    BY <2>3, <2>4
  <2>7. \A g \in Host : (o.is[g].user = None) = (o.is[g].secret = None)
    BY <2>3, <2>5
  <2>8. \A g \in Host : o.is[g].more = r[g].more
    BY <2>3, <2>5
  <2>9. Beside("registries", r, o.is)
    BY <2>8 DEF Beside
  <2> QED
    BY <2>4, <2>6, <2>7, <2>9
<1> QED
  BY <1>1, <1>2 DEF RegistriesOutcomes

LEMMA NothingSaid ==
    ASSUME NEW problem, NEW holds \in BOOLEAN
    PROVE  Says(problem, holds) = {} <=> ~holds
BY DEF Says

\* What is ticked is what is enabled of what there is to tick, whatever the file
\* said of it.
LEMMA PackagesAnswers ==
    ASSUME NEW p \in PackagesType, NEW o \in PackagesOutcomes(p)
    PROVE  /\ o.is \in PackagesType /\ o.enter \in BOOLEAN /\ o.ticked \subseteq Catalogue
           /\ Written("packages", o.is) /\ Beside("packages", p, o.is)
           /\ Enabled(o.is.chosen) \intersect Catalogue = o.ticked
           /\ o.enter /\ Written("packages", p) => Kept("packages", p, o.is)
           /\ o.enter /\ PackageProblems(p) = {} => PackageProblems(o.is) = {}
<1>1. PICK some \in SUBSET Catalogue, generate \in BOOLEAN, store \in {"local", "s3"} :
         o = PackagesAnswered(p, some, generate, store)
  BY DEF PackagesOutcomes
<1>2. /\ o.is = [chosen |-> o.is.chosen, secretKey |-> o.is.secretKey, store |-> o.is.store]
      /\ o.is.chosen = [q \in Package |-> IF q \in Catalogue THEN Select(p.chosen[q], q \in some)
                                          ELSE p.chosen[q]]
      /\ o.is.store = IF "projectsend" \in some /\ p.store = None THEN store ELSE p.store
      /\ o.ticked = some
  BY <1>1 DEF PackagesAnswered
<1>3. o.is.secretKey \in BOOLEAN /\ (p.secretKey => o.is.secretKey)
  BY <1>1 DEF PackagesAnswered, PackagesType
<1>4. /\ o.enter \in BOOLEAN
      /\ o.enter => some = Enabled(p.chosen) \intersect Catalogue /\ store = "local"
  BY <1>1 DEF PackagesAnswered
<1>5. \A q \in Package : p.chosen[q] \in ChoiceType
  BY DEF PackagesType
<1>6. \A q \in Package : o.is.chosen[q] = IF q \in Catalogue THEN Select(p.chosen[q], q \in some)
                                          ELSE p.chosen[q]
  BY <1>2
<1>7. \A was \in ChoiceType :
         /\ Select(was, TRUE) \in {"true", "enabled"}
         /\ Select(was, FALSE) \in {None, "disabled"}
         /\ was \in {"enabled", "disabled"} => /\ Select(was, TRUE) = "enabled"
                                               /\ Select(was, FALSE) = "disabled"
         /\ was = "true" => Select(was, TRUE) = "true"
         /\ was = None => Select(was, FALSE) = None
  BY DEF Select, ChoiceType, None
<1>8. \A q \in Catalogue :
         /\ q \in Package
         /\ q \in some => o.is.chosen[q] = Select(p.chosen[q], TRUE)
         /\ q \notin some => o.is.chosen[q] = Select(p.chosen[q], FALSE)
  <2>1. SUFFICES ASSUME NEW q \in Catalogue
                 PROVE  /\ q \in Package
                        /\ q \in some => o.is.chosen[q] = Select(p.chosen[q], TRUE)
                        /\ q \notin some => o.is.chosen[q] = Select(p.chosen[q], FALSE)
    OBVIOUS
  <2>2. q \in Package
    BY AnswersAssumption
  <2>3. o.is.chosen[q] = Select(p.chosen[q], q \in some)
    BY <1>6, <2>2
  <2> QED
    BY <2>2, <2>3 DEF Select
<1>9. \A q \in Package : o.is.chosen[q] \in ChoiceType
  <2>1. SUFFICES ASSUME NEW q \in Package
                 PROVE  o.is.chosen[q] \in ChoiceType
    OBVIOUS
  <2>2. CASE q \in Catalogue
    <3>1. PICK was \in ChoiceType : was = p.chosen[q]
      BY <1>5
    <3>2. o.is.chosen[q] \in {Select(was, TRUE), Select(was, FALSE)}
      BY <1>8, <2>2, <3>1
    <3>3. {"true", "enabled"} \subseteq ChoiceType /\ {None, "disabled"} \subseteq ChoiceType
      BY DEF ChoiceType
    <3> QED
      BY <1>7, <3>2, <3>3
  <2>3. CASE q \notin Catalogue
    BY <1>5, <1>6, <2>3
  <2> QED
    BY <2>2, <2>3
<1>10. o.is \in PackagesType
  <2>1. o.is.chosen \in [Package -> ChoiceType]
    BY <1>2, <1>9
  <2>2. o.is.store \in {None, "local", "s3"}
    BY <1>2 DEF PackagesType
  <2> QED
    BY <1>2, <1>3, <2>1, <2>2 DEF PackagesType
<1>11. \A q \in Catalogue : /\ q \in some => o.is.chosen[q] \in {"true", "enabled"}
                            /\ q \notin some => o.is.chosen[q] \in {None, "disabled"}
  BY <1>5, <1>7, <1>8
<1>12. Written("packages", o.is)
  BY <1>11 DEF Written
<1>13. Beside("packages", p, o.is)
  <2>1. ASSUME NEW q \in Package
        PROVE  /\ p.chosen[q] \in {"enabled", "disabled"} => o.is.chosen[q] \in {"enabled", "disabled"}
               /\ q \notin Catalogue => o.is.chosen[q] = p.chosen[q]
    BY <1>5, <1>6, <1>7, <1>8
  <2> QED
    BY <2>1 DEF Beside
<1>14. \A q \in Catalogue : q \in Enabled(o.is.chosen) <=> q \in some
  BY <1>8, <1>11 DEF Enabled, None
<1>15. Enabled(o.is.chosen) \intersect Catalogue = o.ticked
  BY <1>2, <1>14
<1>16. ASSUME o.enter, Written("packages", p)
       PROVE  Kept("packages", p, o.is)
  <2>1. \A q \in Catalogue : p.chosen[q] \in {None, "true", "enabled", "disabled"}
    BY <1>16 DEF Written
  <2>2. \A q \in Catalogue : q \in some <=> p.chosen[q] \in {"true", "enabled"}
    BY <1>4, <1>8, <1>16, <2>1 DEF Enabled, None
  <2>3. \A q \in Package : o.is.chosen[q] = p.chosen[q]
    <3>1. ASSUME NEW q \in Catalogue
          PROVE  o.is.chosen[q] = p.chosen[q]
      <4>1. p.chosen[q] \in ChoiceType
        BY <1>5, <1>8
      <4>2. CASE p.chosen[q] \in {"true", "enabled"}
        BY <1>7, <1>8, <2>2, <4>1, <4>2
      <4>3. CASE p.chosen[q] \in {None, "disabled"}
        BY <1>7, <1>8, <2>2, <4>1, <4>3 DEF None
      <4> QED
        BY <2>1, <4>2, <4>3
    <3> QED
      BY <1>6, <3>1
  <2>4. p.chosen = [q \in Package |-> p.chosen[q]] /\ o.is.chosen = [q \in Package |-> o.is.chosen[q]]
    BY <1>2 DEF PackagesType
  <2>5. o.is.chosen = p.chosen
    BY <2>3, <2>4
  <2>6. p.store # None => o.is.store = p.store
    BY <1>2
  <2> QED
    BY <1>3, <2>5, <2>6 DEF Kept
<1>17. ASSUME o.enter, PackageProblems(p) = {}
       PROVE  PackageProblems(o.is) = {}
  <2>1. \A q \in Package : q \in Enabled(o.is.chosen) <=> q \in Enabled(p.chosen)
    BY <1>4, <1>6, <1>14, <1>17 DEF Enabled
  <2>2. \A x : x \in Enabled(o.is.chosen) <=> x \in Enabled(p.chosen)
    BY <2>1 DEF Enabled
  <2>3. o.is.store = "s3" => p.store = "s3"
    BY <1>2, <1>4, <1>17
  <2>4. ~ (/\ {"projectsend"} \subseteq Enabled(p.chosen)
           /\ p.store = "s3" /\ "seaweedfs" \notin Enabled(p.chosen))
    BY <1>17, NothingSaid DEF PackageProblems
  <2>5. ~ (/\ {"projectsend"} \subseteq Enabled(o.is.chosen)
           /\ o.is.store = "s3" /\ "seaweedfs" \notin Enabled(o.is.chosen))
    BY <2>2, <2>3, <2>4
  <2> QED
    BY <2>5, NothingSaid DEF PackageProblems
<1> QED
  BY <1>2, <1>4, <1>10, <1>12, <1>13, <1>15, <1>16, <1>17

\* Whether a node is a gateway, by its flag or by its role.
IsGateway(node) == node.gateway \/ "gateway" \in node.roles

\* What is asked about one node; with Enter, what the section left is left so, and
\* a node that is a gateway by its role still is.
LEMMA NodeAnswers ==
    ASSUME NEW node \in NodeType \union {NewNode}, NEW o \in AskAboutNode(node)
    PROVE  /\ o.is \in NodeType /\ o.enter \in BOOLEAN
           /\ o.is.fixed = node.fixed /\ o.is.labels # "list"
           /\ node.labels = "map" => o.is.labels = "map"
           /\ o.is.gateway = ("gateway" \in o.is.roles)
           /\ o.enter /\ (node.labels = "list" => node.roles = {}) =>
                 /\ AsAsked(node) /\ node \in NodeType => o.is = node
                 /\ o.is.name = node.name /\ o.is.type = node.type
                 /\ (node.gateway => "gateway" \in node.roles) => (IsGateway(o.is) <=> IsGateway(node))
<1>1. PICK n \in NodeName, t \in {"Server", "Agent"}, r \in SUBSET Role, p \in Placements(node) :
         o = NodeAnswered(node, n, t, r, p)
  BY DEF AskAboutNode
<1> DEFINE labels == IF node.labels = "list" THEN "none" ELSE node.labels
           g      == "gateway" \in r
<1>2. /\ node = [name |-> node.name, type |-> node.type, roles |-> node.roles,
                 gateway |-> node.gateway, region |-> node.region, zone |-> node.zone,
                 labels |-> node.labels, fixed |-> node.fixed]
      /\ node.type \in {"Server", "Agent"} /\ node.roles \in SUBSET Role /\ node.gateway \in BOOLEAN
      /\ node.region \in STRING /\ node.zone \in STRING
      /\ node.labels \in {"none", "map", "list"} /\ node.fixed \in BOOLEAN
  <2>1. CASE node \in NodeType
    BY <2>1 DEF NodeType
  <2>2. CASE node = NewNode
    <3>1. None \in STRING
      BY LiteralsAssumption
    <3> QED
      BY <2>2, <3>1 DEF NewNode, Role
  <2> QED
    BY <2>1, <2>2
<1>3. p[1] \in STRING /\ p[2] \in STRING
  <2>1. \/ p = <<None, None>>
        \/ \E a \in Region, z \in Region \union ({node.zone} \ {None}) : p = <<a, z>>
    BY DEF Placements
  <2> QED
    BY <1>2, <2>1, AnswersAssumption, LiteralsAssumption
<1>4. o.is = [node EXCEPT !.name = n, !.type = t, !.roles = r, !.gateway = g,
                          !.region = p[1], !.zone = p[2], !.labels = labels]
  BY <1>1 DEF NodeAnswered
<1>5. /\ o.enter \in BOOLEAN
      /\ o.enter => n = node.name /\ t = node.type /\ r = OfferedRoles(node) /\ p = OfferedPlacement(node)
  BY <1>1 DEF NodeAnswered
<1>6. g \in BOOLEAN /\ (g <=> "gateway" \in r)
  OBVIOUS
<1>7. labels \in {"none", "map"} /\ (node.labels # "list" => labels = node.labels)
  BY <1>2
<1> HIDE DEF labels, g
<1>8. o.is = [name |-> n, type |-> t, roles |-> r, gateway |-> g, region |-> p[1], zone |-> p[2],
              labels |-> labels, fixed |-> node.fixed]
  BY <1>2, <1>4
<1>9. o.is \in NodeType
  BY <1>2, <1>3, <1>6, <1>7, <1>8 DEF NodeType
<1>10. /\ o.is.fixed = node.fixed /\ o.is.labels # "list"
       /\ node.labels = "map" => o.is.labels = "map"
  BY <1>7, <1>8
<1>11. o.is.gateway = ("gateway" \in o.is.roles)
  BY <1>6, <1>8
<1>12. ASSUME o.enter, node.labels = "list" => node.roles = {}
       PROVE  /\ AsAsked(node) /\ node \in NodeType => o.is = node
              /\ o.is.name = node.name /\ o.is.type = node.type
              /\ (node.gateway => "gateway" \in node.roles) => (IsGateway(o.is) <=> IsGateway(node))
  <2>1. o.is.name = node.name /\ o.is.type = node.type
    BY <1>5, <1>8, <1>12
  <2>2. ASSUME AsAsked(node)
        PROVE  o.is = node
    <3>1. r = node.roles
      BY <1>5, <1>12, <2>2 DEF AsAsked, OfferedRoles
    <3>2. g = node.gateway
      BY <1>2, <1>6, <2>2, <3>1 DEF AsAsked
    <3>3. p[1] = node.region /\ p[2] = node.zone
      BY <1>5, <1>12, <2>2 DEF AsAsked, OfferedPlacement
    <3>4. labels = node.labels
      BY <1>7, <2>2 DEF AsAsked
    <3>5. n = node.name /\ t = node.type
      BY <1>5, <1>12
    <3> QED
      BY <1>2, <1>8, <3>1, <3>2, <3>3, <3>4, <3>5
  <2>3. ASSUME node.gateway => "gateway" \in node.roles
        PROVE  IsGateway(o.is) <=> IsGateway(node)
    <3>1. IsGateway(node) <=> "gateway" \in node.roles
      BY <2>3 DEF IsGateway
    <3>2. IsGateway(o.is) <=> "gateway" \in r
      BY <1>6, <1>8 DEF IsGateway
    <3>3. "gateway" \in r <=> "gateway" \in node.roles
      BY <1>5, <1>12 DEF OfferedRoles
    <3> QED
      BY <3>1, <3>2, <3>3
  <2> QED
    BY <2>1, <2>2, <2>3
<1> QED
  BY <1>5, <1>9, <1>10, <1>11, <1>12

\* The same machines, as far as the problems of a configuration go.
Alike(old, new) ==
    /\ Len(new) = Len(old)
    /\ \A i \in DOMAIN old : /\ new[i].name = old[i].name /\ new[i].type = old[i].type
                             /\ IsGateway(new[i]) <=> IsGateway(old[i])

LEMMA AlikeNodes ==
    ASSUME NEW old \in Seq(NodeType), NEW new \in Seq(NodeType), Alike(old, new)
    PROVE  /\ NodeProblems(new) = NodeProblems(old)
           /\ Gateways(new) = Gateways(old)
           /\ new = NoNodes <=> old = NoNodes
<1>1. DOMAIN new = DOMAIN old
  BY DEF Alike
<1>2. ASSUME NEW type
      PROVE  {i \in DOMAIN new : new[i].type = type} = {i \in DOMAIN old : old[i].type = type}
  BY <1>1 DEF Alike
<1>3. (\E i, j \in DOMAIN new : i # j /\ new[i].name = new[j].name)
      <=> (\E i, j \in DOMAIN old : i # j /\ old[i].name = old[j].name)
  BY <1>1 DEF Alike
<1>4. NodeProblems(new) = NodeProblems(old)
  <2> DEFINE many(nodes) == Cardinality({i \in DOMAIN nodes : nodes[i].type = "Server"}) # 1
             twice(nodes) == \E i, j \in DOMAIN nodes : i # j /\ nodes[i].name = nodes[j].name
  <2>1. many(new) <=> many(old)
    BY <1>2
  <2>2. twice(new) <=> twice(old)
    BY <1>3
  <2>3. \A nodes : NodeProblems(nodes) =
           (IF many(nodes) THEN {"servers"} ELSE {})
             \union (IF twice(nodes) THEN {"one-name-twice"} ELSE {})
    BY DEF NodeProblems, Says
  <2> HIDE DEF many, twice
  <2> QED
    BY <2>1, <2>2, <2>3
<1>5. Gateways(new) = Gateways(old)
  BY <1>1 DEF Gateways, Alike, IsGateway
<1>6. new = NoNodes <=> old = NoNodes
  <2>1. \A s \in Seq(NodeType) : s = <<>> <=> Len(s) = 0
    BY EmptySeq
  <2> QED
    BY <2>1 DEF NoNodes, Alike
<1> QED
  BY <1>4, <1>5, <1>6

ListsApart(nodes) == \A i \in DOMAIN nodes : nodes[i].labels = "list" => nodes[i].roles = {}

\* What is where in two sequences joined.
LEMMA JoinedAt ==
  ASSUME NEW S, NEW a \in Seq(S), NEW b \in Seq(S)
  PROVE  \A j \in 1..(Len(a) + Len(b)) :
            (a \o b)[j] = IF j <= Len(a) THEN a[j] ELSE b[j - Len(a)]
OBVIOUS

\* The list of nodes, after one change to it.
LEMMA NodesAnswers ==
    ASSUME NEW nodes \in Seq(NodeType), NEW o \in NodesOutcomes(nodes),
           Len(nodes) <= MaxNodes, ListsApart(nodes)
    PROVE  /\ o.is \in Seq(NodeType) /\ Len(o.is) <= MaxNodes /\ o.enter \in BOOLEAN
           /\ ListsApart(o.is)
           /\ Len(nodes) <= Len(o.is) => NodesBeside(nodes, o.is)
           /\ o.enter => /\ AllKept("nodes", nodes, o.is)
                         /\ ByRole(nodes) => ByRole(o.is) /\ Alike(nodes, o.is)
<1> DEFINE Goal ==
           /\ o.is \in Seq(NodeType) /\ Len(o.is) <= MaxNodes /\ o.enter \in BOOLEAN
           /\ ListsApart(o.is)
           /\ Len(nodes) <= Len(o.is) => NodesBeside(nodes, o.is)
           /\ o.enter => /\ AllKept("nodes", nodes, o.is)
                         /\ ByRole(nodes) => ByRole(o.is) /\ Alike(nodes, o.is)
<1>1. \/ o = [is |-> nodes, enter |-> TRUE]
      \/ /\ Len(nodes) < MaxNodes
         /\ \E a \in AskAboutNode(NewNode) : o = [is |-> Append(nodes, a.is), enter |-> FALSE]
      \/ \E i \in DOMAIN nodes :
            o = [is |-> SubSeq(nodes, 1, i - 1) \o SubSeq(nodes, i + 1, Len(nodes)), enter |-> FALSE]
      \/ \E i \in DOMAIN nodes : \E a \in AskAboutNode(nodes[i]) :
            o = [is |-> [nodes EXCEPT ![i] = a.is], enter |-> a.enter]
  BY DEF NodesOutcomes
<1>2. ASSUME o = [is |-> nodes, enter |-> TRUE]
      PROVE  Goal
  BY <1>2 DEF NodesBeside, AllKept, Kept, Alike
<1>3. ASSUME Len(nodes) < MaxNodes, NEW a \in AskAboutNode(NewNode),
             o = [is |-> Append(nodes, a.is), enter |-> FALSE]
      PROVE  Goal
  <2>1. a.is \in NodeType /\ a.is.labels # "list"
    BY NodeAnswers
  <2>2. o.is = Append(nodes, a.is) /\ o.enter = FALSE
    BY <1>3
  <2>3. /\ o.is \in Seq(NodeType) /\ Len(o.is) = Len(nodes) + 1
        /\ \A i \in 1..Len(nodes) : o.is[i] = nodes[i]
        /\ o.is[Len(nodes) + 1] = a.is
    BY <2>1, <2>2
  <2>4. ListsApart(o.is)
    BY <2>1, <2>3 DEF ListsApart
  <2>5. NodesBeside(nodes, o.is)
    BY <2>3 DEF NodesBeside
  <2>6. Len(o.is) <= MaxNodes
    BY <1>3, <2>3, AnswersAssumption
  <2> QED
    BY <2>2, <2>3, <2>4, <2>5, <2>6
<1>4. ASSUME NEW i \in DOMAIN nodes,
             o = [is |-> SubSeq(nodes, 1, i - 1) \o SubSeq(nodes, i + 1, Len(nodes)), enter |-> FALSE]
      PROVE  Goal
  <2> DEFINE a == SubSeq(nodes, 1, i - 1)
             b == SubSeq(nodes, i + 1, Len(nodes))
  <2>1. i \in 1..Len(nodes) /\ Len(nodes) \in Nat
    OBVIOUS
  <2>2. /\ a \in Seq(NodeType) /\ Len(a) = i - 1
        /\ \A j \in 1..i - 1 : a[j] = nodes[j]
    BY <2>1
  <2>3. /\ b \in Seq(NodeType) /\ Len(b) = Len(nodes) - i
        /\ \A j \in 1..Len(nodes) - i : b[j] = nodes[i + j]
    BY <2>1
  <2> HIDE DEF a, b
  <2>4. o.is = a \o b /\ o.enter = FALSE
    BY <1>4 DEF a, b
  <2>5. /\ o.is \in Seq(NodeType) /\ Len(o.is) = Len(nodes) - 1
        /\ \A j \in 1..Len(nodes) - 1 : o.is[j] = IF j < i THEN nodes[j] ELSE nodes[j + 1]
    <3>1. o.is \in Seq(NodeType) /\ Len(o.is) = Len(a) + Len(b)
      BY <2>2, <2>3, <2>4
    <3>2. \A j \in 1..Len(a) + Len(b) : o.is[j] = IF j <= Len(a) THEN a[j] ELSE b[j - Len(a)]
      <4>1. \A j \in 1..Len(a) + Len(b) :
               (a \o b)[j] = IF j <= Len(a) THEN a[j] ELSE b[j - Len(a)]
        BY <2>2, <2>3, JoinedAt
      <4> QED
        BY <2>4, <4>1
    <3>3. ASSUME NEW j \in 1..Len(nodes) - 1
          PROVE  o.is[j] = IF j < i THEN nodes[j] ELSE nodes[j + 1]
      <4>1. CASE j < i
        <5>1. j \in 1..Len(a) + Len(b) /\ j <= Len(a) /\ j \in 1..i - 1
          BY <2>1, <2>2, <2>3, <4>1
        <5>2. o.is[j] = IF j <= Len(a) THEN a[j] ELSE b[j - Len(a)]
          BY <3>2, <5>1
        <5>3. a[j] = nodes[j]
          BY <2>2, <5>1
        <5> QED
          BY <4>1, <5>1, <5>2, <5>3
      <4>2. CASE ~ j < i
        <5>1. j - Len(a) \in 1..Len(nodes) - i /\ i + (j - Len(a)) = j + 1
          BY <2>1, <2>2, <4>2
        <5>2. o.is[j] = b[j - Len(a)]
          <6>1. j \in 1..Len(a) + Len(b) /\ ~ j <= Len(a)
            BY <2>1, <2>2, <2>3, <4>2
          <6>2. o.is[j] = IF j <= Len(a) THEN a[j] ELSE b[j - Len(a)]
            BY <3>2, <6>1
          <6> QED
            BY <6>1, <6>2
        <5> QED
          BY <2>3, <4>2, <5>1, <5>2
      <4> QED
        BY <4>1, <4>2
    <3> QED
      BY <2>1, <2>2, <2>3, <3>1, <3>3
  <2>6. ListsApart(o.is)
    <3>1. ASSUME NEW j \in DOMAIN o.is
          PROVE  \E k \in DOMAIN nodes : o.is[j] = nodes[k]
      <4>1. j \in 1..Len(nodes) - 1
        BY <2>5
      <4> QED
        BY <2>1, <2>5, <4>1
    <3> QED
      BY <3>1 DEF ListsApart
  <2>7. Len(o.is) <= MaxNodes /\ ~ Len(nodes) <= Len(o.is)
    BY <2>1, <2>5, AnswersAssumption
  <2> QED
    BY <2>4, <2>5, <2>6, <2>7
<1>5. ASSUME NEW i \in DOMAIN nodes, NEW a \in AskAboutNode(nodes[i]),
             o = [is |-> [nodes EXCEPT ![i] = a.is], enter |-> a.enter]
      PROVE  Goal
  <2>1. nodes[i] \in NodeType
    OBVIOUS
  <2>2. /\ a.is \in NodeType /\ a.enter \in BOOLEAN
        /\ a.is.fixed = nodes[i].fixed /\ a.is.labels # "list"
        /\ nodes[i].labels = "map" => a.is.labels = "map"
        /\ a.is.gateway = ("gateway" \in a.is.roles)
        /\ a.enter =>
              /\ AsAsked(nodes[i]) => a.is = nodes[i]
              /\ a.is.name = nodes[i].name /\ a.is.type = nodes[i].type
              /\ (nodes[i].gateway => "gateway" \in nodes[i].roles)
                    => (IsGateway(a.is) <=> IsGateway(nodes[i]))
    BY <2>1, NodeAnswers DEF ListsApart
  <2>3. o.is = [nodes EXCEPT ![i] = a.is] /\ o.enter = a.enter
    BY <1>5
  <2>4. /\ o.is \in Seq(NodeType) /\ Len(o.is) = Len(nodes) /\ DOMAIN o.is = DOMAIN nodes
        /\ \A j \in DOMAIN nodes : o.is[j] = IF j = i THEN a.is ELSE nodes[j]
    BY <2>2, <2>3
  <2>5. ListsApart(o.is)
    BY <2>2, <2>4 DEF ListsApart
  <2>6. NodesBeside(nodes, o.is)
    BY <2>2, <2>4 DEF NodesBeside
  <2>7. ASSUME o.enter
        PROVE  /\ AllKept("nodes", nodes, o.is)
               /\ ByRole(nodes) => ByRole(o.is) /\ Alike(nodes, o.is)
    <3>1. \A j \in DOMAIN nodes : AsAsked(nodes[j]) => o.is[j] = nodes[j]
      BY <2>2, <2>3, <2>4, <2>7
    <3>2. AllKept("nodes", nodes, o.is)
      BY <2>4, <3>1 DEF AllKept, Kept
    <3>3. ASSUME ByRole(nodes)
          PROVE  ByRole(o.is) /\ Alike(nodes, o.is)
      <4>1. ByRole(o.is)
        BY <2>2, <2>4, <3>3 DEF ByRole
      <4>2. Alike(nodes, o.is)
        BY <2>2, <2>3, <2>4, <2>7, <3>3 DEF ByRole, Alike
      <4> QED
        BY <4>1, <4>2
    <3> QED
      BY <3>2, <3>3
  <2>8. Len(o.is) <= MaxNodes
    BY <2>4
  <2> QED
    BY <2>2, <2>3, <2>4, <2>5, <2>6, <2>7, <2>8
<1> HIDE DEF Goal
<1>6. Goal
  BY <1>1, <1>2, <1>3, <1>4, <1>5
<1> QED
  BY <1>6 DEF Goal

MailWellMade(m) ==
    /\ \A n \in Namespace : m.spaces[n].given \/ m.spaces[n] = NoMail
    /\ m.shape # "namespaces" =>
          m.defaults = NoServer /\ \A n \in Namespace : m.spaces[n] = NoMail

LEMMA ServersOffered ==
    ASSUME NEW s \in ServerType, s # NoServer
    PROVE  /\ OfferedServer(s) \in ServerType /\ OfferedServer(s) # NoServer
           /\ OfferedServer(s).host = s.host /\ OfferedServer(s).security = s.security
           /\ OfferedServer(s).port = PortOf(s)
           /\ PortOf(OfferedServer(s)) = PortOf(s)
           /\ OfferedServer(OfferedServer(s)) = OfferedServer(s)
<1>1. s \in [host : STRING \ {None}, security : {"none", "starttls", "tls"}, port : Nat]
  BY DEF ServerType
<1>2. PortOf(s) \in Nat \ {0}
  BY <1>1 DEF PortOf, DefaultPort
<1> DEFINE t == [host |-> s.host, security |-> s.security, port |-> PortOf(s)]
<1>3. OfferedServer(s) = t
  BY <1>1 DEF OfferedServer, PortOf
<1>4. t \in ServerType /\ t.port # 0 /\ t.host = s.host /\ t.security = s.security /\ t.port = PortOf(s)
  BY <1>1, <1>2 DEF ServerType
<1>5. t # NoServer
  BY <1>4 DEF NoServer
<1>6. PortOf(t) = PortOf(s)
  BY <1>4 DEF PortOf
<1>7. OfferedServer(t) = t
  BY <1>4, <1>6 DEF OfferedServer, PortOf
<1> HIDE DEF t
<1> QED
  BY <1>3, <1>4, <1>5, <1>6, <1>7

LEMMA PortsGiven ==
    ASSUME NEW s \in ServerType
    PROVE  /\ WithPort(s) \in ServerType
           /\ WithPort(s) = NoServer <=> s = NoServer
           /\ s # NoServer => WithPort(s) = OfferedServer(s)
           /\ s # NoServer => WithPort(OfferedServer(s)) = WithPort(s)
<1>1. NoServer \in ServerType
  BY DEF ServerType
<1> QED
  BY <1>1, ServersOffered DEF WithPort

\* A server that was asked about is one; Enter offers the one there is.
LEMMA ServerAnswers ==
    ASSUME NEW current \in ServerType, NEW o \in AskServer(current)
    PROVE  /\ o.is \in ServerType /\ o.is # NoServer /\ o.enter \in BOOLEAN
           /\ o.enter => /\ current # NoServer /\ o.is.security = current.security
                         /\ WithPort(o.is) = WithPort(current)
<1>1. PICK s \in MailServer \union (IF current = NoServer THEN {} ELSE {OfferedServer(current)}) :
         o = [is |-> s, enter |-> current # NoServer /\ s = OfferedServer(current)]
  BY DEF AskServer
<1>2. o.is = s /\ o.enter = (current # NoServer /\ s = OfferedServer(current))
  BY <1>1
<1>3. s \in ServerType /\ s # NoServer
  <2>1. CASE s \in MailServer
    BY <2>1, AnswersAssumption
  <2>2. CASE current # NoServer /\ s = OfferedServer(current)
    BY <2>2, ServersOffered
  <2> QED
    BY <2>1, <2>2
<1>4. ASSUME o.enter
      PROVE  /\ current # NoServer /\ o.is.security = current.security
             /\ WithPort(o.is) = WithPort(current)
  BY <1>2, <1>4, ServersOffered, PortsGiven
<1> QED
  BY <1>2, <1>3, <1>4

LEMMA OwnServerAnswers ==
    ASSUME NEW current \in ServerType, NEW o \in AskOwnServer(current)
    PROVE  /\ o.is \in ServerType /\ o.enter \in BOOLEAN
           /\ o.enter => /\ o.is = NoServer <=> current = NoServer
                         /\ o.is.security = current.security
                         /\ WithPort(o.is) = WithPort(current)
<1>1. CASE o = [is |-> NoServer, enter |-> current = NoServer]
  BY <1>1 DEF ServerType
<1>2. CASE o \in AskServer(current)
  BY <1>2, ServerAnswers
<1> QED
  BY <1>1, <1>2 DEF AskOwnServer

LEMMA LoginsAre ==
    ASSUME NEW space \in SpaceType, NEW l \in Logins(space)
    PROVE  l.user \in STRING /\ l.password \in STRING
<1>1. \/ l = NoLogin
      \/ \E u \in MailUser, p \in {None, "new"} :
            l = [user |-> u, password |-> IF p # None THEN p ELSE space.password]
  BY DEF Logins
<1>2. None \in STRING /\ "new" \in STRING /\ MailUser \subseteq STRING /\ space.password \in STRING
  BY LiteralsAssumption, AnswersAssumption DEF SpaceType
<1>3. CASE l = NoLogin
  BY <1>2, <1>3 DEF NoLogin
<1>4. ASSUME NEW u \in MailUser, NEW p \in {None, "new"},
             l = [user |-> u, password |-> IF p # None THEN p ELSE space.password]
      PROVE  l.user \in STRING /\ l.password \in STRING
  BY <1>2, <1>4
<1> QED
  BY <1>1, <1>3, <1>4

\* A namespace's mail whose problems are none has a server, a whole login or
\* none, and none unencrypted.
LEMMA NoSpaceProblems ==
    ASSUME NEW m, NEW n \in Namespace,
           m.spaces[n].given, MailProblems(m) = {}, m.shape = "namespaces"
    PROVE  /\ ServerOf(m, n) # NoServer
           /\ (m.spaces[n].user = None) <=> (m.spaces[n].password = None)
           /\ m.spaces[n].password # None => ServerOf(m, n).security # "none"
<1>1. n \in Senders(m)
  BY DEF Senders
<1>2. UNION {NamespaceMailProblems(m, k) : k \in Senders(m)} = {}
  <2>1. SpaceProblems(m) = {}
    BY DEF MailProblems, None
  <2> QED
    BY <2>1 DEF SpaceProblems
<1>3. NamespaceMailProblems(m, n) = {}
  BY <1>1, <1>2
<1>4. ServerOf(m, n) # NoServer
  BY <1>3 DEF NamespaceMailProblems
<1> DEFINE half  == (m.spaces[n].user = None) # (m.spaces[n].password = None)
           clear == m.spaces[n].password # None /\ ServerOf(m, n).security = "none"
<1>5. Says("half-a-login", half) = {} /\ Says("in-the-clear", clear) = {}
  BY <1>3, <1>4 DEF NamespaceMailProblems
<1>6. ~half /\ ~clear
  <2> HIDE DEF half, clear
  <2>1. half \in BOOLEAN /\ clear \in BOOLEAN
    BY DEF half, clear
  <2> QED
    BY <1>5, <2>1, NothingSaid
<1> QED
  BY <1>4, <1>6

LEMMA SpacePorts ==
    ASSUME NEW a \in SpaceType
    PROVE  [a EXCEPT !.server = WithPort(@)]
             = [given |-> a.given, server |-> WithPort(a.server), user |-> a.user,
                password |-> a.password]
BY DEF SpaceType

LEMMA MailPorts ==
    ASSUME NEW m \in MailType
    PROVE  /\ WithPorts(m).shape = m.shape /\ WithPorts(m).defaults = WithPort(m.defaults)
           /\ WithPorts(m).spaces = [n \in Namespace |-> WithPorts(m).spaces[n]]
           /\ \A n \in Namespace :
                 WithPorts(m).spaces[n] = [m.spaces[n] EXCEPT !.server = WithPort(@)]
           /\ WithPorts(m) = [shape |-> m.shape, defaults |-> WithPort(m.defaults),
                              spaces |-> WithPorts(m).spaces]
<1> DEFINE p == [n \in Namespace |-> [m.spaces[n] EXCEPT !.server = WithPort(@)]]
<1>1. WithPorts(m) = [m EXCEPT !.defaults = WithPort(@), !.spaces = p]
  BY DEF WithPorts
<1> HIDE DEF p
<1>2. WithPorts(m) = [shape |-> m.shape, defaults |-> WithPort(m.defaults), spaces |-> p]
  BY <1>1 DEF MailType
<1>3. WithPorts(m).spaces = p
  BY <1>2
<1>4. \A n \in Namespace : p[n] = [m.spaces[n] EXCEPT !.server = WithPort(@)]
  BY DEF p
<1>5. p = [n \in Namespace |-> p[n]]
  BY DEF p
<1> QED
  BY <1>2, <1>3, <1>4, <1>5

\* Enter leaves mail as it was, where nothing was wrong with it.
LEMMA MailAnswers ==
    ASSUME NEW m \in MailType, NEW o \in MailOutcomes(m), MailWellMade(m)
    PROVE  /\ o.is \in MailType /\ MailWellMade(o.is) /\ o.enter \in BOOLEAN
           /\ o.enter /\ MailProblems(m) = {} => WithPorts(o.is) = WithPorts(m)
<1> DEFINE Goal ==
           /\ o.is \in MailType /\ MailWellMade(o.is) /\ o.enter \in BOOLEAN
           /\ o.enter /\ MailProblems(m) = {} => WithPorts(o.is) = WithPorts(m)
<1>1. ASSUME o = [is |-> Nobody, enter |-> m.shape # "namespaces"]
      PROVE  Goal
  <2>1. NoServer \in ServerType /\ NoMail \in SpaceType
    <3>1. NoServer \in ServerType /\ None \in STRING
      BY LiteralsAssumption DEF ServerType
    <3> QED
      BY <3>1 DEF NoMail, SpaceType
  <2>2. o.is = Nobody /\ Nobody \in MailType /\ MailWellMade(Nobody)
    BY <1>1, <2>1 DEF Nobody, MailType, MailWellMade
  <2>3. ASSUME o.enter, MailProblems(m) = {}
        PROVE  m = Nobody
    <3>1. m.shape = None
      <4>1. m.shape # "namespaces"
        BY <1>1, <2>3
      <4>2. m.shape # "cluster"
        BY <2>3 DEF MailProblems, None
      <4> QED
        BY <4>1, <4>2 DEF MailType
    <3>2. m.defaults = NoServer /\ \A n \in Namespace : m.spaces[n] = NoMail
      BY <3>1 DEF MailWellMade, None
    <3>3. m.spaces = [n \in Namespace |-> NoMail]
      BY <3>2 DEF MailType
    <3> QED
      BY <3>1, <3>2, <3>3 DEF MailType, Nobody
  <2> QED
    BY <1>1, <2>2, <2>3
<1>2. ASSUME NEW n \in Namespace, NEW d \in AskServer(m.defaults),
             NEW s \in AskOwnServer(m.spaces[n].server), NEW l \in Logins(m.spaces[n]),
             o = MailAnswered(m, n, d, s, l)
      PROVE  Goal
  <2> DEFINE space    == m.spaces[n]
             security == (IF s.is = NoServer THEN d.is ELSE s.is).security
             asked    == [given |-> TRUE, server |-> s.is, user |-> l.user, password |-> l.password]
  <2>1. space \in SpaceType /\ m.defaults \in ServerType /\ space.server \in ServerType
    BY DEF MailType, SpaceType
  <2>2. /\ o.is = [shape |-> "namespaces", defaults |-> d.is, spaces |-> [m.spaces EXCEPT ![n] = asked]]
        /\ o.enter \in BOOLEAN
        /\ o.enter => /\ space.given /\ d.enter /\ s.enter
                      /\ security = "none" \/ space.user # None
                      /\ l = OfferedLogin(space, security)
    BY <1>2 DEF MailAnswered
  <2>3. d.is \in ServerType /\ s.is \in ServerType
    BY <2>1, ServerAnswers, OwnServerAnswers
  <2>4. asked \in SpaceType /\ asked.given
    BY <2>1, <2>3, LoginsAre DEF SpaceType
  <2>5. /\ o.is.shape = "namespaces" /\ o.is.defaults = d.is
        /\ o.is.spaces \in [Namespace -> SpaceType]
        /\ \A k \in Namespace : o.is.spaces[k] = IF k = n THEN asked ELSE m.spaces[k]
    <3> HIDE DEF asked
    <3>1. m.spaces \in [Namespace -> SpaceType]
      BY DEF MailType
    <3> QED
      BY <2>2, <2>4, <3>1
  <2>6. o.is \in MailType
    <3>1. o.is = [shape |-> "namespaces", defaults |-> d.is, spaces |-> o.is.spaces]
      BY <2>2
    <3> QED
      BY <2>3, <2>5, <3>1 DEF MailType
  <2>7. MailWellMade(o.is)
    BY <2>4, <2>5 DEF MailWellMade
  <2>8. ASSUME o.enter, MailProblems(m) = {}
        PROVE  WithPorts(o.is) = WithPorts(m)
    <3>1. /\ space.given /\ d.enter /\ s.enter
          /\ security = "none" \/ space.user # None
          /\ l = OfferedLogin(space, security)
      BY <2>2, <2>8
    <3>2. m.shape = "namespaces"
      BY <3>1 DEF MailWellMade, NoMail
    <3>3. m.defaults # NoServer /\ d.is.security = m.defaults.security /\ WithPort(d.is) = WithPort(m.defaults)
      BY <2>1, <3>1, ServerAnswers
    <3>4. /\ s.is = NoServer <=> space.server = NoServer
          /\ s.is.security = space.server.security
          /\ WithPort(s.is) = WithPort(space.server)
      BY <2>1, <3>1, OwnServerAnswers
    <3>5. security = ServerOf(m, n).security
      BY <3>3, <3>4 DEF ServerOf
    <3>6. /\ (space.user = None) <=> (space.password = None)
          /\ space.password # None => security # "none"
      BY <2>8, <3>1, <3>2, <3>5, NoSpaceProblems
    <3>7. l.user = space.user /\ l.password = space.password
      BY <3>1, <3>6 DEF OfferedLogin, NoLogin
    <3>8. [asked EXCEPT !.server = WithPort(@)] = [space EXCEPT !.server = WithPort(@)]
      <4>1. /\ [asked EXCEPT !.server = WithPort(@)]
                 = [given |-> asked.given, server |-> WithPort(asked.server), user |-> asked.user,
                    password |-> asked.password]
            /\ [space EXCEPT !.server = WithPort(@)]
                 = [given |-> space.given, server |-> WithPort(space.server), user |-> space.user,
                    password |-> space.password]
        BY <2>1, <2>4, SpacePorts
      <4>2. /\ asked.given = TRUE /\ asked.server = s.is
            /\ asked.user = l.user /\ asked.password = l.password
        OBVIOUS
      <4>3. space.given = TRUE
        BY <2>1, <3>1 DEF SpaceType
      <4> HIDE DEF space, asked
      <4> QED
        BY <3>4, <3>7, <4>1, <4>2, <4>3
    <3>9. \A k \in Namespace : [o.is.spaces[k] EXCEPT !.server = WithPort(@)]
                                 = [m.spaces[k] EXCEPT !.server = WithPort(@)]
      <4> HIDE DEF asked
      <4> QED
        BY <2>5, <3>8
    <3>10. WithPorts(o.is).spaces = WithPorts(m).spaces
      <4>1. \A k \in Namespace : WithPorts(o.is).spaces[k] = WithPorts(m).spaces[k]
        <5> HIDE DEF asked, space, security
        <5>1. ASSUME NEW k \in Namespace
              PROVE  WithPorts(o.is).spaces[k] = WithPorts(m).spaces[k]
          <6>1. WithPorts(o.is).spaces[k] = [o.is.spaces[k] EXCEPT !.server = WithPort(@)]
            BY <2>6, MailPorts
          <6>2. WithPorts(m).spaces[k] = [m.spaces[k] EXCEPT !.server = WithPort(@)]
            BY MailPorts
          <6> QED
            BY <3>9, <6>1, <6>2
        <5> QED
          BY <5>1
      <4>2. /\ WithPorts(o.is).spaces = [k \in Namespace |-> WithPorts(o.is).spaces[k]]
            /\ WithPorts(m).spaces = [k \in Namespace |-> WithPorts(m).spaces[k]]
        BY <2>6, MailPorts
      <4> HIDE DEF asked, space, security
      <4> QED
        BY <4>1, <4>2
    <3>11. WithPort(o.is.defaults) = WithPort(m.defaults) /\ o.is.shape = m.shape
      BY <2>5, <3>2, <3>3
    <3> HIDE DEF asked, space, security
    <3>12. /\ WithPorts(o.is) = [shape |-> o.is.shape, defaults |-> WithPort(o.is.defaults),
                                 spaces |-> WithPorts(o.is).spaces]
           /\ WithPorts(m) = [shape |-> m.shape, defaults |-> WithPort(m.defaults),
                              spaces |-> WithPorts(m).spaces]
      BY <2>6, MailPorts
    <3> QED
      BY <3>10, <3>11, <3>12
  <2> QED
    BY <2>2, <2>6, <2>7, <2>8
<1> HIDE DEF Goal
<1>3. Goal
  <2>1. \/ o = [is |-> Nobody, enter |-> m.shape # "namespaces"]
        \/ \E n \in Namespace :
              o \in {MailAnswered(m, n, d, s, l) :
                        d \in AskServer(m.defaults), s \in AskOwnServer(m.spaces[n].server),
                        l \in Logins(m.spaces[n])}
    BY DEF MailOutcomes
  <2> QED
    BY <1>1, <1>2, <2>1
<1> QED
  BY <1>3 DEF Goal

LEMMA SamePorts ==
    ASSUME NEW x \in ServerType, NEW y \in ServerType, WithPort(x) = WithPort(y)
    PROVE  /\ x = NoServer <=> y = NoServer
           /\ x.host = y.host /\ x.security = y.security /\ PortOf(x) = PortOf(y)
<1>1. x = NoServer <=> y = NoServer
  BY PortsGiven
<1>2. CASE x = NoServer
  BY <1>1, <1>2
<1>3. CASE x # NoServer
  <2>1. OfferedServer(x) = OfferedServer(y)
    BY <1>1, <1>3 DEF WithPort
  <2> QED
    BY <1>1, <1>3, <2>1, ServersOffered
<1> QED
  BY <1>2, <1>3

\* Whether a port is written down makes no difference to preflight.
LEMMA SameProblems ==
    ASSUME NEW a \in MailType, NEW b \in MailType, WithPorts(a) = WithPorts(b)
    PROVE  MailProblems(a) = MailProblems(b)
<1>1. a.shape = b.shape /\ WithPort(a.defaults) = WithPort(b.defaults)
  BY MailPorts
<1>2. ASSUME NEW n \in Namespace
      PROVE  /\ a.spaces[n] \in SpaceType /\ b.spaces[n] \in SpaceType
             /\ a.spaces[n].given = b.spaces[n].given /\ a.spaces[n].user = b.spaces[n].user
             /\ a.spaces[n].password = b.spaces[n].password
             /\ WithPort(a.spaces[n].server) = WithPort(b.spaces[n].server)
  <2>1. a.spaces[n] \in SpaceType /\ b.spaces[n] \in SpaceType
    BY DEF MailType
  <2>2. [a.spaces[n] EXCEPT !.server = WithPort(@)] = [b.spaces[n] EXCEPT !.server = WithPort(@)]
    <3>1. WithPorts(a).spaces[n] = [a.spaces[n] EXCEPT !.server = WithPort(@)]
      BY MailPorts
    <3>2. WithPorts(b).spaces[n] = [b.spaces[n] EXCEPT !.server = WithPort(@)]
      BY MailPorts
    <3> QED
      BY <3>1, <3>2
  <2>3. [given |-> a.spaces[n].given, server |-> WithPort(a.spaces[n].server),
         user |-> a.spaces[n].user, password |-> a.spaces[n].password]
          = [given |-> b.spaces[n].given, server |-> WithPort(b.spaces[n].server),
             user |-> b.spaces[n].user, password |-> b.spaces[n].password]
    BY <2>1, <2>2, SpacePorts
  <2> QED
    BY <2>1, <2>3
<1>3. ASSUME NEW n \in Namespace
      PROVE  /\ ServerOf(a, n) = NoServer <=> ServerOf(b, n) = NoServer
             /\ ServerOf(a, n).host = ServerOf(b, n).host
             /\ ServerOf(a, n).security = ServerOf(b, n).security
             /\ PortOf(ServerOf(a, n)) = PortOf(ServerOf(b, n))
  <2>1. /\ a.spaces[n].server \in ServerType /\ b.spaces[n].server \in ServerType
        /\ a.defaults \in ServerType /\ b.defaults \in ServerType
    BY <1>2 DEF SpaceType, MailType
  <2>2. a.spaces[n].server = NoServer <=> b.spaces[n].server = NoServer
    BY <1>2, <2>1, SamePorts
  <2>3. ServerOf(a, n) \in ServerType /\ ServerOf(b, n) \in ServerType
    BY <2>1 DEF ServerOf
  <2>4. WithPort(ServerOf(a, n)) = WithPort(ServerOf(b, n))
    BY <1>1, <1>2, <2>2 DEF ServerOf
  <2> QED
    BY <2>3, <2>4, SamePorts
<1>4. Senders(a) = Senders(b)
  BY <1>2 DEF Senders
<1>5. ASSUME NEW n \in Namespace
      PROVE  NamespaceMailProblems(a, n) = NamespaceMailProblems(b, n)
  <2> DEFINE none(m)  == ServerOf(m, n) = NoServer
             wrong(m) == <<PortOf(ServerOf(m, n)), ServerOf(m, n).security>>
                           \in {<<465, "starttls">>, <<587, "tls">>}
             half(m)  == (m.spaces[n].user = None) # (m.spaces[n].password = None)
             clear(m) == m.spaces[n].password # None /\ ServerOf(m, n).security = "none"
  <2>1. (none(a) <=> none(b)) /\ (wrong(a) <=> wrong(b))
    BY <1>3
  <2>2. (half(a) <=> half(b)) /\ (clear(a) <=> clear(b))
    BY <1>2, <1>3
  <2>3. \A m : NamespaceMailProblems(m, n) =
           IF none(m) THEN {"no-server"}
           ELSE (IF wrong(m) THEN {"wrong-port"} ELSE {})
                \union (IF half(m) THEN {"half-a-login"} ELSE {})
                \union (IF clear(m) THEN {"in-the-clear"} ELSE {})
    BY DEF NamespaceMailProblems, Says
  <2> HIDE DEF none, wrong, half, clear
  <2> QED
    BY <2>1, <2>2, <2>3
<1>6. Senders(a) \subseteq Namespace
  BY DEF Senders
<1>7. {NamespaceMailProblems(a, n) : n \in Senders(a)} = {NamespaceMailProblems(b, n) : n \in Senders(b)}
  BY <1>4, <1>5, <1>6
<1>8. ASSUME NEW n \in Namespace, NEW o \in Namespace
      PROVE  SharesUser(a, n, o) <=> SharesUser(b, n, o)
  BY <1>2, <1>3 DEF SharesUser
<1>9. SomeShare(a) <=> SomeShare(b)
  BY <1>4, <1>6, <1>8 DEF SomeShare
<1> DEFINE nobody(m) == Senders(m) = {}
<1>10. /\ nobody(a) <=> nobody(b)
       /\ SomeShare(a) <=> SomeShare(b)
       /\ SpaceProblems(a) = SpaceProblems(b)
  BY <1>4, <1>7, <1>9 DEF SpaceProblems
<1>11. \A m : MailProblems(m) =
         IF m.shape = None THEN {}
         ELSE IF m.shape = "cluster" THEN {"one-server-for-the-cluster"}
         ELSE (IF nobody(m) THEN {"nobody-sends"} ELSE {}) \union SpaceProblems(m)
              \union (IF SomeShare(m) THEN {"shared-user"} ELSE {})
  BY DEF MailProblems, Says
<1> HIDE DEF nobody
<1> QED
  BY <1>1, <1>10, <1>11

\* Going through a section twice keeps what going through it once does.
LEMMA KeptOn ==
    ASSUME NEW s \in Sections, NEW a \in DraftType, NEW b \in DraftType, NEW c \in DraftType,
           AllKept(s, a[s], b[s]), AllKept(s, b[s], c[s])
    PROVE  AllKept(s, a[s], c[s])
<1>1. CASE s = "packages"
  BY <1>1 DEF AllKept, Kept
<1>2. CASE s = "nodes"
  <2>1. a.nodes \in Seq(NodeType) /\ b.nodes \in Seq(NodeType)
    BY DEF DraftType
  <2>2. Len(b.nodes) = Len(a.nodes) /\ Len(c.nodes) = Len(b.nodes)
    BY <1>2 DEF AllKept
  <2>3. /\ \A i \in DOMAIN a.nodes : AsAsked(a.nodes[i]) => b.nodes[i] = a.nodes[i]
        /\ \A i \in DOMAIN b.nodes : AsAsked(b.nodes[i]) => c.nodes[i] = b.nodes[i]
    BY <1>2 DEF AllKept, Kept
  <2>4. \A i \in DOMAIN a.nodes : AsAsked(a.nodes[i]) => c.nodes[i] = a.nodes[i]
    BY <2>1, <2>2, <2>3
  <2> QED
    BY <1>2, <2>2, <2>4 DEF AllKept, Kept
<1>3. CASE s = "k3s"
  BY <1>3 DEF AllKept, Kept
<1>4. CASE s = "mail"
  <2>1. a.mail \in MailType /\ b.mail \in MailType
    BY DEF DraftType
  <2>2. /\ MailProblems(a.mail) = {} => WithPorts(b.mail) = WithPorts(a.mail)
        /\ MailProblems(b.mail) = {} => WithPorts(c.mail) = WithPorts(b.mail)
    BY <1>4 DEF AllKept, Kept
  <2>3. MailProblems(a.mail) = {} => WithPorts(c.mail) = WithPorts(a.mail)
    BY <2>1, <2>2, SameProblems
  <2> QED
    BY <1>4, <2>3 DEF AllKept, Kept
<1>5. CASE s \notin {"packages", "nodes", "k3s", "mail"}
  BY <1>5 DEF AllKept, Kept
<1> QED
  BY <1>1, <1>2, <1>3, <1>4, <1>5

LEMMA NoProblems ==
    ASSUME NEW d \in DraftType
    PROVE  Problems(d) = {} <=>
             /\ d.nodes # NoNodes /\ NodeProblems(d.nodes) = {} /\ d.k3s # None
             /\ Gateways(d.nodes) # {} <=> d.network.addresses
             /\ d.network.mesh # None <=> d.network.apiKey
             /\ MailProblems(d.mail) = {} /\ PackageProblems(d.packages) = {}
<1> DEFINE none     == Gateways(d.nodes) # {} /\ ~d.network.addresses
           closed   == d.network.addresses /\ Gateways(d.nodes) = {}
           mesh     == (d.network.mesh # None) # d.network.apiKey
           tokenless == d.k3s = None
<1>1. d.network.addresses \in BOOLEAN /\ d.network.apiKey \in BOOLEAN
  BY DEF DraftType, NetworkType
<1>2. none \in BOOLEAN /\ closed \in BOOLEAN /\ mesh \in BOOLEAN /\ tokenless \in BOOLEAN
  BY <1>1
<1>3. /\ none \/ closed <=> ~ (Gateways(d.nodes) # {} <=> d.network.addresses)
      /\ mesh <=> ~ (d.network.mesh # None <=> d.network.apiKey)
  BY <1>1
<1>4. NetworkProblems(d) = Says("no-addresses", none) \union Says("no-gateway", closed) \union Says("mesh", mesh)
  BY DEF NetworkProblems
<1>5. NetworkProblems(d) = {} <=> ~none /\ ~closed /\ ~mesh
  <2> HIDE DEF none, closed, mesh
  <2>1. /\ Says("no-addresses", none) = {} <=> ~none
        /\ Says("no-gateway", closed) = {} <=> ~closed
        /\ Says("mesh", mesh) = {} <=> ~mesh
    BY <1>2, NothingSaid
  <2> QED
    BY <1>4, <2>1
<1>6. Problems(d) =
        IF d.nodes = NoNodes THEN {"no-nodes"}
        ELSE NodeProblems(d.nodes) \union Says("no-token", tokenless)
             \union NetworkProblems(d) \union MailProblems(d.mail) \union PackageProblems(d.packages)
  BY DEF Problems
<1>7. Says("no-token", tokenless) = {} <=> ~tokenless
  <2> HIDE DEF tokenless
  <2> QED
    BY <1>2, NothingSaid
<1>8. Problems(d) = {} <=>
        /\ d.nodes # NoNodes /\ NodeProblems(d.nodes) = {} /\ ~tokenless
        /\ NetworkProblems(d) = {} /\ MailProblems(d.mail) = {} /\ PackageProblems(d.packages) = {}
  <2> HIDE DEF tokenless
  <2> QED
    BY <1>6, <1>7
<1> QED
  BY <1>3, <1>5, <1>8

\* What one answer to a section does to the draft.
Follows(s, d, e, o) ==
    /\ e \in DraftType /\ WellMade(e) /\ o.enter \in BOOLEAN
    /\ Written(s, e[s])
    /\ o.enter /\ Written(s, d[s]) => AllKept(s, d[s], e[s])
    /\ Beside(s, d[s], e[s])
    /\ Len(d.nodes) <= Len(e.nodes) => NodesBeside(d.nodes, e.nodes)
    /\ s = "packages" => /\ o.ticked \subseteq Catalogue
                         /\ Enabled(e.packages.chosen) \intersect Catalogue = o.ticked
    /\ o.enter /\ WellSaid(d) => WellSaid(e)

LEMMA NothingBeside ==
    ASSUME NEW nodes
    PROVE  NodesBeside(nodes, nodes)
BY DEF NodesBeside

LEMMA PartsOfDraft ==
    ASSUME NEW d \in DraftType
    PROVE  /\ d.cluster \in ClusterType
           /\ d.nodes \in Seq(NodeType)
           /\ d.network \in NetworkType
           /\ d.storage \in StorageType
           /\ d.k3s \in STRING
           /\ d.registries \in [Host -> RegistryType]
           /\ d.packages \in PackagesType
           /\ d.mail \in MailType
BY DEF DraftType

LEMMA DraftCluster ==
    ASSUME NEW d \in DraftType, WellMade(d), NEW o \in ClusterOutcomes(d.cluster)
    PROVE  Follows("cluster", d, [d EXCEPT !["cluster"] = o.is], o)
<1> DEFINE e == [d EXCEPT !["cluster"] = o.is]
<1>1. d.cluster \in ClusterType
  BY PartsOfDraft
<1>2. /\ o.is \in ClusterType /\ o.enter \in BOOLEAN
      /\ Written("cluster", o.is)
      /\ o.enter /\ Written("cluster", d.cluster) => o.is = d.cluster
  BY <1>1, ClusterAnswers
<1>3. e \in DraftType
  BY <1>2 DEF DraftType
<1>4. /\ e.cluster = o.is
      /\ e.nodes = d.nodes /\ e.network = d.network /\ e.storage = d.storage /\ e.k3s = d.k3s
      /\ e.registries = d.registries /\ e.packages = d.packages /\ e.mail = d.mail
  BY DEF DraftType
<1> HIDE DEF e
<1>5. WellMade(e)
  BY <1>2, <1>4 DEF WellMade
<1>6. ASSUME o.enter, WellSaid(d)
      PROVE  WellSaid(e)
  <2>1. /\ d.nodes # NoNodes /\ NodeProblems(d.nodes) = {} /\ d.k3s # None
        /\ Gateways(d.nodes) # {} <=> d.network.addresses
        /\ d.network.mesh # None <=> d.network.apiKey
        /\ MailProblems(d.mail) = {} /\ PackageProblems(d.packages) = {} /\ ByRole(d.nodes)
    BY <1>6, NoProblems DEF WellSaid
  <2>2. /\ e.nodes # NoNodes /\ NodeProblems(e.nodes) = {} /\ e.k3s # None
        /\ Gateways(e.nodes) # {} <=> e.network.addresses
        /\ e.network.mesh # None <=> e.network.apiKey
        /\ MailProblems(e.mail) = {} /\ PackageProblems(e.packages) = {} /\ ByRole(e.nodes)
    BY <1>2, <1>4, <1>6, <2>1
  <2> QED
    BY <1>3, <2>2, NoProblems DEF WellSaid
<1>7. Written("cluster", e.cluster) /\ Beside("cluster", d.cluster, e.cluster)
  BY <1>2, <1>4 DEF Beside
<1>8. o.enter /\ Written("cluster", d.cluster) => AllKept("cluster", d.cluster, e.cluster)
  BY <1>2, <1>4 DEF AllKept, Kept
<1>9. Len(d.nodes) <= Len(e.nodes) => NodesBeside(d.nodes, e.nodes)
  BY <1>2, <1>4, NothingBeside
<1> QED
  BY <1>2, <1>3, <1>4, <1>5, <1>6, <1>7, <1>8, <1>9 DEF Follows, e

LEMMA DraftNodes ==
    ASSUME NEW d \in DraftType, WellMade(d), NEW o \in NodesOutcomes(d.nodes)
    PROVE  Follows("nodes", d, [d EXCEPT !["nodes"] = o.is], o)
<1> DEFINE e == [d EXCEPT !["nodes"] = o.is]
<1>1. d.nodes \in Seq(NodeType)
  BY PartsOfDraft
<1>2. Len(d.nodes) <= MaxNodes /\ ListsApart(d.nodes)
  BY DEF WellMade, ListsApart, MailWellMade
<1>3. /\ o.is \in Seq(NodeType) /\ Len(o.is) <= MaxNodes /\ o.enter \in BOOLEAN
      /\ ListsApart(o.is)
      /\ Len(d.nodes) <= Len(o.is) => NodesBeside(d.nodes, o.is)
      /\ o.enter => /\ AllKept("nodes", d.nodes, o.is)
                    /\ ByRole(d.nodes) => ByRole(o.is) /\ Alike(d.nodes, o.is)
  BY <1>1, <1>2, NodesAnswers
<1>4. e \in DraftType
  BY <1>3 DEF DraftType
<1>5. /\ e.nodes = o.is
      /\ e.cluster = d.cluster /\ e.network = d.network /\ e.storage = d.storage /\ e.k3s = d.k3s
      /\ e.registries = d.registries /\ e.packages = d.packages /\ e.mail = d.mail
  BY DEF DraftType
<1> HIDE DEF e
<1>6. WellMade(e)
  BY <1>3, <1>5 DEF WellMade, ListsApart
<1>7. ASSUME o.enter, WellSaid(d)
      PROVE  WellSaid(e)
  <2>1. /\ d.nodes # NoNodes /\ NodeProblems(d.nodes) = {} /\ d.k3s # None
        /\ Gateways(d.nodes) # {} <=> d.network.addresses
        /\ d.network.mesh # None <=> d.network.apiKey
        /\ MailProblems(d.mail) = {} /\ PackageProblems(d.packages) = {} /\ ByRole(d.nodes)
    BY <1>7, NoProblems DEF WellSaid
  <2>2. ByRole(o.is) /\ NodeProblems(o.is) = NodeProblems(d.nodes)
        /\ Gateways(o.is) = Gateways(d.nodes) /\ (o.is = NoNodes <=> d.nodes = NoNodes)
    BY <1>1, <1>3, <1>7, <2>1, AlikeNodes
  <2>3. /\ e.nodes # NoNodes /\ NodeProblems(e.nodes) = {} /\ e.k3s # None
        /\ Gateways(e.nodes) # {} <=> e.network.addresses
        /\ e.network.mesh # None <=> e.network.apiKey
        /\ MailProblems(e.mail) = {} /\ PackageProblems(e.packages) = {} /\ ByRole(e.nodes)
    BY <1>3, <1>5, <1>7, <2>1, <2>2
  <2> QED
    BY <1>4, <2>3, NoProblems DEF WellSaid
<1>8. Written("nodes", e.nodes) /\ Beside("nodes", d.nodes, e.nodes)
  BY <1>3, <1>5 DEF Written, Beside
<1>9. o.enter /\ Written("nodes", d.nodes) => AllKept("nodes", d.nodes, e.nodes)
  BY <1>3, <1>5 DEF AllKept
<1>10. Len(d.nodes) <= Len(e.nodes) => NodesBeside(d.nodes, e.nodes)
  BY <1>3, <1>5, NothingBeside
<1> QED
  BY <1>3, <1>4, <1>5, <1>6, <1>7, <1>8, <1>9, <1>10 DEF Follows, e

LEMMA DraftNetwork ==
    ASSUME NEW d \in DraftType, WellMade(d), NEW o \in NetworkOutcomes(d.network)
    PROVE  Follows("network", d, [d EXCEPT !["network"] = o.is], o)
<1> DEFINE e == [d EXCEPT !["network"] = o.is]
<1>1. d.network \in NetworkType
  BY PartsOfDraft
<1>2. /\ o.is \in NetworkType /\ o.enter \in BOOLEAN
      /\ Written("network", o.is) /\ Beside("network", d.network, o.is)
      /\ o.enter /\ Written("network", d.network) => o.is = d.network
      /\ o.enter => (o.is.mesh # None) = (d.network.mesh # None) /\ o.is.apiKey = d.network.apiKey
  BY <1>1, NetworkAnswers
<1>3. e \in DraftType
  BY <1>2 DEF DraftType
<1>4. /\ e.network = o.is
      /\ e.cluster = d.cluster /\ e.nodes = d.nodes /\ e.storage = d.storage /\ e.k3s = d.k3s
      /\ e.registries = d.registries /\ e.packages = d.packages /\ e.mail = d.mail
  BY DEF DraftType
<1> HIDE DEF e
<1>5. WellMade(e)
  BY <1>2, <1>4 DEF WellMade
<1>6. ASSUME o.enter, WellSaid(d)
      PROVE  WellSaid(e)
  <2>1. /\ d.nodes # NoNodes /\ NodeProblems(d.nodes) = {} /\ d.k3s # None
        /\ Gateways(d.nodes) # {} <=> d.network.addresses
        /\ d.network.mesh # None <=> d.network.apiKey
        /\ MailProblems(d.mail) = {} /\ PackageProblems(d.packages) = {} /\ ByRole(d.nodes)
    BY <1>6, NoProblems DEF WellSaid
  <2>2. o.is.addresses = d.network.addresses
    BY <1>2 DEF Beside
  <2>3. /\ e.nodes # NoNodes /\ NodeProblems(e.nodes) = {} /\ e.k3s # None
        /\ Gateways(e.nodes) # {} <=> e.network.addresses
        /\ e.network.mesh # None <=> e.network.apiKey
        /\ MailProblems(e.mail) = {} /\ PackageProblems(e.packages) = {} /\ ByRole(e.nodes)
    BY <1>2, <1>4, <1>6, <2>1, <2>2
  <2> QED
    BY <1>3, <2>3, NoProblems DEF WellSaid
<1>7. Written("network", e.network) /\ Beside("network", d.network, e.network)
  BY <1>2, <1>4
<1>8. o.enter /\ Written("network", d.network) => AllKept("network", d.network, e.network)
  BY <1>2, <1>4 DEF AllKept, Kept
<1>9. Len(d.nodes) <= Len(e.nodes) => NodesBeside(d.nodes, e.nodes)
  BY <1>2, <1>4, NothingBeside
<1> QED
  BY <1>2, <1>3, <1>4, <1>5, <1>6, <1>7, <1>8, <1>9 DEF Follows, e

LEMMA DraftStorage ==
    ASSUME NEW d \in DraftType, WellMade(d), NEW o \in StorageOutcomes(d.storage)
    PROVE  Follows("storage", d, [d EXCEPT !["storage"] = o.is], o)
<1> DEFINE e == [d EXCEPT !["storage"] = o.is]
<1>1. d.storage \in StorageType
  BY PartsOfDraft
<1>2. /\ o.is \in StorageType /\ o.enter \in BOOLEAN
      /\ Written("storage", o.is)
      /\ o.enter /\ Written("storage", d.storage) => o.is = d.storage
  BY <1>1, StorageAnswers
<1>3. e \in DraftType
  BY <1>2 DEF DraftType
<1>4. /\ e.storage = o.is
      /\ e.cluster = d.cluster /\ e.nodes = d.nodes /\ e.network = d.network /\ e.k3s = d.k3s
      /\ e.registries = d.registries /\ e.packages = d.packages /\ e.mail = d.mail
  BY DEF DraftType
<1> HIDE DEF e
<1>5. WellMade(e)
  BY <1>2, <1>4 DEF WellMade
<1>6. ASSUME o.enter, WellSaid(d)
      PROVE  WellSaid(e)
  <2>1. /\ d.nodes # NoNodes /\ NodeProblems(d.nodes) = {} /\ d.k3s # None
        /\ Gateways(d.nodes) # {} <=> d.network.addresses
        /\ d.network.mesh # None <=> d.network.apiKey
        /\ MailProblems(d.mail) = {} /\ PackageProblems(d.packages) = {} /\ ByRole(d.nodes)
    BY <1>6, NoProblems DEF WellSaid
  <2>2. /\ e.nodes # NoNodes /\ NodeProblems(e.nodes) = {} /\ e.k3s # None
        /\ Gateways(e.nodes) # {} <=> e.network.addresses
        /\ e.network.mesh # None <=> e.network.apiKey
        /\ MailProblems(e.mail) = {} /\ PackageProblems(e.packages) = {} /\ ByRole(e.nodes)
    BY <1>2, <1>4, <1>6, <2>1
  <2> QED
    BY <1>3, <2>2, NoProblems DEF WellSaid
<1>7. Written("storage", e.storage) /\ Beside("storage", d.storage, e.storage)
  BY <1>2, <1>4 DEF Beside
<1>8. o.enter /\ Written("storage", d.storage) => AllKept("storage", d.storage, e.storage)
  BY <1>2, <1>4 DEF AllKept, Kept
<1>9. Len(d.nodes) <= Len(e.nodes) => NodesBeside(d.nodes, e.nodes)
  BY <1>2, <1>4, NothingBeside
<1> QED
  BY <1>2, <1>3, <1>4, <1>5, <1>6, <1>7, <1>8, <1>9 DEF Follows, e

LEMMA DraftK3s ==
    ASSUME NEW d \in DraftType, WellMade(d), NEW o \in K3sOutcomes(d.k3s)
    PROVE  Follows("k3s", d, [d EXCEPT !["k3s"] = o.is], o)
<1> DEFINE e == [d EXCEPT !["k3s"] = o.is]
<1>1. d.k3s \in STRING
  BY PartsOfDraft
<1>2. /\ o.is \in STRING /\ o.enter \in BOOLEAN
      /\ o.enter /\ d.k3s # None => o.is = d.k3s
  BY <1>1, K3sAnswers
<1>3. e \in DraftType
  BY <1>2 DEF DraftType
<1>4. /\ e.k3s = o.is
      /\ e.cluster = d.cluster /\ e.nodes = d.nodes /\ e.network = d.network /\ e.storage = d.storage
      /\ e.registries = d.registries /\ e.packages = d.packages /\ e.mail = d.mail
  BY DEF DraftType
<1> HIDE DEF e
<1>5. WellMade(e)
  BY <1>2, <1>4 DEF WellMade
<1>6. ASSUME o.enter, WellSaid(d)
      PROVE  WellSaid(e)
  <2>1. /\ d.nodes # NoNodes /\ NodeProblems(d.nodes) = {} /\ d.k3s # None
        /\ Gateways(d.nodes) # {} <=> d.network.addresses
        /\ d.network.mesh # None <=> d.network.apiKey
        /\ MailProblems(d.mail) = {} /\ PackageProblems(d.packages) = {} /\ ByRole(d.nodes)
    BY <1>6, NoProblems DEF WellSaid
  <2>2. /\ e.nodes # NoNodes /\ NodeProblems(e.nodes) = {} /\ e.k3s # None
        /\ Gateways(e.nodes) # {} <=> e.network.addresses
        /\ e.network.mesh # None <=> e.network.apiKey
        /\ MailProblems(e.mail) = {} /\ PackageProblems(e.packages) = {} /\ ByRole(e.nodes)
    BY <1>2, <1>4, <1>6, <2>1
  <2> QED
    BY <1>3, <2>2, NoProblems DEF WellSaid
<1>7. Written("k3s", e.k3s) /\ Beside("k3s", d.k3s, e.k3s)
  BY <1>2, <1>4 DEF Written, Beside
<1>8. o.enter /\ Written("k3s", d.k3s) => AllKept("k3s", d.k3s, e.k3s)
  BY <1>2, <1>4 DEF AllKept, Kept
<1>9. Len(d.nodes) <= Len(e.nodes) => NodesBeside(d.nodes, e.nodes)
  BY <1>2, <1>4, NothingBeside
<1> QED
  BY <1>2, <1>3, <1>4, <1>5, <1>6, <1>7, <1>8, <1>9 DEF Follows, e

LEMMA DraftRegistries ==
    ASSUME NEW d \in DraftType, WellMade(d), NEW o \in RegistriesOutcomes(d.registries)
    PROVE  Follows("registries", d, [d EXCEPT !["registries"] = o.is], o)
<1> DEFINE e == [d EXCEPT !["registries"] = o.is]
<1>1. d.registries \in [Host -> RegistryType]
  BY PartsOfDraft
<1>2. \A h \in Host : (d.registries[h].user = None) = (d.registries[h].secret = None)
  BY DEF WellMade, ListsApart, MailWellMade
<1>3. /\ o.is \in [Host -> RegistryType] /\ o.enter \in BOOLEAN
      /\ \A h \in Host : (o.is[h].user = None) = (o.is[h].secret = None)
      /\ Beside("registries", d.registries, o.is)
      /\ o.enter => o.is = d.registries
  BY <1>1, <1>2, RegistryAnswers
<1>4. e \in DraftType
  BY <1>3 DEF DraftType
<1>5. /\ e.registries = o.is
      /\ e.cluster = d.cluster /\ e.nodes = d.nodes /\ e.network = d.network /\ e.storage = d.storage
      /\ e.k3s = d.k3s /\ e.packages = d.packages /\ e.mail = d.mail
  BY DEF DraftType
<1> HIDE DEF e
<1>6. WellMade(e)
  BY <1>3, <1>5 DEF WellMade
<1>7. ASSUME o.enter, WellSaid(d)
      PROVE  WellSaid(e)
  <2>1. /\ d.nodes # NoNodes /\ NodeProblems(d.nodes) = {} /\ d.k3s # None
        /\ Gateways(d.nodes) # {} <=> d.network.addresses
        /\ d.network.mesh # None <=> d.network.apiKey
        /\ MailProblems(d.mail) = {} /\ PackageProblems(d.packages) = {} /\ ByRole(d.nodes)
    BY <1>7, NoProblems DEF WellSaid
  <2>2. /\ e.nodes # NoNodes /\ NodeProblems(e.nodes) = {} /\ e.k3s # None
        /\ Gateways(e.nodes) # {} <=> e.network.addresses
        /\ e.network.mesh # None <=> e.network.apiKey
        /\ MailProblems(e.mail) = {} /\ PackageProblems(e.packages) = {} /\ ByRole(e.nodes)
    BY <1>3, <1>5, <1>7, <2>1
  <2> QED
    BY <1>4, <2>2, NoProblems DEF WellSaid
<1>8. Written("registries", e.registries) /\ Beside("registries", d.registries, e.registries)
  BY <1>3, <1>5 DEF Written
<1>9. o.enter /\ Written("registries", d.registries) => AllKept("registries", d.registries, e.registries)
  BY <1>3, <1>5 DEF AllKept, Kept
<1>10. Len(d.nodes) <= Len(e.nodes) => NodesBeside(d.nodes, e.nodes)
  BY <1>3, <1>5, NothingBeside
<1> QED
  BY <1>3, <1>4, <1>5, <1>6, <1>7, <1>8, <1>9, <1>10 DEF Follows, e

LEMMA DraftPackages ==
    ASSUME NEW d \in DraftType, WellMade(d), NEW o \in PackagesOutcomes(d.packages)
    PROVE  Follows("packages", d, [d EXCEPT !["packages"] = o.is], o)
<1> DEFINE e == [d EXCEPT !["packages"] = o.is]
<1>1. d.packages \in PackagesType
  BY PartsOfDraft
<1>2. /\ o.is \in PackagesType /\ o.enter \in BOOLEAN /\ o.ticked \subseteq Catalogue
      /\ Written("packages", o.is) /\ Beside("packages", d.packages, o.is)
      /\ Enabled(o.is.chosen) \intersect Catalogue = o.ticked
      /\ o.enter /\ Written("packages", d.packages) => Kept("packages", d.packages, o.is)
      /\ o.enter /\ PackageProblems(d.packages) = {} => PackageProblems(o.is) = {}
  BY <1>1, PackagesAnswers
<1>3. e \in DraftType
  BY <1>2 DEF DraftType
<1>4. /\ e.packages = o.is
      /\ e.cluster = d.cluster /\ e.nodes = d.nodes /\ e.network = d.network /\ e.storage = d.storage
      /\ e.k3s = d.k3s /\ e.registries = d.registries /\ e.mail = d.mail
  BY DEF DraftType
<1> HIDE DEF e
<1>5. WellMade(e)
  BY <1>2, <1>4 DEF WellMade
<1>6. ASSUME o.enter, WellSaid(d)
      PROVE  WellSaid(e)
  <2>1. /\ d.nodes # NoNodes /\ NodeProblems(d.nodes) = {} /\ d.k3s # None
        /\ Gateways(d.nodes) # {} <=> d.network.addresses
        /\ d.network.mesh # None <=> d.network.apiKey
        /\ MailProblems(d.mail) = {} /\ PackageProblems(d.packages) = {} /\ ByRole(d.nodes)
    BY <1>6, NoProblems DEF WellSaid
  <2>2. /\ e.nodes # NoNodes /\ NodeProblems(e.nodes) = {} /\ e.k3s # None
        /\ Gateways(e.nodes) # {} <=> e.network.addresses
        /\ e.network.mesh # None <=> e.network.apiKey
        /\ MailProblems(e.mail) = {} /\ PackageProblems(e.packages) = {} /\ ByRole(e.nodes)
    BY <1>2, <1>4, <1>6, <2>1
  <2> QED
    BY <1>3, <2>2, NoProblems DEF WellSaid
<1>7. Written("packages", e.packages) /\ Beside("packages", d.packages, e.packages)
  BY <1>2, <1>4
<1>8. o.enter /\ Written("packages", d.packages) => AllKept("packages", d.packages, e.packages)
  BY <1>2, <1>4 DEF AllKept
<1>9. Len(d.nodes) <= Len(e.nodes) => NodesBeside(d.nodes, e.nodes)
  BY <1>2, <1>4, NothingBeside
<1> QED
  BY <1>2, <1>3, <1>4, <1>5, <1>6, <1>7, <1>8, <1>9 DEF Follows, e

LEMMA DraftMail ==
    ASSUME NEW d \in DraftType, WellMade(d), NEW o \in MailOutcomes(d.mail)
    PROVE  Follows("mail", d, [d EXCEPT !["mail"] = o.is], o)
<1> DEFINE e == [d EXCEPT !["mail"] = o.is]
<1>1. d.mail \in MailType
  BY PartsOfDraft
<1>2. MailWellMade(d.mail)
  BY DEF WellMade, ListsApart, MailWellMade
<1>3. /\ o.is \in MailType /\ MailWellMade(o.is) /\ o.enter \in BOOLEAN
      /\ o.enter /\ MailProblems(d.mail) = {} => WithPorts(o.is) = WithPorts(d.mail)
  BY <1>1, <1>2, MailAnswers
<1>4. e \in DraftType
  BY <1>3 DEF DraftType
<1>5. /\ e.mail = o.is
      /\ e.cluster = d.cluster /\ e.nodes = d.nodes /\ e.network = d.network /\ e.storage = d.storage
      /\ e.k3s = d.k3s /\ e.registries = d.registries /\ e.packages = d.packages
  BY DEF DraftType
<1> HIDE DEF e
<1>6. WellMade(e)
  BY <1>3, <1>5 DEF WellMade, MailWellMade
<1>7. ASSUME o.enter, WellSaid(d)
      PROVE  WellSaid(e)
  <2>1. /\ d.nodes # NoNodes /\ NodeProblems(d.nodes) = {} /\ d.k3s # None
        /\ Gateways(d.nodes) # {} <=> d.network.addresses
        /\ d.network.mesh # None <=> d.network.apiKey
        /\ MailProblems(d.mail) = {} /\ PackageProblems(d.packages) = {} /\ ByRole(d.nodes)
    BY <1>7, NoProblems DEF WellSaid
  <2>2. MailProblems(o.is) = {}
    BY <1>1, <1>3, <1>7, <2>1, SameProblems
  <2>3. /\ e.nodes # NoNodes /\ NodeProblems(e.nodes) = {} /\ e.k3s # None
        /\ Gateways(e.nodes) # {} <=> e.network.addresses
        /\ e.network.mesh # None <=> e.network.apiKey
        /\ MailProblems(e.mail) = {} /\ PackageProblems(e.packages) = {} /\ ByRole(e.nodes)
    BY <1>3, <1>5, <1>7, <2>1, <2>2
  <2> QED
    BY <1>4, <2>3, NoProblems DEF WellSaid
<1>8. Written("mail", e.mail) /\ Beside("mail", d.mail, e.mail)
  BY <1>3, <1>5 DEF Written, Beside
<1>9. o.enter /\ Written("mail", d.mail) => AllKept("mail", d.mail, e.mail)
  BY <1>3, <1>5 DEF AllKept, Kept
<1>10. Len(d.nodes) <= Len(e.nodes) => NodesBeside(d.nodes, e.nodes)
  BY <1>3, <1>5, NothingBeside
<1> QED
  BY <1>3, <1>4, <1>5, <1>6, <1>7, <1>8, <1>9, <1>10 DEF Follows, e

LEMMA OutcomeFollows ==
    ASSUME NEW d \in DraftType, WellMade(d), NEW s \in Sections, NEW o \in Outcomes(s, d[s])
    PROVE  Follows(s, d, [d EXCEPT ![s] = o.is], o)
<1>1. CASE s = "cluster"
  BY <1>1, DraftCluster DEF Outcomes
<1>2. CASE s = "nodes"
  BY <1>2, DraftNodes DEF Outcomes
<1>3. CASE s = "network"
  BY <1>3, DraftNetwork DEF Outcomes
<1>4. CASE s = "storage"
  BY <1>4, DraftStorage DEF Outcomes
<1>5. CASE s = "k3s"
  BY <1>5, DraftK3s DEF Outcomes
<1>6. CASE s = "registries"
  BY <1>6, DraftRegistries DEF Outcomes
<1>7. CASE s = "packages"
  BY <1>7, DraftPackages DEF Outcomes
<1>8. CASE s = "mail"
  BY <1>8, DraftMail DEF Outcomes
<1> QED
  BY <1>1, <1>2, <1>3, <1>4, <1>5, <1>6, <1>7, <1>8, SectionsAre

\* Every section can be gone through somehow.
LEMMA SomeOutcome ==
    ASSUME NEW d \in DraftType, NEW s \in Sections
    PROVE  Outcomes(s, d[s]) # {}
<1>1. CASE s = "cluster"
  <2>1. PICK m \in Domain : TRUE
    BY AnswersAssumption
  <2>2. [t \in Service |-> m] \in [Service -> Domain]
    OBVIOUS
  <2> DEFINE x == ClusterAnswered(d.cluster, m, TRUE, [t \in Service |-> m])
  <2>3. \E org \in Domain, derived \in BOOLEAN, asked \in [Service -> Domain] :
           x = ClusterAnswered(d.cluster, org, derived, asked)
    BY <2>1, <2>2
  <2> HIDE DEF x
  <2>4. x \in ClusterOutcomes(d.cluster)
    BY <2>3 DEF ClusterOutcomes
  <2> QED
    BY <1>1, <2>4 DEF Outcomes
<1>2. CASE s = "nodes"
  <2>1. [is |-> d.nodes, enter |-> TRUE] \in NodesOutcomes(d.nodes)
    BY DEF NodesOutcomes
  <2> QED
    BY <1>2, <2>1 DEF Outcomes
<1>3. CASE s = "network"
  <2> DEFINE x == NetworkAnswered(d.network, "bbr", "replaced", TRUE, TRUE)
  <2>1. \E c \in {"bbr", "cubic"}, k \in {"replaced", "usual"}, joins \in BOOLEAN, key \in BOOLEAN :
           x = NetworkAnswered(d.network, c, k, joins, key)
    OBVIOUS
  <2> HIDE DEF x
  <2>2. x \in NetworkOutcomes(d.network)
    BY <2>1 DEF NetworkOutcomes
  <2> QED
    BY <1>3, <2>2 DEF Outcomes
<1>4. CASE s = "storage"
  <2>1. [c \in Claim |-> 30] \in [Claim -> Size]
    BY DEF Size
  <2>2. StorageOutcomes(d.storage) # {}
    BY <2>1 DEF StorageOutcomes
  <2> QED
    BY <1>4, <2>2 DEF Outcomes
<1>5. CASE s = "k3s"
  <2>1. K3sOutcomes(d.k3s) # {}
    BY DEF K3sOutcomes
  <2> QED
    BY <1>5, <2>1 DEF Outcomes
<1>6. CASE s = "registries"
  <2>1. [is |-> d.registries, enter |-> TRUE] \in RegistriesOutcomes(d.registries)
    BY DEF RegistriesOutcomes
  <2> QED
    BY <1>6, <2>1 DEF Outcomes
<1>7. CASE s = "packages"
  <2> DEFINE x == PackagesAnswered(d.packages, {}, TRUE, "local")
  <2>1. \E some \in SUBSET Catalogue, generate \in BOOLEAN, store \in {"local", "s3"} :
           x = PackagesAnswered(d.packages, some, generate, store)
    OBVIOUS
  <2> HIDE DEF x
  <2>2. x \in PackagesOutcomes(d.packages)
    BY <2>1 DEF PackagesOutcomes
  <2> QED
    BY <1>7, <2>2 DEF Outcomes
<1>8. CASE s = "mail"
  <2>1. [is |-> Nobody, enter |-> d.mail.shape # "namespaces"] \in MailOutcomes(d.mail)
    BY DEF MailOutcomes
  <2> QED
    BY <1>8, <2>1 DEF Outcomes
<1> QED
  BY <1>1, <1>2, <1>3, <1>4, <1>5, <1>6, <1>7, <1>8, SectionsAre

LEMMA UsualIsPossible ==
    ASSUME NEW S, S # {}, NEW o \in Usual(S)
    PROVE  o \in S
<1>1. (CHOOSE x \in S : TRUE) \in S
  <2>1. \E x : x \in S
    OBVIOUS
  <2> QED
    BY <2>1
<1> QED
  BY <1>1 DEF Usual

LEMMA BesideOn ==
    ASSUME NEW s \in Sections, NEW a \in DraftType, NEW b \in DraftType, NEW c \in DraftType,
           Beside(s, a[s], b[s]), Beside(s, b[s], c[s])
    PROVE  Beside(s, a[s], c[s])
<1>1. CASE s = "network"
  BY <1>1 DEF Beside
<1>2. CASE s = "registries"
  BY <1>2 DEF Beside
<1>3. CASE s = "packages"
  BY <1>3 DEF Beside
<1>4. CASE s \notin {"network", "registries", "packages"}
  BY <1>4 DEF Beside
<1> QED
  BY <1>1, <1>2, <1>3, <1>4

LEMMA BesideItself ==
    ASSUME NEW s, NEW says
    PROVE  Beside(s, says, says)
BY DEF Beside

LEMMA NodesBesideOn ==
    ASSUME NEW a \in Seq(NodeType), NEW b \in Seq(NodeType), NEW c \in Seq(NodeType),
           NodesBeside(a, b), NodesBeside(b, c)
    PROVE  NodesBeside(a, c)
BY DEF NodesBeside

LEMMA EmptyIsDraft ==
    /\ EmptyDraft \in DraftType /\ WellMade(EmptyDraft)
    /\ Closed.at = "closed" /\ Closed.draft = EmptyDraft /\ Closed.loaded = EmptyDraft
    /\ Closed \in [at : {"closed", "open", "writing"}, mode : {"walk", "menu"}, draft : DraftType,
                   loaded : DraftType, ran : SUBSET Sections, entered : BOOLEAN]
<1>1. NoServer \in ServerType /\ None \in STRING
  BY LiteralsAssumption DEF ServerType
<1>2. NoMail \in SpaceType /\ NoMail.given = FALSE
  BY <1>1 DEF NoMail, SpaceType
<1> DEFINE cluster  == [main |-> None, hosts |-> [s \in Service |-> None]]
           network  == [congestion |-> None, qdisc |-> None, kubeProxy |-> None, mesh |-> None,
                        apiKey |-> FALSE, addresses |-> FALSE]
           volumes  == [c \in Claim |-> 0]
           logins   == [h \in Host |-> NoRegistry]
           packages == [chosen |-> [p \in Package |-> None], secretKey |-> FALSE, store |-> None]
           mail     == [shape |-> None, defaults |-> NoServer, spaces |-> [n \in Namespace |-> NoMail]]
<1>3. cluster \in ClusterType
  BY DEF ClusterType
<1>4. network \in NetworkType
  BY <1>1 DEF NetworkType
<1>5. volumes \in StorageType
  BY DEF StorageType
<1>6. logins \in [Host -> RegistryType] /\ \A h \in Host : logins[h].user = None /\ logins[h].secret = None
  <2>1. NoRegistry \in RegistryType /\ NoRegistry.user = None /\ NoRegistry.secret = None
    BY <1>1 DEF NoRegistry, RegistryType
  <2> QED
    BY <2>1
<1>7. packages \in PackagesType
  <2>1. [p \in Package |-> None] \in [Package -> ChoiceType]
    BY DEF ChoiceType
  <2> QED
    BY <2>1 DEF PackagesType
<1>8. mail \in MailType /\ mail.shape = None /\ mail.defaults = NoServer
      /\ \A n \in Namespace : mail.spaces[n] = NoMail
  <2>1. [n \in Namespace |-> NoMail] \in [Namespace -> SpaceType]
    BY <1>2
  <2> QED
    BY <1>1, <2>1 DEF MailType
<1>9. NoNodes \in Seq(NodeType) /\ Len(NoNodes) = 0 /\ DOMAIN NoNodes = {}
  BY DEF NoNodes
<1>10. EmptyDraft = [cluster |-> cluster, nodes |-> NoNodes, network |-> network, storage |-> volumes,
                     k3s |-> None, registries |-> logins, packages |-> packages, mail |-> mail]
  BY DEF EmptyDraft
<1> HIDE DEF cluster, network, volumes, logins, packages, mail
<1>11. EmptyDraft \in DraftType
  BY <1>1, <1>3, <1>4, <1>5, <1>6, <1>7, <1>8, <1>9, <1>10 DEF DraftType
<1>12. WellMade(EmptyDraft)
  <2>1. EmptyDraft.nodes = NoNodes /\ EmptyDraft.registries = logins /\ EmptyDraft.mail = mail
    BY <1>10
  <2> QED
    BY <1>6, <1>8, <1>9, <2>1, AnswersAssumption DEF WellMade
<1>13. Closed = [at |-> "closed", mode |-> "menu", draft |-> EmptyDraft, loaded |-> EmptyDraft,
                 ran |-> {}, entered |-> TRUE]
  BY DEF Closed
<1> QED
  BY <1>11, <1>12, <1>13

LEMMA ConfigureStarts == ConfigureInit => ConfigureIInv
<1> SUFFICES ASSUME ConfigureInit
             PROVE  ConfigureIInv
  OBVIOUS
<1>1. /\ file \in [is : {"missing", "broken", "config"}, draft : DraftType]
      /\ WellMade(file.draft)
  <2>1. CASE file = NoFile
    BY <2>1, EmptyIsDraft DEF NoFile
  <2>2. CASE file = Broken
    BY <2>2, EmptyIsDraft DEF Broken
  <2>3. ASSUME NEW d \in HandWritten, file = [is |-> "config", draft |-> d]
        PROVE  /\ file \in [is : {"missing", "broken", "config"}, draft : DraftType]
               /\ WellMade(file.draft)
    BY <2>3, HandWrittenAssumption
  <2> QED
    BY <2>1, <2>2, <2>3 DEF ConfigureInit
<1>2. session = Closed /\ subject \in Sections /\ runs = 0 /\ wrote = {} /\ ticked = {} /\ removed = FALSE
  BY DEF ConfigureInit
<1>3. runs \in 0..MaxRuns
  BY <1>2, AnswersAssumption
<1>4. ConfigureTypes
  BY <1>1, <1>2, <1>3, EmptyIsDraft DEF ConfigureTypes
<1>5. session.at = "closed"
  BY <1>2, EmptyIsDraft
<1> QED
  BY <1>2, <1>4, <1>5 DEF ConfigureIInv

\* An answer, given: the draft follows from the one before it, and so does all
\* that is known of what was loaded.
LEMMA AnswersGiven ==
    ASSUME ConfigureIInv, NEW s \in Sections, RunSection(s)
    PROVE  ConfigureIInv'
<1> DEFINE d   == session.draft
           old == session.loaded
<1>1. ConfigureTypes /\ session.at = "open" /\ SessionInv
  BY DEF ConfigureIInv, RunSection
<1>2. d \in DraftType /\ old \in DraftType /\ WellMade(d) /\ WellMade(old)
  BY <1>1 DEF ConfigureTypes
<1>3. PICK o \in IF s = subject THEN Outcomes(s, d[s]) ELSE Usual(Outcomes(s, d[s])) :
         /\ session' = [session EXCEPT !.draft[s] = o.is, !.ran = @ \union {s},
                                       !.entered = @ /\ o.enter]
         /\ ticked' = IF s = "packages" THEN o.ticked ELSE ticked
         /\ removed' = (removed \/ (s = "nodes" /\ Len(o.is) < Len(d.nodes)))
  BY DEF RunSection
<1>4. o \in Outcomes(s, d[s])
  BY <1>2, <1>3, SomeOutcome, UsualIsPossible
<1> DEFINE e == [d EXCEPT ![s] = o.is]
<1>5. Follows(s, d, e, o)
  BY <1>2, <1>4, OutcomeFollows
<1>6. o.enter \in BOOLEAN /\ session.entered \in BOOLEAN /\ removed \in BOOLEAN
  BY <1>1, <1>5 DEF Follows, ConfigureTypes
<1>7. /\ e[s] = o.is
      /\ \A t \in Sections \ {s} : e[t] = d[t]
  BY <1>2, SectionsAre DEF DraftType
<1>8. /\ session'.draft = e /\ session'.loaded = old /\ session'.at = "open"
      /\ session'.mode = session.mode
      /\ session'.ran = session.ran \union {s}
      /\ session'.entered = (session.entered /\ o.enter)
      /\ session' = [at |-> session'.at, mode |-> session'.mode, draft |-> session'.draft,
                     loaded |-> session'.loaded, ran |-> session'.ran, entered |-> session'.entered]
  BY <1>1, <1>3, <1>6 DEF ConfigureTypes
<1>9. UNCHANGED <<file, subject, wrote>> /\ runs' \in 0..MaxRuns
  BY <1>1, AnswersAssumption DEF RunSection, ConfigureTypes
<1> HIDE DEF e
<1>10. e \in DraftType /\ WellMade(e)
  BY <1>5 DEF Follows
<1>11. ConfigureTypes'
  <2>1. ticked' \subseteq Catalogue
    BY <1>1, <1>3, <1>5 DEF Follows, ConfigureTypes
  <2>2. session' \in [at : {"closed", "open", "writing"}, mode : {"walk", "menu"}, draft : DraftType,
                      loaded : DraftType, ran : SUBSET Sections, entered : BOOLEAN]
    <3>1. session.mode \in {"walk", "menu"} /\ session.ran \in SUBSET Sections
      BY <1>1 DEF ConfigureTypes
    <3>2. session'.entered \in BOOLEAN
      BY <1>6, <1>8
    <3>3. /\ session'.at \in {"closed", "open", "writing"} /\ session'.mode \in {"walk", "menu"}
          /\ session'.draft \in DraftType /\ session'.loaded \in DraftType
          /\ session'.ran \in SUBSET Sections
      BY <1>2, <1>8, <1>10, <3>1
    <3> QED
      BY <1>8, <3>2, <3>3
  <2>3. removed' \in BOOLEAN
    BY <1>3, <1>6
  <2> QED
    BY <1>1, <1>2, <1>8, <1>9, <1>10, <2>1, <2>2, <2>3 DEF ConfigureTypes
<1>12. \A t \in Sections \ session'.ran : e[t] = old[t]
  BY <1>1, <1>7, <1>8 DEF SessionInv
<1>13. \A t \in wrote : Written(t, old[t])
  BY <1>1 DEF SessionInv
<1>14. \A t \in wrote \union session'.ran : Written(t, e[t])
  <2>1. Written(s, e[s])
    BY <1>5 DEF Follows
  <2>2. \A t \in wrote \union session.ran : Written(t, d[t]) /\ t \in Sections
    BY <1>1 DEF SessionInv, ConfigureTypes
  <2> QED
    BY <1>7, <1>8, <2>1, <2>2
<1>15. ASSUME session'.entered
       PROVE  \A t \in wrote \intersect session'.ran : AllKept(t, old[t], e[t])
  <2>1. session.entered /\ o.enter
    BY <1>6, <1>8, <1>15
  <2>2. \A t \in wrote \intersect session.ran : AllKept(t, old[t], d[t]) /\ t \in Sections
    BY <1>1, <2>1 DEF SessionInv, ConfigureTypes
  <2>3. ASSUME s \in wrote
        PROVE  AllKept(s, old[s], e[s])
    <3>1. Written(s, d[s])
      BY <1>1, <2>3 DEF SessionInv
    <3>2. AllKept(s, d[s], e[s])
      BY <1>5, <2>1, <3>1 DEF Follows
    <3>3. CASE s \in session.ran
      BY <1>2, <1>10, <2>2, <2>3, <3>2, <3>3, KeptOn
    <3>4. CASE s \notin session.ran
      BY <1>1, <3>2, <3>4 DEF SessionInv
    <3> QED
      BY <3>3, <3>4
  <2> QED
    BY <1>7, <1>8, <2>2, <2>3
<1>16. \A t \in Sections : Beside(t, old[t], e[t])
  <2>1. \A t \in Sections : Beside(t, old[t], d[t])
    BY <1>1 DEF SessionInv
  <2>2. Beside(s, d[s], e[s])
    BY <1>5 DEF Follows
  <2>3. Beside(s, old[s], e[s])
    BY <1>2, <1>10, <2>1, <2>2, BesideOn
  <2> QED
    BY <1>7, <2>1, <2>3
<1>17. ASSUME ~removed'
       PROVE  NodesBeside(old.nodes, e.nodes)
  <2>1. ~removed /\ ~(s = "nodes" /\ Len(o.is) < Len(d.nodes))
    BY <1>3, <1>6, <1>17
  <2>2. NodesBeside(old.nodes, d.nodes)
    BY <1>1, <2>1 DEF SessionInv
  <2>3. old.nodes \in Seq(NodeType) /\ d.nodes \in Seq(NodeType) /\ e.nodes \in Seq(NodeType)
    BY <1>2, <1>10, PartsOfDraft
  <2>4. CASE s = "nodes"
    <3>1. Len(d.nodes) <= Len(e.nodes)
      BY <1>7, <2>1, <2>3, <2>4
    <3>2. NodesBeside(d.nodes, e.nodes)
      BY <1>5, <3>1 DEF Follows
    <3> QED
      BY <2>2, <2>3, <3>2, NodesBesideOn
  <2>5. CASE s # "nodes"
    BY <1>7, <2>2, <2>5, SectionsAre
  <2> QED
    BY <2>4, <2>5
<1>18. ASSUME "packages" \in session'.ran
       PROVE  Enabled(e.packages.chosen) \intersect Catalogue = ticked'
  <2>1. CASE s = "packages"
    BY <1>3, <1>5, <2>1 DEF Follows
  <2>2. CASE s # "packages"
    <3>1. e.packages = d.packages /\ ticked' = ticked /\ "packages" \in session.ran
      BY <1>3, <1>7, <1>8, <1>18, <2>2, SectionsAre
    <3> QED
      BY <1>1, <3>1 DEF SessionInv
  <2> QED
    BY <2>1, <2>2
<1>19. ASSUME session'.entered, WellSaid(old)
       PROVE  WellSaid(e)
  <2>1. session.entered /\ o.enter
    BY <1>6, <1>8, <1>19
  <2>2. WellSaid(d)
    BY <1>1, <1>19, <2>1 DEF SessionInv
  <2> QED
    BY <1>5, <2>1, <2>2 DEF Follows
<1>20. SessionInv'
  <2>1. wrote' = wrote
    BY <1>9
  <2> QED
    BY <1>8, <1>12, <1>13, <1>14, <1>15, <1>16, <1>17, <1>18, <1>19, <2>1 DEF SessionInv
<1>21. /\ session'.at = "writing" => file' = Broken
       /\ file'.is # "broken" => \A t \in wrote' : Written(t, file'.draft[t])
  BY <1>8, <1>9 DEF ConfigureIInv
<1> QED
  BY <1>11, <1>20, <1>21 DEF ConfigureIInv

LEMMA SessionsOpened ==
    ASSUME ConfigureIInv, Open
    PROVE  ConfigureIInv'
<1>1. ConfigureTypes /\ file.is # "broken"
  BY DEF ConfigureIInv, Open
<1>2. PICK m \in {"walk", "menu"} :
         session' = [Closed EXCEPT !.at = "open", !.mode = m, !.draft = file.draft, !.loaded = file.draft]
  BY DEF Open
<1>3. session' = [at |-> "open", mode |-> m, draft |-> file.draft, loaded |-> file.draft,
                  ran |-> {}, entered |-> TRUE]
  BY <1>2 DEF Closed
<1>4. removed' = FALSE /\ UNCHANGED <<file, subject, runs, wrote, ticked>>
  BY DEF Open
<1>5. file.draft \in DraftType /\ WellMade(file.draft)
  BY <1>1 DEF ConfigureTypes
<1>6. ConfigureTypes'
  <2>1. session' \in [at : {"closed", "open", "writing"}, mode : {"walk", "menu"}, draft : DraftType,
                      loaded : DraftType, ran : SUBSET Sections, entered : BOOLEAN]
    BY <1>3, <1>5
  <2>2. WellMade(session'.draft) /\ WellMade(session'.loaded)
    BY <1>3, <1>5
  <2> QED
    BY <1>1, <1>4, <2>1, <2>2 DEF ConfigureTypes
<1>7. \A s \in wrote : Written(s, file.draft[s])
  BY <1>1 DEF ConfigureIInv
<1>8. SessionInv'
  <2>1. /\ session'.draft = file.draft /\ session'.loaded = file.draft /\ session'.ran = {}
        /\ wrote' = wrote
    BY <1>3, <1>4
  <2>2. \A s \in Sections : Beside(s, file.draft[s], file.draft[s])
    BY BesideItself
  <2>3. NodesBeside(file.draft.nodes, file.draft.nodes)
    BY NothingBeside
  <2> QED
    BY <1>7, <2>1, <2>2, <2>3 DEF SessionInv
<1> QED
  BY <1>3, <1>4, <1>6, <1>7, <1>8 DEF ConfigureIInv

LEMMA SessionsEnded ==
    ASSUME ConfigureIInv, Leave \/ Crash
    PROVE  ConfigureIInv'
<1>1. session' = Closed /\ UNCHANGED <<file, subject, runs, wrote, ticked, removed>>
  BY DEF Leave, Crash
<1> QED
  BY <1>1, EmptyIsDraft DEF ConfigureIInv, ConfigureTypes

LEMMA SavingStarted ==
    ASSUME ConfigureIInv, StartSaving
    PROVE  ConfigureIInv'
<1>1. /\ ConfigureTypes /\ SessionInv
      /\ file' = Broken /\ session' = [session EXCEPT !.at = "writing"]
      /\ UNCHANGED <<subject, runs, wrote, ticked, removed>>
  BY DEF ConfigureIInv, StartSaving
<1>2. /\ session'.at = "writing" /\ session'.mode = session.mode
      /\ session'.draft = session.draft /\ session'.loaded = session.loaded
      /\ session'.ran = session.ran /\ session'.entered = session.entered
      /\ session' \in [at : {"closed", "open", "writing"}, mode : {"walk", "menu"}, draft : DraftType,
                       loaded : DraftType, ran : SUBSET Sections, entered : BOOLEAN]
  BY <1>1 DEF ConfigureTypes
<1>3. file' \in [is : {"missing", "broken", "config"}, draft : DraftType] /\ WellMade(file'.draft)
      /\ file'.is = "broken"
  BY <1>1, EmptyIsDraft DEF Broken
<1>4. ConfigureTypes'
  BY <1>1, <1>2, <1>3 DEF ConfigureTypes
<1>5. SessionInv'
  BY <1>1, <1>2 DEF SessionInv
<1> QED
  BY <1>1, <1>3, <1>4, <1>5 DEF ConfigureIInv

LEMMA DraftSaved ==
    ASSUME ConfigureIInv, Save
    PROVE  ConfigureIInv'
<1>1. /\ ConfigureTypes /\ SessionInv
      /\ file' = [is |-> "config", draft |-> session.draft]
      /\ wrote' = wrote \union session.ran
      /\ session' = Closed
      /\ UNCHANGED <<subject, runs, ticked, removed>>
  BY DEF ConfigureIInv, Save
<1>2. /\ file' \in [is : {"missing", "broken", "config"}, draft : DraftType]
      /\ file'.draft = session.draft /\ WellMade(file'.draft)
      /\ wrote' \subseteq Sections
  BY <1>1 DEF ConfigureTypes
<1>3. ConfigureTypes'
  BY <1>1, <1>2, EmptyIsDraft DEF ConfigureTypes
<1>4. \A s \in wrote' : Written(s, file'.draft[s])
  BY <1>1, <1>2 DEF SessionInv
<1> QED
  BY <1>1, <1>3, <1>4, EmptyIsDraft DEF ConfigureIInv

LEMMA ConfigureGoesOn == ConfigureIInv /\ [ConfigureNext]_configureVars => ConfigureIInv'
<1> SUFFICES ASSUME ConfigureIInv, [ConfigureNext]_configureVars
             PROVE  ConfigureIInv'
  OBVIOUS
<1>1. CASE UNCHANGED configureVars
  BY <1>1 DEF configureVars, ConfigureIInv, ConfigureTypes, SessionInv
<1>2. CASE ConfigureNext
  BY <1>2, SessionsOpened, SessionsEnded, SavingStarted, DraftSaved, AnswersGiven DEF ConfigureNext
<1> QED
  BY <1>1, <1>2

LEMMA NobodyShares ==
    ASSUME NEW m, MailProblems(m) = {}, m.shape = "namespaces"
    PROVE  \A n, o \in Senders(m) : n # o => ~SharesUser(m, n, o)
<1>1. Says("shared-user", SomeShare(m)) = {}
  BY DEF MailProblems, None
<1>2. ~SomeShare(m)
  <2>1. SomeShare(m) \in BOOLEAN
    BY DEF SomeShare
  <2> QED
    BY <1>1, <2>1, NothingSaid
<1> QED
  BY <1>2 DEF SomeShare

\* A configuration that is accepted gives each namespace mail of its own.
LEMMA MailIsApart ==
    ASSUME NEW d \in DraftType, WellMade(d), Problems(d) = {}
    PROVE  \A n \in Senders(d.mail) :
              /\ ServerOf(d.mail, n).host # None
              /\ d.mail.spaces[n].password # None => ServerOf(d.mail, n).security # "none"
              /\ \A o \in Senders(d.mail) \ {n} :
                    d.mail.spaces[n].user = None \/ d.mail.spaces[n].user # d.mail.spaces[o].user
                       \/ ServerOf(d.mail, n).host # ServerOf(d.mail, o).host
<1> DEFINE m == d.mail
<1>1. m \in MailType /\ MailProblems(m) = {}
  BY NoProblems, PartsOfDraft
<1> SUFFICES ASSUME NEW n \in Senders(m)
             PROVE  /\ ServerOf(m, n).host # None
                    /\ m.spaces[n].password # None => ServerOf(m, n).security # "none"
                    /\ \A o \in Senders(m) \ {n} :
                          m.spaces[n].user = None \/ m.spaces[n].user # m.spaces[o].user
                             \/ ServerOf(m, n).host # ServerOf(m, o).host
  OBVIOUS
<1>2. n \in Namespace /\ m.spaces[n].given
  BY DEF Senders
<1>3. m.shape = "namespaces"
  BY <1>2 DEF WellMade, NoMail
<1> HIDE DEF m
<1>4. ServerOf(m, n) # NoServer /\ (m.spaces[n].password # None => ServerOf(m, n).security # "none")
  BY <1>1, <1>2, <1>3, NoSpaceProblems
<1>5. ServerOf(m, n).host # None
  <2>1. ServerOf(m, n) \in ServerType
    BY <1>1, <1>2 DEF ServerOf, MailType, SpaceType
  <2> QED
    BY <1>4, <2>1 DEF ServerType
<1>6. ASSUME NEW o \in Senders(m) \ {n}
      PROVE  m.spaces[n].user = None \/ m.spaces[n].user # m.spaces[o].user
                \/ ServerOf(m, n).host # ServerOf(m, o).host
  <2>1. ~SharesUser(m, n, o)
    BY <1>1, <1>3, NobodyShares
  <2> QED
    BY <2>1 DEF SharesUser
<1> QED
  BY <1>4, <1>5, <1>6

LEMMA DraftsAreTyped == ConfigureIInv => ConfigureTypeOK /\ AcceptedMailIsApart
<1> SUFFICES ASSUME ConfigureIInv
             PROVE  ConfigureTypeOK /\ AcceptedMailIsApart
  OBVIOUS
<1>1. ConfigureTypes
  BY DEF ConfigureIInv
<1>2. ASSUME NEW d \in DraftType, WellMade(d)
      PROVE  /\ d.cluster.main \in Domain \union {None}
             /\ Len(d.nodes) <= MaxNodes
             /\ \A i \in DOMAIN d.nodes : d.nodes[i].name \in NodeName /\ d.nodes[i].roles \subseteq Role
             /\ d.storage \in [Claim -> Size \union {0, -1}]
             /\ d.packages.chosen \in [Package -> {None, "true", "false", "text", "enabled", "disabled"}]
             /\ \A h \in Host : (d.registries[h].user = None) = (d.registries[h].secret = None)
             /\ \A n \in Namespace : d.mail.spaces[n] # NoMail => d.mail.spaces[n].given
  <2>1. d.cluster.main \in Domain \union {None}
    BY <1>2, PartsOfDraft DEF ClusterType
  <2>2. \A i \in DOMAIN d.nodes : d.nodes[i].name \in NodeName /\ d.nodes[i].roles \subseteq Role
    <3>1. \A i \in DOMAIN d.nodes : d.nodes[i] \in NodeType
      BY <1>2, PartsOfDraft
    <3> QED
      BY <3>1 DEF NodeType
  <2>3. d.storage \in [Claim -> Size \union {0, -1}]
    BY <1>2, PartsOfDraft DEF StorageType
  <2>4. d.packages.chosen \in [Package -> {None, "true", "false", "text", "enabled", "disabled"}]
    BY <1>2, PartsOfDraft DEF PackagesType, ChoiceType
  <2> QED
    BY <1>2, <2>1, <2>2, <2>3, <2>4 DEF WellMade
<1>3. ConfigureTypeOK
  BY <1>1, <1>2 DEF ConfigureTypes, ConfigureTypeOK
<1>4. AcceptedMailIsApart
  BY <1>1, MailIsApart DEF ConfigureTypes, AcceptedMailIsApart
<1> QED
  BY <1>3, <1>4

\* Only a draft that was written whole is saved.
LEMMA WhatIsSaved ==
    ASSUME ConfigureIInv, ConfigureNext, Saving
    PROVE  SessionInv /\ file'.draft = session.draft
<1>1. session.at = "writing" /\ file = Broken /\ SessionInv /\ file'.is = "config"
  BY DEF ConfigureIInv, Saving
<1>2. Save
  <2>1. ~Open /\ ~Leave /\ ~StartSaving /\ \A s \in Sections : ~RunSection(s)
    BY <1>1 DEF Open, Leave, StartSaving, RunSection
  <2>2. ~Crash
    BY <1>1 DEF Crash, Broken
  <2> QED
    BY <2>1, <2>2 DEF ConfigureNext
<1> QED
  BY <1>1, <1>2 DEF Save

LEMMA EnterIsKept ==
    ASSUME ConfigureIInv, ConfigureNext, Saving, session.entered,
           NEW s \in wrote \intersect session.ran
    PROVE  Kept(s, session.loaded[s], file'.draft[s])
BY WhatIsSaved DEF SessionInv, AllKept

LEMMA RestIsKept ==
    ASSUME ConfigureIInv, ConfigureNext, Saving
    PROVE  LET old == session.loaded
               new == file'.draft
           IN  /\ ~removed => \A i \in DOMAIN old.nodes :
                      /\ new.nodes[i].fixed = old.nodes[i].fixed
                      /\ old.nodes[i].labels = "map" => new.nodes[i].labels = "map"
               /\ new.network.addresses = old.network.addresses
               /\ \A h \in Host : old.registries[h].more => new.registries[h].more
               /\ \A p \in Package :
                      /\ old.packages.chosen[p] \in {"enabled", "disabled"} =>
                            new.packages.chosen[p] \in {"enabled", "disabled"}
                      /\ p \notin Catalogue => new.packages.chosen[p] = old.packages.chosen[p]
<1> DEFINE old == session.loaded
           new == session.draft
<1>1. /\ file'.draft = new
      /\ \A s \in Sections : Beside(s, old[s], new[s])
      /\ ~removed => NodesBeside(old.nodes, new.nodes)
  BY WhatIsSaved DEF SessionInv
<1>2. /\ Beside("network", old.network, new.network)
      /\ Beside("registries", old.registries, new.registries)
      /\ Beside("packages", old.packages, new.packages)
  BY <1>1, SectionsAre
<1>3. /\ new.network.addresses = old.network.addresses
      /\ \A h \in Host : old.registries[h].more => new.registries[h].more
      /\ \A p \in Package :
             /\ old.packages.chosen[p] \in {"enabled", "disabled"} =>
                   new.packages.chosen[p] \in {"enabled", "disabled"}
             /\ p \notin Catalogue => new.packages.chosen[p] = old.packages.chosen[p]
  BY <1>2 DEF Beside
<1>4. ~removed => \A i \in DOMAIN old.nodes :
         /\ new.nodes[i].fixed = old.nodes[i].fixed
         /\ old.nodes[i].labels = "map" => new.nodes[i].labels = "map"
  BY <1>1 DEF NodesBeside
<1> QED
  BY <1>1, <1>3, <1>4

LEMMA TickedIsSaved ==
    ASSUME ConfigureIInv, ConfigureNext, Saving, "packages" \in session.ran
    PROVE  Enabled(file'.draft.packages.chosen) \intersect Catalogue = ticked
BY WhatIsSaved DEF SessionInv

LEMMA StillAccepted ==
    ASSUME ConfigureIInv, ConfigureNext, Saving, session.entered, Problems(session.loaded) = {},
           \A i \in DOMAIN session.loaded.nodes :
              session.loaded.nodes[i].gateway => "gateway" \in session.loaded.nodes[i].roles
    PROVE  Problems(file'.draft) = {}
<1>1. WellSaid(session.loaded)
  BY DEF WellSaid, ByRole
<1> QED
  BY <1>1, WhatIsSaved DEF SessionInv, WellSaid

(* Going through a configuration again changes what was answered and       *)
(* nothing else (runners/configure.ts, cli/configure), whatever was        *)
(* written by hand, however often it is gone through and wherever a        *)
(* session is cut short: what configure wrote is kept by Enter, what isn't *)
(* asked about stays, what was ticked is what is installed, what preflight *)
(* accepts it still accepts, and under what it accepts no namespaces share *)
(* a mail login.                                                           *)
THEOREM AnswersAreKept == ConfigureSpec => ConfigureKeeps
<1>1. ConfigureInit => ConfigureIInv
  BY ConfigureStarts
<1>2. ConfigureIInv /\ [ConfigureNext]_configureVars => ConfigureIInv'
  BY ConfigureGoesOn
<1>3. ConfigureIInv => ConfigureTypeOK /\ AcceptedMailIsApart
  BY DraftsAreTyped
<1>4. ConfigureIInv /\ [ConfigureNext]_configureVars =>
        [Saving /\ session.entered =>
           \A s \in wrote \intersect session.ran :
              Kept(s, session.loaded[s], file'.draft[s])]_configureVars
  BY EnterIsKept
<1>5. ConfigureIInv /\ [ConfigureNext]_configureVars =>
        [Saving =>
           LET old == session.loaded
               new == file'.draft
           IN  /\ ~removed => \A i \in DOMAIN old.nodes :
                      /\ new.nodes[i].fixed = old.nodes[i].fixed
                      /\ old.nodes[i].labels = "map" => new.nodes[i].labels = "map"
               /\ new.network.addresses = old.network.addresses
               /\ \A h \in Host : old.registries[h].more => new.registries[h].more
               /\ \A p \in Package :
                      /\ old.packages.chosen[p] \in {"enabled", "disabled"} =>
                            new.packages.chosen[p] \in {"enabled", "disabled"}
                      /\ p \notin Catalogue =>
                            new.packages.chosen[p] = old.packages.chosen[p]]_configureVars
  BY RestIsKept
<1>6. ConfigureIInv /\ [ConfigureNext]_configureVars =>
        [Saving /\ "packages" \in session.ran =>
           Enabled(file'.draft.packages.chosen) \intersect Catalogue = ticked]_configureVars
  BY TickedIsSaved
<1>7. ConfigureIInv /\ [ConfigureNext]_configureVars =>
        [Saving /\ session.entered /\ Problems(session.loaded) = {}
           /\ (\A i \in DOMAIN session.loaded.nodes :
                   session.loaded.nodes[i].gateway => "gateway" \in session.loaded.nodes[i].roles)
         => Problems(file'.draft) = {}]_configureVars
  BY StillAccepted
<1> QED
  BY <1>1, <1>2, <1>3, <1>4, <1>5, <1>6, <1>7, PTL
     DEF ConfigureSpec, ConfigureKeeps, EnterKeeps, BesideKept, TicksAreInstalled, EnterStaysAccepted

=============================================================================
