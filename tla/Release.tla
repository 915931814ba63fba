------------------------------ MODULE Release ------------------------------
(***************************************************************************)
(* How a component is released (scripts/release): its version is written   *)
(* in several files, `set' writes them all in somebody's clone, a commit   *)
(* with them reaches main, and the script tags what is on main.  Pushing   *)
(* the tag is the release: it starts the workflow that publishes.          *)
(*                                                                         *)
(* A person runs one script at a time and leaves the clone alone while it  *)
(* runs; others merge and release meanwhile.  A tree is the version each   *)
(* file says.  Left out: the names of workflows, and files that say no     *)
(* version or none that parses, which are refused like a disagreement.     *)
(***************************************************************************)
EXTENDS Naturals, Sequences

CONSTANTS
    Person,
    Component,    \* those of cirrus, meteorologist and installer released here
    Version,      \* bound: the versions there are, <<major, minor, patch, rc>>
    FirstVersion, \* what everything says to begin with
    MaxCommits,   \* bound: how long main gets
    MaxSets,      \* bound: how many times `set' is run
    MaxMeddling   \* bound: how many edits by hand, and cuts of a script or a push

ASSUME ReleaseAssumption ==
    /\ Component \subseteq {"cirrus", "meteorologist", "installer"}
    /\ FirstVersion \in Version
    /\ MaxCommits \in Nat \ {0} /\ MaxSets \in Nat /\ MaxMeddling \in Nat

\* In which files each component's version is written, in order.
Places(c) ==
    CASE c = "cirrus"        -> <<"Cargo.toml", "Cargo.lock", "Cirrus.yaml">>
      [] c = "meteorologist" -> <<"meteorologist/package.json", "Meteorologist.yaml">>
      [] c = "installer"     -> <<"installer/package.json">>

PlacesOf(c) == {Places(c)[i] : i \in DOMAIN Places(c)}

\* The manifests, which pin an image, and of which the installer carries a copy.
Manifests == {"Cirrus.yaml", "Meteorologist.yaml"}

\* The images an installer's manifests pin (PINNED_IMAGES), and what publishes them.
Pins ==
    {[by |-> "cirrus", file |-> "Cirrus.yaml"],
     [by |-> "meteorologist", file |-> "Meteorologist.yaml"]}

File     == UNION {PlacesOf(c) : c \in Component}
Manifest == File \intersect Manifests
Pinned   == {pin \in Pins : pin.by \in Component}

Tree == [files : [File -> Version], copies : [Manifest -> Version]]

VARIABLES
    main,        \* the trees merged, oldest first
    tags,        \* the remote's tags: of which component and version, on which
                 \*   commit of main, 0 being none of them, and its tree
    clones,      \* each person's HEAD, the working tree and the tags never seen
                 \*   on the remote
    doing,       \* the script each person is running
    sets,        \* how many times `set' was run
    meddling,    \* how many of the other bounded things have happened
    untouched    \* history: who has a working tree that no hand edited and no
                 \*   cut left half written

releaseVars == <<main, tags, clones, doing, sets, meddling, untouched>>

Resting == [at |-> "rest"]

ReleaseInit ==
    LET tree == [files  |-> [f \in File |-> FirstVersion],
                 copies |-> [f \in Manifest |-> FirstVersion]]
    IN  /\ main = <<tree>>
        /\ tags = {}
        /\ clones = [p \in Person |-> [head |-> 1, tree |-> tree, work |-> tree, tags |-> {}]]
        /\ doing = [p \in Person |-> Resting]
        /\ sets = 0
        /\ meddling = 0
        /\ untouched = Person

Meddle == meddling < MaxMeddling /\ meddling' = meddling + 1

AtRest(p) == doing[p].at = "rest"

-----------------------------------------------------------------------------
(* Versions, in the order of semver: a prerelease comes before its release *)

Core(v) == SubSeq(v, 1, 3)

Older(v, w) ==
    \/ \E i \in 1..3 : v[i] < w[i] /\ SubSeq(v, 1, i - 1) = SubSeq(w, 1, i - 1)
    \/ Core(v) = Core(w) /\ IF v[4] # 0 THEN w[4] = 0 \/ v[4] < w[4] ELSE FALSE

-----------------------------------------------------------------------------
(* The repository and the people                                           *)

\* A file is edited by hand, its copy in the installer left as it is.
EditByHand(p) ==
    /\ AtRest(p)
    /\ Meddle
    /\ \E f \in File, v \in Version :
          clones' = [clones EXCEPT ![p].work.files[f] = v]
    /\ untouched' = untouched \ {p}
    /\ UNCHANGED <<main, tags, doing, sets>>

\* The working tree is committed on a branch, off main.
Commit(p) ==
    /\ AtRest(p)
    /\ clones[p].work # clones[p].tree
    /\ clones' = [clones EXCEPT ![p].head = 0, ![p].tree = clones[p].work]
    /\ UNCHANGED <<main, tags, doing, meddling, untouched, sets>>

(* A branch is merged as a commit of main's own, once CI has found the     *)
(* installer's copies to be those of the manifests.                        *)
Merge(p) ==
    /\ AtRest(p)
    /\ clones[p].head = 0
    /\ Len(main) < MaxCommits
    /\ \A f \in Manifest : clones[p].tree.copies[f] = clones[p].tree.files[f]
    /\ main' = Append(main, clones[p].tree)
    /\ UNCHANGED <<tags, clones, doing, meddling, untouched, sets>>

\* Somebody goes to what is on main now, and drops what isn't committed.
SwitchToMain(p) ==
    /\ AtRest(p)
    /\ clones[p].head # Len(main) \/ clones[p].work # clones[p].tree
    /\ LET tree == main[Len(main)]
       IN  clones' = [clones EXCEPT ![p].head = Len(main), ![p].tree = tree, ![p].work = tree]
    /\ untouched' = untouched \union {p}
    /\ UNCHANGED <<main, tags, doing, meddling, sets>>

\* What a refusal tells somebody to do with a tag that was never pushed.
DeleteStaleTag(p) ==
    /\ AtRest(p)
    /\ \E t \in clones[p].tags : clones' = [clones EXCEPT ![p].tags = @ \ {t}]
    /\ UNCHANGED <<main, tags, doing, meddling, untouched, sets>>

\* A script is interrupted, at a prompt or between two writes.
Interrupt(p) ==
    /\ ~AtRest(p)
    /\ Meddle
    /\ doing' = [doing EXCEPT ![p] = Resting]
    /\ untouched' = IF doing[p].at = "set" THEN untouched \ {p} ELSE untouched
    /\ UNCHANGED <<main, tags, clones, sets>>

-----------------------------------------------------------------------------
(* `set': to a version asked for, or to the next patch, minor or major      *)

StartSet(p, c) ==
    /\ AtRest(p)
    /\ sets < MaxSets /\ sets' = sets + 1
    /\ \E v \in Version :
          doing' = [doing EXCEPT ![p] =
             [at |-> "set", component |-> c, version |-> v, left |-> Places(c)]]
    /\ UNCHANGED <<main, tags, clones, meddling, untouched>>

WritePlace(p) ==
    /\ doing[p].at = "set"
    /\ doing[p].left # <<>>
    /\ clones' = [clones EXCEPT ![p].work.files[Head(doing[p].left)] = doing[p].version]
    /\ doing' = [doing EXCEPT ![p].left = Tail(@)]
    /\ UNCHANGED <<main, tags, meddling, untouched, sets>>

\* The whole manifest goes into the copy once every place is written.
UpdateEmbedded(p) ==
    /\ doing[p].at = "set"
    /\ doing[p].left = <<>>
    /\ clones' = [clones EXCEPT ![p].work.copies =
          [f \in Manifest |-> IF f \in PlacesOf(doing[p].component)
                              THEN clones[p].work.files[f] ELSE @[f]]]
    /\ doing' = [doing EXCEPT ![p] = Resting]
    /\ UNCHANGED <<main, tags, meddling, untouched, sets>>

-----------------------------------------------------------------------------
(* Releasing: the checks, in the order they are made, and the tag          *)

VersionOf(tree, c) == tree.files[Places(c)[1]]

PlacesAgree(tree, c) == \A f \in PlacesOf(c) : tree.files[f] = VersionOf(tree, c)

\* HEAD is what was just fetched as main, and nothing is left uncommitted.
OnMain(p) == clones[p].head = Len(main) /\ clones[p].work = clones[p].tree

(* The places are read, main is fetched and the clone is looked at.  A     *)
(* problem found here is only told of with those found later, and nothing  *)
(* is tagged: the script may as well end here.                             *)
CheckClone(p, c) ==
    /\ AtRest(p)
    /\ PlacesAgree(clones[p].work, c)
    /\ OnMain(p)
    /\ doing' = [doing EXCEPT ![p] =
          [at |-> "checked", component |-> c, version |-> VersionOf(clones[p].work, c)]]
    /\ UNCHANGED <<main, tags, clones, meddling, untouched, sets>>

Has(some, c, v) == \E t \in some : t.component = c /\ t.version = v

\* Fault: a tag of one's own will do.
PinnedTagged(p) ==
    \A pin \in Pinned : Has(tags \union clones[p].tags, pin.by, clones[p].work.files[pin.file])

\* Each image the manifests pin has been released (pinnedImagesReleased).
PinnedReleased(p) == \A pin \in Pinned : Has(tags, pin.by, clones[p].work.files[pin.file])

Releasable(p, c, v) ==
    /\ ~ Has(tags, c, v)
    /\ ~ Has(clones[p].tags, c, v)
    /\ \A t \in tags : t.component = c => Older(t.version, v)
    /\ c = "installer" => PinnedReleased(p)

CheckRemote(p) ==
    /\ doing[p].at = "checked"
    /\ doing' = [doing EXCEPT ![p] =
          IF Releasable(p, @.component, @.version) THEN [@ EXCEPT !.at = "ready"] ELSE Resting]
    /\ UNCHANGED <<main, tags, clones, meddling, untouched, sets>>

\* A dry run ends here, and so does one somebody says no to.
Decline(p) ==
    /\ doing[p].at = "ready"
    /\ doing' = [doing EXCEPT ![p] = Resting]
    /\ UNCHANGED <<main, tags, clones, meddling, untouched, sets>>

TagOf(p) ==
    [component |-> doing[p].component, version |-> doing[p].version,
     on |-> clones[p].head, tree |-> clones[p].tree]

\* However long the question was left, HEAD is tagged.
Tag(p) ==
    /\ doing[p].at = "ready"
    /\ clones' = [clones EXCEPT ![p].tags = @ \union {TagOf(p)}]
    /\ doing' = [doing EXCEPT ![p].at = "tagged"]
    /\ UNCHANGED <<main, tags, meddling, untouched, sets>>

\* The remote takes no tag for one it has.
Push(p) ==
    /\ doing[p].at = "tagged"
    /\ ~ Has(tags, doing[p].component, doing[p].version)
    /\ tags' = tags \union {TagOf(p)}
    /\ clones' = [clones EXCEPT ![p].tags = @ \ {TagOf(p)}]
    /\ doing' = [doing EXCEPT ![p] = Resting]
    /\ UNCHANGED <<main, meddling, untouched, sets>>

(* The push is refused, or doesn't arrive, or its answer doesn't: the tag  *)
(* is removed here again, whatever became of it there.                     *)
PushFails(p) ==
    /\ doing[p].at = "tagged"
    /\ \/ Has(tags, doing[p].component, doing[p].version) /\ UNCHANGED <<tags, meddling>>
       \/ Meddle /\ (UNCHANGED tags \/ (/\ ~ Has(tags, doing[p].component, doing[p].version)
                                        /\ tags' = tags \union {TagOf(p)}))
    /\ clones' = [clones EXCEPT ![p].tags = @ \ {TagOf(p)}]
    /\ doing' = [doing EXCEPT ![p] = Resting]
    /\ UNCHANGED <<main, sets, untouched>>

-----------------------------------------------------------------------------
ReleaseNext ==
    \E p \in Person :
        \/ EditByHand(p) \/ Commit(p) \/ Merge(p) \/ SwitchToMain(p)
        \/ DeleteStaleTag(p) \/ Interrupt(p)
        \/ \E c \in Component : StartSet(p, c) \/ CheckClone(p, c)
        \/ WritePlace(p) \/ UpdateEmbedded(p)
        \/ CheckRemote(p) \/ Decline(p) \/ Tag(p) \/ Push(p) \/ PushFails(p)

ReleaseSpec == ReleaseInit /\ [][ReleaseNext]_releaseVars

-----------------------------------------------------------------------------
TagType ==
    [component : Component, version : Version, on : 0..MaxCommits, tree : Tree]

DoingType ==
    {Resting}
    \union [at : {"set"}, component : Component, version : Version,
            left : UNION {{SubSeq(Places(c), i, Len(Places(c))) : i \in 1..Len(Places(c)) + 1}
                             : c \in Component}]
    \union [at : {"checked", "ready", "tagged"}, component : Component, version : Version]

ReleaseTypeOK ==
    /\ \A i \in DOMAIN main : main[i] \in Tree
    /\ Len(main) \in 1..MaxCommits
    /\ \A t \in tags : t \in TagType
    /\ \A p \in Person :
          /\ clones[p].head \in 0..Len(main)
          /\ {clones[p].tree, clones[p].work} \subseteq Tree
          /\ \A t \in clones[p].tags : t \in TagType
          /\ doing[p] \in DoingType
    /\ sets \in 0..MaxSets
    /\ meddling \in 0..MaxMeddling
    /\ untouched \subseteq Person

(* "what a tag names is always something that went through review and CI": *)
(* a released commit is one of main's, and every place in it says the      *)
(* version of the tag.                                                     *)
TagNamesItsVersion ==
    \A t \in tags :
        /\ t.on # 0 /\ main[t.on] = t.tree
        /\ \A f \in PlacesOf(t.component) : t.tree.files[f] = t.version

(* "A release is a promise those can be pulled": whatever images the       *)
(* manifests of a released installer pin have been released themselves,    *)
(* and their copies in it pin the same ones.                               *)
PinsAreReleased ==
    \A t \in tags : t.component = "installer" =>
        \A pin \in Pinned :
            /\ Has(tags, pin.by, t.tree.files[pin.file])
            /\ t.tree.copies[pin.file] = t.tree.files[pin.file]

(* While no script was cut short, nobody edited a file by hand and the     *)
(* network failed no push, of anybody at all, no script that has ended     *)
(* leaves a tag in its clone, one whose push was refused included: they    *)
(* can try again at once.  What holds after that is not said here.         *)
FailedLeavesNoTag ==
    meddling = 0 => \A p \in Person : AtRest(p) => clones[p].tags = {}

(* What `set' has written can be merged: unless it was cut short or edited *)
(* over, a working tree carries copies of the manifests it has.            *)
SetCanBeMerged ==
    \A p \in untouched : AtRest(p) =>
        \A f \in Manifest : clones[p].work.copies[f] = clones[p].work.files[f]

(* Nobody releases a version older than one that was out when the script   *)
(* looked, however long its question was left unanswered.                  *)
(* Doesn't hold, and no run checks it (README, Observed on the way).       *)
VersionsRise ==
    [][\A t \in tags' \ tags, u \in tags : t.component = u.component => Older(u.version, t.version)]_releaseVars

(* Of releases by several people, in clones of several ages: a tag names   *)
(* the version of its commit, an installer pins only what is released, a   *)
(* failed try leaves no tag behind, and a version set is one the tests     *)
(* accept.                                                                 *)
ReleaseInv ==
    /\ ReleaseTypeOK
    /\ TagNamesItsVersion
    /\ PinsAreReleased
    /\ FailedLeavesNoTag
    /\ SetCanBeMerged
=============================================================================
