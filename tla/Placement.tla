------------------------------ MODULE Placement ------------------------------
(***************************************************************************)
(* Keeping a namespace's pods in one region (util/placement.ts,            *)
(* cli/commands/Placement.ts): the placement bundle applies an admission   *)
(* policy and labels the namespaces the configuration places; the policy   *)
(* gives each pod made there a node affinity.                              *)
(*                                                                         *)
(* External: the API server, which runs the policy on pods as they are     *)
(* made; the scheduler; PodNodeSelector, the admission plugin used before, *)
(* which is still on and reads an annotation of its own; and whoever makes *)
(* and deletes pods.  Affinity is required; a preferred one asks nothing   *)
(* of the scheduler and is a placement that holds nothing.                 *)
(***************************************************************************)
EXTENDS Naturals, Sequences, FiniteSets

CONSTANTS
    Realm,          \* namespaces
    Site,           \* regions
    SiteOf,         \* where each node is
    OwnTerms,       \* node affinities pods are made with: sets of terms, each
                    \*   the nodes it allows; {} asks nothing
    MaxPods,        \* bound: pods at once
    MaxPlacements   \* bound: changes to the configuration

PlaceNode == DOMAIN SiteOf

\* "waits" is said of a pod that is on no node.
ASSUME PlacementAssumption ==
    /\ "waits" \notin PlaceNode
    /\ OwnTerms \subseteq SUBSET SUBSET PlaceNode
    /\ MaxPlacements \in Nat

Nowhere == [site |-> "nowhere", affinity |-> "required"]

\* Entries of "placement"; one with no region is left out.
Places == [site : Site \union {"nowhere"}, affinity : {"required", "preferred"}]

VARIABLES
    placement,  \* the configuration: Nowhere or an entry for each namespace
    policy,     \* whether the policy and its binding are there
    labelled,   \* what each namespace is labelled with
    annotated,  \* the region PodNodeSelector's annotation names, or "nowhere"
    pods,       \* the pods there are
    todo,       \* the bundle: the steps left of this run,
    done,       \*   history: namespaces a run labelled since they were changed,
    verified,   \*   whether the check passed since the configuration was changed
    changes     \* bound

placementVars == <<placement, policy, labelled, annotated, pods, todo, done, verified, changes>>

PlacementInit ==
    /\ placement = [r \in Realm |-> Nowhere]
    /\ policy = FALSE
    /\ labelled = [r \in Realm |-> Nowhere]
    /\ annotated \in [Realm -> Site \union {"nowhere"}]
    /\ pods = {}
    /\ todo = <<>>
    /\ done = {}
    /\ verified = FALSE
    /\ changes = 0

-----------------------------------------------------------------------------
(* The cluster                                                             *)

InSite(site) == {n \in PlaceNode : SiteOf[n] = site}

\* Fault: the region is one more term, and a node has to be in one of them.
PatchedBeside(terms, site) == terms \union {InSite(site)}

\* The region is added to each of a pod's terms, a node having to be in one.
Patched(terms, site) ==
    IF terms = {} THEN {InSite(site)} ELSE {t \intersect InSite(site) : t \in terms}

\* The policy leaves alone what is exempt or names a region itself.
Matched(pod) == policy /\ labelled[pod.realm] # Nowhere /\ ~pod.exempt /\ pod.own = "nowhere"

\* What PodNodeSelector made of its node selector counts as a region of its own.
MakePod ==
    /\ Cardinality(pods) < MaxPods
    /\ \E r \in Realm, terms \in OwnTerms, exempt \in BOOLEAN, own \in Site \union {"nowhere"} :
          LET selects == IF annotated[r] # "nowhere" THEN annotated[r] ELSE own
              pod     == [realm |-> r, terms |-> terms, exempt |-> exempt, own |-> own,
                          must |-> terms, held |-> annotated[r], after |-> r \in done,
                          late |-> FALSE, on |-> "waits"]
              to      == labelled[r]
          IN  /\ own \in {"nowhere", selects}
              /\ pods' = pods \union
                    {IF Matched([pod EXCEPT !.own = selects]) /\ to.affinity = "required"
                     THEN [pod EXCEPT !.must = Patched(terms, to.site)] ELSE pod}
    /\ UNCHANGED <<placement, policy, labelled, annotated, todo, done, verified, changes>>

Allows(pod, n) ==
    /\ pod.must = {} \/ \E t \in pod.must : n \in t
    /\ \A site \in {pod.own, pod.held} \ {"nowhere"} : SiteOf[n] = site

Schedule ==
    \E pod \in pods, n \in PlaceNode :
        /\ pod.on = "waits" /\ Allows(pod, n)
        /\ pods' = (pods \ {pod}) \union {[pod EXCEPT !.on = n]}
        /\ UNCHANGED <<placement, policy, labelled, annotated, todo, done, verified, changes>>

DeletePod ==
    \E pod \in pods :
        /\ pods' = pods \ {pod}
        /\ UNCHANGED <<placement, policy, labelled, annotated, todo, done, verified, changes>>

-----------------------------------------------------------------------------
(* The configuration and the bundle, which reads it when it begins         *)

Replace ==
    /\ todo = <<>>
    /\ changes < MaxPlacements
    /\ \E r \in Realm, p \in Places :
          /\ p # placement[r]
          /\ placement' = [placement EXCEPT ![r] = p]
          /\ done' = done \ {r}
    /\ verified' = FALSE
    /\ changes' = changes + 1
    /\ UNCHANGED <<policy, labelled, annotated, pods, todo>>

Placed == {r \in Realm : placement[r].site # "nowhere"}

StartPlacing ==
    /\ todo = <<>>
    /\ todo' = <<"policy", "labels", "verify">>
    /\ UNCHANGED <<placement, policy, labelled, annotated, pods, done, verified, changes>>

ApplyPolicy ==
    /\ todo # <<>> /\ Head(todo) = "policy"
    /\ policy' = TRUE
    /\ todo' = Tail(todo)
    /\ UNCHANGED <<placement, labelled, annotated, pods, done, verified, changes>>

Unlabelled == {r \in Placed : labelled[r] # placement[r] \/ r \notin done}

LabelNamespace(r) ==
    /\ todo # <<>> /\ Head(todo) = "labels"
    /\ r \in Placed /\ labelled[r] # placement[r]
    /\ labelled' = [labelled EXCEPT ![r] = placement[r]]
    /\ UNCHANGED <<placement, policy, annotated, pods, todo, done, verified, changes>>

RemoveAnnotation(r) == [annotated EXCEPT ![r] = "nowhere"]

TakeAnnotation(r) ==
    /\ todo # <<>> /\ Head(todo) = "labels"
    /\ r \in Unlabelled /\ labelled[r] = placement[r]
    /\ annotated' = RemoveAnnotation(r)
    /\ done' = done \union {r}
    /\ UNCHANGED <<placement, policy, labelled, pods, todo, verified, changes>>

EndLabels ==
    /\ todo # <<>> /\ Head(todo) = "labels"
    /\ Unlabelled = {}
    /\ todo' = Tail(todo)
    /\ UNCHANGED <<placement, policy, labelled, annotated, pods, done, verified, changes>>

\* Running where its namespace isn't placed, by neither its label nor itself.
Strays(r) ==
    {pod \in pods : /\ pod.realm = r /\ pod.on # "waits"
                    /\ ~pod.exempt /\ pod.own = "nowhere" /\ pod.held = "nowhere"
                    /\ SiteOf[pod.on] # placement[r].site}

\* The check looks at everything there is and at the pods that run; which others
\* there were is kept in `late'.
Verify ==
    /\ todo # <<>> /\ Head(todo) = "verify"
    /\ verified' =
          /\ policy
          /\ \A r \in Placed :
                /\ labelled[r] = placement[r]
                /\ annotated[r] = "nowhere"
                /\ placement[r].affinity = "required" => Strays(r) = {}
    /\ pods' = {[pod EXCEPT !.late = (pod.on = "waits")] : pod \in pods}
    /\ todo' = Tail(todo)
    /\ UNCHANGED <<placement, policy, labelled, annotated, done, changes>>

\* A step fails or the run is interrupted.
StopPlacing ==
    /\ todo # <<>>
    /\ todo' = <<>>
    /\ UNCHANGED <<placement, policy, labelled, annotated, pods, done, verified, changes>>

PlacementNext ==
    \/ MakePod \/ Schedule \/ DeletePod
    \/ Replace \/ StartPlacing \/ ApplyPolicy \/ EndLabels \/ Verify \/ StopPlacing
    \/ \E r \in Realm : LabelNamespace(r) \/ TakeAnnotation(r)

PlacementSpec == PlacementInit /\ [][PlacementNext]_placementVars

-----------------------------------------------------------------------------
PlacementTypeOK ==
    /\ placement \in [Realm -> Places]
    /\ policy \in BOOLEAN /\ verified \in BOOLEAN /\ done \subseteq Realm /\ changes \in 0..MaxPlacements
    /\ \A r \in Realm : labelled[r] = Nowhere \/ (labelled[r] \in Places /\ labelled[r].site \in Site)
    /\ annotated \in [Realm -> Site \union {"nowhere"}]
    /\ \A pod \in pods : pod.on \in PlaceNode \union {"waits"} /\ pod.must \subseteq SUBSET PlaceNode
    /\ Len(todo) \in 0..3

(* "A namespace's workloads in one region": once the check passed, every   *)
(* pod that runs where placement is required is in the region, those made  *)
(* later too, unless it steps out itself or the plugin of before held it.  *)
(* One that was there and waited isn't looked at, and may go anywhere.     *)
VerifiedStaysThere ==
    verified => \A r \in Placed : placement[r].affinity = "required" =>
        \A pod \in pods :
            /\ pod.realm = r /\ pod.on # "waits" /\ ~pod.late
            /\ ~pod.exempt /\ pod.own = "nowhere" /\ pod.held = "nowhere"
            => SiteOf[pod.on] = placement[r].site

(* A pod that asks for nodes of its own gets one of those, wherever its    *)
(* namespace is placed.                                                    *)
OwnTermsHold ==
    \A pod \in pods : pod.on # "waits" =>
        /\ pod.terms # {} => \E t \in pod.terms : pod.on \in t
        /\ pod.own # "nowhere" => SiteOf[pod.on] = pod.own

(* "A pod can step out of its namespace's region": one labelled exempt and *)
(* made after its namespace was placed may run wherever its own terms let  *)
(* it, in a cluster that still has the plugin of before, too.              *)
ExemptStepsOut ==
    \A pod \in pods : pod.exempt /\ pod.after =>
        \A n \in PlaceNode :
            /\ pod.terms = {} \/ \E t \in pod.terms : n \in t
            /\ pod.own \in {"nowhere", SiteOf[n]}
            => Allows(pod, n)

(* A namespace the configuration doesn't place is nowhere in particular:   *)
(* does not hold once it was placed, since nothing takes its labels off.   *)
(* No run checks it.                                                       *)
UnplacedIsFree ==
    verified => \A r \in Realm \ Placed : labelled[r] = Nowhere

(* Pods of a namespace that was checked run in its region, except those    *)
(* that step out, whose own terms hold and nothing else does.              *)
PlacementInv ==
    /\ PlacementTypeOK
    /\ VerifiedStaysThere
    /\ OwnTermsHold
    /\ ExemptStepsOut
=============================================================================
