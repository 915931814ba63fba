--------------------------- MODULE WebApplication ---------------------------
(***************************************************************************)
(* One WebApplication as Cirrus runs it (operators/cirrus): the reconciler *)
(* that takes a release to a Deployment, migrations first, and the GitLab  *)
(* webhook, which writes releases into the same status beside it.          *)
(*                                                                         *)
(* Reconcile passes come one at a time (one replica, replaced rather than  *)
(* rolled), and each works from the operator's own copy of the resource,   *)
(* which the watch keeps up with in its own time.  Webhook requests are    *)
(* handled concurrently with a pass and with each other.                   *)
(*                                                                         *)
(* Left out: conditions and the intervals between passes, which decide     *)
(* nothing here; how a dependency is provided (one flag says whether all   *)
(* of them are); the Gateway resources; deletion.                          *)
(***************************************************************************)
EXTENDS Naturals

CONSTANTS
    Registry,       \* the repositories of the project's own registry, which
    Elsewhere,      \*   can tell a digest, and others, which are not asked
    Migrations,     \* whether the spec has migrations
    SpecPort,       \* the spec's port, 0 if it leaves it to the image
    Port,           \* the one TCP port each pipeline's image declares, or 0
    Broken,         \* the pipelines whose migrations fail
    MaxPipelines,   \* bound: how many pipelines succeed
    MaxTroubles     \* bound: how many times something else goes wrong

Repository == Registry \union Elsewhere
Pipeline   == 1..MaxPipelines

ASSUME RepositoryAssumption == "none" \notin Repository
ASSUME BoundAssumption == MaxPipelines \in Nat \ {0}
ASSUME PortAssumption == SpecPort \in Nat /\ Port \in [0..MaxPipelines -> Nat]

VARIABLES
    newest,      \* how many pipelines have succeeded so far
    events,      \* the pipelines GitLab has yet to tell of
    handling,    \* the releases that webhook requests have yet to record
    repository,  \* spec.image.repository
    status,      \* the resource's status
    cache,       \* the operator's copy of both
    pass,        \* the reconcile pass under way
    job,         \* the migration Job of each image
    route,       \* the port of the Service that the route points at, or 0
    service,     \* the port of the Service, 0 before there is one
    deployment,  \* the image and port of the Deployment
    troubles,    \* how many things have gone wrong
    migrated     \* history: the images whose migrations have succeeded

forge == <<newest, events>>
made   == <<job, route, service, deployment, migrated>>
vars == <<newest, events, handling, repository, status, cache, pass, job,
          route, service, deployment, troubles, migrated>>

-----------------------------------------------------------------------------
(* Releases and images.  A pipeline publishes its image under a tag of its *)
(* own, and `of' is the pipeline an image came from, 0 for the spec's tag. *)

ImageName == [repository : Repository, by : {"digest", "tag"}, of : 0..MaxPipelines]

NoImage == [repository |-> "none", by |-> "tag", of |-> 0]

\* digest 0 stands for a release without one
Release == [commit : Pipeline, digest : 0..MaxPipelines, repository : Repository]

NoRelease == [commit |-> 0, digest |-> 0, repository |-> "none"]

\* A digest when the repository is one the project's registry knows.
ReleaseFor(repo, n) ==
    [commit |-> n, digest |-> IF repo \in Registry THEN n ELSE 0, repository |-> repo]

Reference(r) ==
    IF r.digest # 0 THEN [repository |-> r.repository, by |-> "digest", of |-> r.digest]
                    ELSE [repository |-> r.repository, by |-> "tag", of |-> r.commit]

\* The release, unless it is for a repository the spec no longer names.
DesiredImage(repo, r) ==
    IF r.repository = repo THEN Reference(r)
    ELSE [repository |-> repo, by |-> "tag", of |-> 0]

\* Whether there is such an image at all.
IsPublished(i) == i.repository \in Registry \/ i.by = "tag"

\* A JSON merge patch leaves what it doesn't mention: a release without a
\* digest is written without the field.
Merged(old, new) == [new EXCEPT !.digest = IF @ # 0 THEN @ ELSE old.digest]

-----------------------------------------------------------------------------
NoStatus ==
    [release |-> NoRelease, deployed |-> NoImage, port |-> 0, imagePorts |-> {},
     pollDue |-> TRUE]

Idle ==
    [at |-> "idle", release |-> NoRelease, found |-> FALSE, checked |-> FALSE,
     desired |-> NoImage, run |-> NoImage, runPort |-> 0, port |-> 0, ports |-> {}]

Init ==
    /\ newest = 0
    /\ events = {}
    /\ handling = {}
    /\ repository \in Repository
    /\ status = NoStatus
    /\ cache = [repository |-> repository, status |-> NoStatus]
    /\ pass = Idle
    /\ job = [i \in ImageName |-> "none"]
    /\ route = 0
    /\ service = 0
    /\ deployment = [image |-> NoImage, port |-> 0]
    /\ troubles = 0
    /\ migrated = {}

Fault == troubles < MaxTroubles /\ troubles' = troubles + 1

Once(wrong) == IF wrong THEN 1 ELSE 0

-----------------------------------------------------------------------------
(* GitLab, Kubernetes and the people who use them                          *)

PipelineSucceeds ==
    /\ newest < MaxPipelines
    /\ newest' = newest + 1
    /\ events' = events \union {newest + 1}
    /\ UNCHANGED <<handling, repository, status, cache, pass, made, troubles>>

\* The watch catches up with the resource.
Watched ==
    /\ cache' = [repository |-> repository, status |-> status]
    /\ UNCHANGED <<forge, handling, repository, status, pass, made, troubles>>

\* Ten minutes go by since the forge was last asked.
TimePasses ==
    /\ status' = [status EXCEPT !.pollDue = TRUE]
    /\ cache' = [cache EXCEPT !.status.pollDue = TRUE]
    /\ UNCHANGED <<forge, handling, repository, pass, made, troubles>>

MoveImage ==
    /\ repository' \in Repository \ {repository}
    /\ UNCHANGED <<forge, handling, status, cache, pass, made>>
    /\ Fault

JobFinishes(i) ==
    /\ job[i] = "running"
    /\ \/ /\ i.of \notin Broken /\ IsPublished(i)
          /\ job' = [job EXCEPT ![i] = "succeeded"]
          /\ migrated' = migrated \union {i}
       \/ /\ i.of \in Broken \/ ~IsPublished(i)
          /\ job' = [job EXCEPT ![i] = "failed"]
          /\ UNCHANGED migrated
    /\ UNCHANGED <<forge, handling, repository, status, cache, pass, route,
                   service, deployment, troubles>>

\* ttlSecondsAfterFinished: a day after it finished, a Job is cleared.
JobExpires(i) ==
    /\ job[i] \in {"succeeded", "failed"}
    /\ job' = [job EXCEPT ![i] = "none"]
    /\ UNCHANGED <<forge, handling, repository, status, cache, pass, route,
                   service, deployment, migrated>>
    /\ Fault

-----------------------------------------------------------------------------
(* The webhook                                                             *)

\* A request is told of a pipeline, reads the resource and works out the image.
WebhookReads(n) ==
    /\ n \in events
    /\ events' = events \ {n}
    /\ handling' = handling \union {ReleaseFor(repository, n)}
    /\ UNCHANGED <<newest, repository, status, cache, pass, made, troubles>>

WebhookRecords(r) ==
    /\ r \in handling
    /\ handling' = handling \ {r}
    /\ status' = [status EXCEPT !.release = Merged(@, r)]
    /\ UNCHANGED <<forge, repository, cache, pass, made, troubles>>

-----------------------------------------------------------------------------
(* A reconcile pass, from `seen', the operator's copy of the status         *)

\* Fault: the forge is only asked the first time.
PollDueOnce(seen) == seen.release = NoRelease

PollDue(seen) == seen.pollDue

\* The newest successful pipeline, when that isn't the commit already known.
HasNews(seen) == newest \notin {0, seen.release.commit}

PortOf(i) == IF SpecPort # 0 THEN SpecPort ELSE Port[i.of]

\* Whether the port of an image can be told: from the spec, from an earlier
\* pass, or by asking its registry, if that answers.
PortKnown(seen, i, answers) ==
    \/ SpecPort # 0
    \/ i \in seen.imagePorts
    \/ answers /\ IsPublished(i) /\ Port[i.of] # 0

ServicePort(seen, i, answers) ==
    IF PortKnown(seen, i, answers) THEN PortOf(i) ELSE seen.port

\* Fault: an image is rolled out while its migrations run.
ToRunEagerly(seen, i, answers) ==
    IF PortKnown(seen, i, answers) /\ (Migrations => job[i] # "failed")
    THEN i ELSE seen.deployed

\* The image to run: a new one only once its port is known and its
\* migrations have finished, and until then the one recorded as deployed.
ToRun(seen, i, answers) ==
    IF PortKnown(seen, i, answers) /\ (Migrations => job[i] = "succeeded")
    THEN i ELSE seen.deployed

RunPort(seen, i, run, answers) ==
    CASE run = i -> IF PortKnown(seen, i, answers) THEN PortOf(i) ELSE 0
      [] run # i /\ (SpecPort # 0 \/ run \in seen.imagePorts) -> PortOf(run)
      [] run # i /\ SpecPort = 0 /\ run \notin seen.imagePorts -> seen.port

\* Fault: migrations don't wait for the port to be known.
StartsMigrationsAnyway(seen, i, answers) ==
    Migrations /\ seen.deployed # i /\ job[i] = "none"

StartsMigrations(seen, i, answers) ==
    /\ Migrations
    /\ seen.deployed # i
    /\ PortKnown(seen, i, answers)
    /\ job[i] = "none"

(* What it depends on is made `ready' or is waited for; the forge is asked *)
(* when that's due, which may have been `checked' or not; the port is      *)
(* looked up; the route is given it, unless the Gateway takes none, which  *)
(* is another way not to be ready; and so is the Service; and migrations   *)
(* are started.  Up to the last three the pass only reads.                 *)
Reconcile(ready, checked, answers) ==
    LET seen    == cache.status
        repo    == cache.repository
        found   == checked /\ HasNews(seen)
        release == IF found THEN ReleaseFor(repo, newest) ELSE seen.release
        i       == DesiredImage(repo, release)
        run     == IF ready THEN ToRun(seen, i, answers) ELSE seen.deployed
        port    == RunPort(seen, i, run, answers)
        toServe == ServicePort(seen, i, answers)
    IN  /\ pass.at = "idle"
        /\ checked => PollDue(seen)
        /\ troubles' = troubles + Once(~ready) + Once(~answers) + Once(PollDue(seen) /\ ~checked)
                           + Once(seen # status \/ repo # repository)
        /\ troubles' <= MaxTroubles
        /\ pass' = [at |-> IF ready /\ run # NoImage /\ port # 0 THEN "apply" ELSE "record",
                    release |-> release, found |-> found, checked |-> checked,
                    desired |-> i, run |-> run, runPort |-> port, port |-> toServe,
                    ports |-> IF SpecPort = 0 /\ PortKnown(seen, i, answers)
                              THEN seen.imagePorts \union {i} ELSE seen.imagePorts]
        /\ \/ route' = IF toServe # 0 THEN toServe ELSE route
           \/ ~ready /\ UNCHANGED route
        /\ service' = IF ready /\ toServe # 0 THEN toServe ELSE service
        /\ job' = IF ready /\ StartsMigrations(seen, i, answers)
                  THEN [job EXCEPT ![i] = "running"] ELSE job
        /\ UNCHANGED <<forge, handling, repository, status, cache, deployment,
                       migrated>>

ApplyDeployment ==
    /\ pass.at = "apply"
    /\ deployment' = [image |-> pass.run, port |-> pass.runPort]
    /\ pass' = [pass EXCEPT !.at = "record"]
    /\ UNCHANGED <<forge, handling, repository, status, cache, job, route,
                   service, troubles, migrated>>

\* Fault: the release the pass went by is written, found or not.
ReleaseWritten == pass.release

\* The release is only written by a pass that found one.
ReleaseKept == IF pass.found THEN Merged(status.release, pass.release) ELSE status.release

Deployed == pass.run

(* The ports kept are those of the images still in play.                   *)
RecordStatus ==
    /\ pass.at = "record"
    /\ status' = [release    |-> ReleaseKept,
                  deployed   |-> Deployed,
                  port       |-> pass.port,
                  imagePorts |-> pass.ports \intersect {Deployed, pass.desired},
                  pollDue    |-> status.pollDue /\ ~pass.checked]
    /\ pass' = Idle
    /\ UNCHANGED <<forge, handling, repository, cache, made, troubles>>

\* Any other error ends the pass where it is, and it is tried again.
PassFails ==
    /\ pass.at # "idle"
    /\ pass' = Idle
    /\ UNCHANGED <<forge, handling, repository, status, cache, made>>
    /\ Fault

\* The operator is restarted, and reads the resource afresh.
CirrusRestarts ==
    /\ pass' = Idle
    /\ handling' = {}
    /\ cache' = [repository |-> repository, status |-> status]
    /\ UNCHANGED <<forge, repository, status, made>>
    /\ Fault

-----------------------------------------------------------------------------
Outside ==
    \/ PipelineSucceeds \/ MoveImage
    \/ \E n \in Pipeline : WebhookReads(n)
    \/ \E r \in handling : WebhookRecords(r)
    \/ \E i \in ImageName : JobExpires(i)
    \/ PassFails \/ CirrusRestarts

Work ==
    \/ \E ready, checked, answers \in BOOLEAN : Reconcile(ready, checked, answers)
    \/ ApplyDeployment \/ RecordStatus

Next ==
    \/ Outside \/ Work \/ Watched \/ TimePasses
    \/ \E i \in ImageName : JobFinishes(i)

Spec == Init /\ [][Next]_vars

(* Passes are requeued for as long as the operator runs, the watch is      *)
(* re-established when it breaks, migrations have a deadline, and time     *)
(* goes by.  Nothing is asked of the webhook.  Things go wrong only so     *)
(* many times (MaxTroubles): a forge that never answers is not promised    *)
(* against.                                                                *)
Fairness ==
    /\ WF_vars(Work) /\ WF_vars(Watched) /\ WF_vars(TimePasses)
    /\ \A i \in ImageName : WF_vars(JobFinishes(i))

FairSpec == Spec /\ Fairness

-----------------------------------------------------------------------------
StatusType ==
    [release : Release \union {NoRelease}, deployed : ImageName \union {NoImage},
     port : Nat, imagePorts : SUBSET ImageName, pollDue : BOOLEAN]

PassType ==
    [at : {"idle", "apply", "record"}, release : Release \union {NoRelease},
     found : BOOLEAN, checked : BOOLEAN, desired : ImageName \union {NoImage},
     run : ImageName \union {NoImage}, runPort : Nat, port : Nat, ports : SUBSET ImageName]

TypeOK ==
    /\ newest \in 0..MaxPipelines
    /\ events \subseteq Pipeline
    /\ handling \subseteq Release
    /\ repository \in Repository
    /\ status \in StatusType
    /\ cache \in [repository : Repository, status : StatusType]
    /\ pass \in PassType /\ (pass.found => pass.release \in Release)
    /\ job \in [ImageName -> {"none", "running", "succeeded", "failed"}]
    /\ deployment \in [image : ImageName \union {NoImage}, port : Nat]
    /\ route \in Nat /\ service \in Nat
    /\ troubles \in Nat
    /\ migrated \subseteq ImageName

(* "The Deployment is only given the new image once they've finished": the *)
(* code that is running never meets a database its migrations have not     *)
(* been run on, whatever was recorded, lost or read late on the way.       *)
MigratedFirst == Migrations /\ deployment.image # NoImage => deployment.image \in migrated

(* An image is only ever run on the port it listens on, also when an old   *)
(* image is kept running while a new one with another port is prepared.    *)
RunsOnItsPort == deployment.image # NoImage => deployment.port = PortOf(deployment.image)

(* The schema doesn't move ahead of an image that can't be run: there are  *)
(* migrations only for images whose port can be known.                     *)
SchemaStaysBack == \A i \in ImageName : job[i] # "none" => PortOf(i) # 0

(* A pass that found nothing new leaves the release as it is, even one the *)
(* webhook recorded while the pass was under way.                          *)
NothingDropped ==
    [][pass.at = "record" /\ pass'.at = "idle" /\ ~pass.found =>
          status'.release = status.release]_vars

(* However many webhooks are lost, the newest release is what runs in the  *)
(* end, if it can be: its port is known, its migrations work and the spec  *)
(* was never pointed away from where the forge knows of it.                *)
CatchesUp ==
    [](repository \in Registry) =>
        <>[](newest > 0 /\ newest \notin Broken
                /\ PortOf(Reference(ReleaseFor(repository, newest))) # 0
             => deployment.image = Reference(ReleaseFor(repository, newest)))

(* The comment at the head of reconcile/mod.rs: a status write does not    *)
(* drop a release the webhook wrote meanwhile.  No pass replaces a release *)
(* by that of an older pipeline.                                           *)
(* Doesn't hold, and no run checks it (README, Observed on the way).       *)
NewerIsKept ==
    [][pass.at = "record" /\ pass'.at = "idle" => status'.release.commit >= status.release.commit]_vars

(* "`port` is the Service's, which the route points at" (network::ensure): *)
(* no pass comes to its end with the route pointing elsewhere.             *)
(* Doesn't hold, and no run checks it (README, Observed on the way).       *)
RouteMeetsService ==
    [][pass.at = "record" /\ pass'.at = "idle" /\ status' # status /\ service # 0
          => route = service]_vars

(* "An image kept somewhere else is then rolled out by tag": the image a   *)
(* release stands for is one that was published.                           *)
(* Doesn't hold, and no run checks it (README, Observed on the way).       *)
ReleaseIsPublished ==
    status.release # NoRelease => IsPublished(Reference(status.release))

(* "A migration that fails leaves the old version running": what is        *)
(* running only ever gives way to the image that is wanted.                *)
(* Doesn't hold, and no run checks it (README, Observed on the way).       *)
OldVersionStays ==
    [][pass.at = "apply" => deployment'.image \in {deployment.image, pass.desired}]_vars

-----------------------------------------------------------------------------
(* The inductive invariant.  What keeps both promises is that the image    *)
(* recorded as deployed, in any copy of the status, is itself one that may *)
(* be run: a pass that can't run what it wants falls back on it.           *)
MigrationInv ==
    Migrations =>
        /\ \A i \in ImageName : job[i] = "succeeded" => i \in migrated
        /\ {status.deployed, cache.status.deployed, pass.run, deployment.image}
              \subseteq migrated \union {NoImage}

RunPortInv ==
    /\ SpecPort = 0 =>
          /\ \A s \in {status, cache.status} :
                s.deployed # NoImage => s.deployed \in s.imagePorts
          /\ pass.run # NoImage => pass.run \in pass.ports
    /\ pass.at = "apply" => pass.runPort = PortOf(pass.run)
    /\ RunsOnItsPort

IInv == TypeOK /\ MigrationInv /\ RunPortInv
=============================================================================
