# Community Cloud in TLA+

Community Cloud turns a handful of machines into a Kubernetes cluster and runs
applications on it. This directory holds a model of the parts of it whose
correctness depends on the order in which things happen, the TLC
configurations that check the model on small instances, and proofs, checked by
TLAPS, of what matters most for instances of any size.

Paths below are relative to the repository. `PROJECT.json` names, for every
definition that stands for code, the lines it stands for.

Contents: [the system](#the-system), [the modules](#the-modules),
[the runs](#the-runs), [the proofs](#the-proofs),
[observed on the way](#observed-on-the-way), [not modelled](#not-modelled),
[what is left](#what-is-left).

## The system

### Installer (`installer/`, TypeScript)

| Part | State it keeps | Operations | What is hard |
| --- | --- | --- | --- |
| Pipeline engine, `src/pipeline` | the fleet (connections to nodes, a borrowed control plane), the plan, the nodes blocked by the gate, outcomes, what nodes and the cluster know | resolve, plan on paper, raise the fleet, plan, run in lock step, verify, disconnect | nodes work concurrently; any of them may be down, share an address with another, or fail at any step |
| Command bundles, `src/cli/commands/Command*.ts` | results, context, whether something failed | decide whether to run, run, parse, save to the context, halt or go on | failures at each of those points; values passed between commands |
| Connections, `src/remote`, `src/runners/nodeConnection.ts` | SSH sessions | connect, execute, disconnect | time-outs, sessions that die, commands killed half way |
| Runners, `src/runners` | none of their own | install, doctor, preflight, uninstall, clean, add a node, run one bundle, configure | which bundles and options each asks for a run with |
| Cluster bundles: K3s, Nebula, registries, labels, Cilium and gateway, NVIDIA, sign-in, record | machines, the mesh's account, the API server's objects | install, restart, label, apply, record, and a check of each | what was half done is done again, under another configuration |
| Storage: LVM, node labels, lvmd's configuration | disks, volume groups, labels, rendered configurations | find, group, label, render, remove | disks of people's own; the four disagreeing |
| Packages: Helm, Secrets, Authentik, Mail, records | releases, credentials, sign-in clients, records | order, make credentials, install, wait, verify, record | one credential used by several; what is missing or half installed |
| Removal: Drain, Uninstall, Clean | nodes of the cluster, what is left on the machine | cordon, drain, uninstall, remove, clean | stopping between draining and removing |
| Plugins, `src/plugins` | approvals in the configuration | discover, approve, load, read templates | files that change after they were approved or read |
| Configuration, `src/runners/configure.ts`, `src/cli/configure` | one JSON file | ask section by section, write, check | shapes people write by hand; what isn't asked about |
| Placement and DNS, `src/util/{placement,dns}.ts` and their bundles | an admission policy, labels; ExternalDNS instances, Secrets | apply, verify, report | pods and instances from before |

The runners hand a pipeline (an ordered list of bundles), a list of nodes and
options to `executePipeline`. That plans, connects, plans again for the nodes
that answered and calls `runPlan`, which for each step wraps one command per
node in a `CommandBundle` of its own and waits for all of them. Commands
communicate through a context, kept between steps by the class `Memory`.

### Cirrus (`operators/cirrus/`, Rust)

| Part | State it keeps | Operations | What is hard |
| --- | --- | --- | --- |
| Reconciler, `src/reconcile/mod.rs` and beside it | the WebApplication's status; its Service, Job, Deployment, route | one pass: dependencies, forge, port, route, Service, migrations, Deployment, status | passes work from a cached copy, may stop anywhere, and share the status with the webhook |
| Webhook and forge, `src/webhook.rs`, `src/forge` | `status.release` | read the application, work out the image, record it | lost and late requests, concurrent requests |
| Ports, `port.rs`, `src/registry.rs` | `status.imagePorts` | find credentials, sign in, read manifests and a config | tags that move, tokens that run out |
| Dependencies, `postgres.rs`, `bucket.rs`, `rabbitmq.rs` | Secrets, roles, databases, buckets, vhosts | ensure | half-made pairs; objects of an earlier application of that name |
| Cleanup, `cleanup.rs`, `naming.rs` | finalizer, what is in another namespace | delete | what is left; names two applications share |
| DNS providers, `src/dns` | one ExternalDNS per provider and namespace | reconcile, remove | two providers with one zone; removal that fails half way |

Cirrus runs as a single replica that is replaced rather than rolled
(`k8s/operators/cirrus/Cirrus.yaml`), so its passes over one application never
overlap.

### The rest

Meteorologist (`ui/meteorologist`, Next.js) changes the same resources through
the Kubernetes API, by server actions that several people run at once; the
Headlamp plugins only show them; `scripts/release` releases a component by
tagging what is on main; `k8s/` is data.

### What makes each part correct

- *Pipeline engine.* Nodes in lock step; a failure stops all of them at the same place;
  a run that changes nodes starts on all of them or none; a node that failed the gate is
  left alone and nothing is run from it; connections outlive the work that needs them.
- *Memory, bundles.* Findings of one step don't leak within it, and none is hidden by an
  older one; a bundle does nothing after the failure that halts it, and builds on nothing
  a failed command saved.
- *Cluster bundles.* Whatever an earlier run left, a rerun succeeds; when it says so,
  what the configuration asks for is in force, and K3s has loaded it.
- *Storage.* Labels, groups and lvmds agree; nobody's disk is touched.
- *Packages.* A package goes in over what it requires and is whole after; a credential in
  use isn't replaced; a check-up tells what is wrong and nothing else.
- *Removal.* Pods are moved before a node goes, data goes when that was asked for, and
  what is gone stays gone.
- *Plugins.* What runs is what was approved, and replaces nothing.
- *Configuration.* Enter changes nothing, and what isn't asked about is kept.
- *Placement, DNS.* Pods of a placed namespace stay in its region; no two sets of
  namespaces write one name.
- *Reconciler.* Migrations before code; the right port with every image; the newest
  release in the end; nothing recorded by a webhook dropped.
- *Dependencies and cleanup.* Credentials that match what they open; nothing left behind.
- *DNS providers.* Providers in conflict run nothing, the others their instances.
- *Meteorologist.* A form replaces what it was opened on, and only what it shows; each
  call of a save leaves a namespace that works.
- *Release.* A tag is its commit's version, on main.

### How the parts meet

- The configuration file is written by `configure`, read by every runner, and names
  plugins, packages, placements, DNS providers and nodes.
- The installer's bundles meet in the API server: labels written by one are read by
  another (storage shapes, gateways, GPU), and credentials made by one are used by several.
- Cirrus and Meteorologist share `WebApplication`, `DnsProvider` and the pull Secrets;
  Cirrus and its webhook share a status, by merge patches.
- A release is what Cirrus's image and the installer's embedded manifests agree on.

## The modules

| Module | Lines are of | Run |
| --- | --- | --- |
| `LockStep`, `Pipeline` | `pipeline/{execute,fleet,plan,run}.ts`; the promise at the head of `run.ts` abstractly, and its refinement | `Pipeline` |
| `RunMemory`, `CommandBundle` | `Memory` in `run.ts`; `CommandBundle.ts`, `Command.ts` | `Steps` |
| `ImagePort` | `reconcile/port.rs`, `registry.rs` | `Steps` |
| `Doctor` | `runners/doctor.ts` | `Steps` |
| `Preflight` | `runners/preflight.ts`, `commands/Preflight.ts` | `Steps` |
| `WebApplication` | `reconcile/{mod,migrations,source,network}.rs`, `webhook.rs`, `forge/` | `WebApplication` |
| `Dependencies` | `reconcile/{postgres,bucket,rabbitmq,cleanup}.rs`, `naming.rs`, the webhook's half of `source.rs` | `Dependencies` |
| `Domains`, `DnsProviders` | `dns/*.rs`; the overlap of domains is also in `DnsBundle` and `Console`, whose code repeats it | `DnsProviders` |
| `NodeLifecycle` | `commands/{AddNode,Drain,Uninstall,Clean}.ts`, the agent's part of `K3s.ts`, their runners | `NodeLifecycle` |
| `NodeStorage` | `commands/LVM.ts`, storage in `NodeLabels.ts`, `util/{storage,template}.ts` | `NodeStorage` |
| `Catalogue`, `Packages` | `commands/{packages,Helm,Secrets,Authentik,OAuth2Proxy,Mail,PackageRecord}.ts` | `Packages` |
| `InstallRun`, `Mesh`, `ClusterInstall` | `commands/{K3s,ClusterSignIn,Registries,NodeLabels,Cilium,GatewayNodes,Nvidia,ClusterConfig,Nebula,NebulaNetwork}.ts`, `runners/{install,addNode}.ts` | `ClusterInstall` |
| `Configure` | `runners/configure.ts`, `cli/configure`, what `preflight.ts` says of the answers | `Settings` |
| `Plugins` | `plugins/` | `Settings` |
| `Placement`, `DnsBundle` | `util/{placement,dns}.ts`, `commands/{Placement,Dns}.ts` | `Settings` |
| `Console` | `ui/meteorologist/src/lib` (actions, client, settings, forms) | `Console` |
| `Release` | `scripts/release` | `Release` |

An `MC` module gives constants their values. `MCSteps` and `MCSettings` put modules that
share nothing side by side: a behaviour is of one of them, chosen by `part`.
The modules whose names end in `Proofs` hold the theorems: one for each of `Pipeline`,
`ClusterInstall`, `DnsProviders`, `Dependencies` and `Console`, `RerunProofs` for
`Release`, `NodeLifecycle` and `Configure`, which are begun again from wherever they were left,
`StepsProofs` for `RunMemory`, `CommandBundle`, `ImagePort`, `Placement` and
`WebApplication`, and `SettingsProofs` for `NodeStorage`, `Plugins`, `DnsBundle` and `Preflight`.

Definitions whose comment begins with "Fault:" are not part of a specification.
Each is a plausible mistake in the definition below it, and the list of mutants in
`PROJECT.json` says which property finds it. A handful of properties are stated that
don't hold of the code as it is; each says so, no run checks it, and
[Observed on the way](#observed-on-the-way) tells how it fails.

### Pipeline, LockStep

`phase` is where `executePipeline` has got to; `conn` is the connection to each
node; `members`, `borrowed` and `faults` are the fields of `Fleet` and the kinds
of `FleetFailure`. `plan` maps the position of a command in the pipeline to the
nodes it is for, so a plan is a function on a set of positions and the next step
is the least one above `step`. `task` is what each node does for the current step.
`begun` and `ended` are history.

One action per point at which `executePipeline`, `raiseFleet`, `runPlan` or
`verify` can do something another party can observe, or take another way:
`RefusePlan`, `DryRun`, `Connect`, `Borrow`, `NoNeedToBorrow`, `Borrowed`,
`Abandon`, `RefuseDuplicates`, `NobodyToAsk`, `Raised`, `StartStep`, `FinishStep`,
`FinishPlan`, `Verify`, `Return`, `Disconnect`; and `Answer`, `NoAnswer` and
`NodeFinishes` for the nodes. The machine-ID query is the argument `silent`: the
members that don't answer it. Which nodes answer, and how each command comes out,
is left open. A request says what the options and the configuration say. Commands
themselves, and all that is printed, are left out. A bundle that looks at the fleet
while it is turned into commands (`buildPlanningContext`) is taken to give the same
commands each time.

### RunMemory, CommandBundle

`cluster` and `own` are `Memory`'s two layers, `held` the merged copy each command was
handed at the start of its step. A finding carries who made it, at which step and
whether that step was cluster-wide, so that it can be told whose knowledge ends up
where. The plan and who fails are left open.

A bundle is a sequence of commands reduced to what decides their outcome: whether it is
wanted, where it runs, whether it can be skipped, what it needs from the context and
saves to it, and whether its output has to parse. `tried` and `wrong` are history. In a
bundle that keeps going, a command that fails to decide whether to run is recorded as
failed and then carried out all the same (`DecidingFails`), as in the code; of the
commands preflight runs that way none decides, so nothing is claimed about it.

### WebApplication

`status` and `cache` are the resource's status and the operator's copy, `pass` the pass
under way, `job`, `route`, `service` and `deployment` what it makes. A pass is three
actions: `Reconcile` (everything up to and including the start of migrations),
`ApplyDeployment` and `RecordStatus`; between them the webhook, GitLab, the
Job and the watch may do anything, and the pass may fail (`PassFails`) or the operator
be restarted (`CirrusRestarts`). Up to the writes of the route and the Service a pass only
reads its own copy and what it asks for, and no other party writes those objects, so
nothing is lost by making that one action. `Merged` is what a JSON merge patch makes of
a release without a digest, since the field is not serialized. A webhook that is lost
is one that is never read. `IsPublished` says that a digest means something only in the
registry it was found in. How each dependency is made is in `Dependencies`; `ready` says
whether all are.

### ImagePort

A pass that needs a port (`StartReading`) makes up to three requests, the manifest the
image's name stands for, one manifest of an index, and a config; `read` is how far it
got and the authorization it holds. `Unauthorized` is a 401 with the one sign-in,
`AnswerManifest` and `AnswerConfig` what the answers lead to, `EndPass` the status
written at the end of a pass. Tags move, Secrets and the spec change, a token runs
out, a request isn't answered or the operator restarts between any two.
Several ways of one failure (a body that can't be parsed, a 404, a 5xx) are `Unanswered`.

### Doctor, Preflight

`Doctor` goes through a check-up: `fleet` is who answered, `plan` the checks in their
order, `outcomes` what was said, `report` the problems and the fixes made of them. A step is
asked of all its nodes at once (`Pipeline` has them side by side), and what is wrong with
the cluster (`ill`) doesn't change while it is asked. At the end somebody runs the fixes
that were listed, in that order (`RunFix`).

`Preflight` looks at a configuration (`file`) and then at each machine in turn: `line` is
the connection to it, `turn` the check to come, `told` the problems. A connection may be
lost while a check runs, which the check takes for success. What is said of servers,
gateways, mail and DNS is in `Configure` and `DnsBundle`.

### Dependencies

`app` is the applications there are, by the life of their name; `secret`, `cluster`,
`database` and `bucket` the objects that belong to them, each with its owner; `objects`
and `users` what is in RabbitMQ's namespace under the joined name; `inPostgres` and
`credentials` what the other operators made of them; `hook` what is registered on each
project, `deployment` and `copies` what was rolled out and what it loaded. A pass reads its application at `Begin` and goes through
`EnsurePassword`, `EnsureDatabase`, `EnsureBucket`, `EnsureUser`, `CopyCredentials`,
`EnsureHook`, `RollOut`, `Record` (`After` says in which order, past what isn't asked for),
or, for one being deleted, `RemoveShared`, `RemoveHook`, `LetGo`. `Collect` is Kubernetes' garbage collector, which may be slower
than whoever makes the application again. `collected` is history: in which lives keys of an
earlier one were collected. It decides nothing, and is there for `DeployedAfter` to say when
there may be no keys. `Given` is what an application was given of a service. CloudNativePG, SeaweedFS and RabbitMQ's
operator are external, one fair action each.

### Domains, DnsProviders

`specs` is the providers there are (a uid each, since one that is deleted and made again
is another), `known` the operator's cache, `queue` what is to be looked at, `pass` the pass
over each, `deployments` and `access` the instances, `tick` what the second watch has yet
to tell of. A pass takes the listing, decides what stops it, applies an
instance per namespace and removes the others, each removal in its parts. There are two
watches: one tells a provider's own pass, one has all of them looked at again.
`Overlaps` and `Conflict` are `dns/conflicts.rs`, and `util/dns.ts` and
`lib/dns/providers.ts` do the same, so `Domains` is used three times.

### NodeLifecycle

One agent: `k3s` its service and files, `kept` its credentials and directories, `work`
what runs on it, `storage` its volume group, `object` the cluster's Node. `run` is a run under way, a sequence of named commands put together as the runner
does it; each command of the bundles is an action that may also fail, be cut in the
middle or be told nothing by an API server that doesn't answer. The kubelet, the
scheduler and a reboot act beside it.

### NodeStorage

`disk` is what every disk holds, `tagged` the groups with the installer's tags, `class`
what the configuration says of each disk, `label` the shape in a node's label, `lvmd` the
configurations rendered last. The commands of
`lvm`, `nodeLabels`, `helm-charts` and `clean` are actions; people fit, pull, use and
group disks (`MaxChanges`).

### Catalogue, Packages

`Catalogue` is `PACKAGES` reduced to what decides anything: what each package requires,
comes after, makes up, signs in with, mails with. `Packages` works out the order
(`Plan`), the commands of each package and what each does to `release`, `secret`,
`client`, `mail` and `record`. Manifests before and after a chart are one step each, a
chart's repository, values and install one step. Only the configurations in `Troubled`
are disturbed.

### InstallRun, Mesh, ClusterInstall

`InstallRun` is the engine as a bundle sees it: each step on all its nodes before the
next, a failure ending the run, checks asked again at the end (`Pipeline` has the engine
itself). `Mesh` adds the account's `roles` and `hosts` and each machine's `client`;
`ClusterInstall` adds `disk` (what is there for K3s to read), `k3s` (what it was started
with), `byHand` and `cluster`. One action per command, over configurations that differ in
network, registries, sign-in clients, gateways and mode.

### Configure, Plugins, Placement, DnsBundle

`Configure`: `file` is the configuration, `session` what somebody is editing. Each section
is a relation from a part of the draft to its outcomes (`ClusterOutcomes`, ...), `enter`
saying whether every answer was the one offered. A session may be quit or cut short, in
the middle of the write too. One behaviour is of one section (`subject`), since sections
share nothing but the file.

`Plugins`: `shelf` is the plugin directory, `approved` the fingerprints in the
configuration. A run finds sources, checks fingerprints, registers one thing after the other
until a name is taken, and later renders templates: from the bytes read for an archive, from
the files as they are for a directory.

`Placement`: `labelled` and `annotated` are the namespaces', `pods` carry the terms they
came with and those the policy gave them. The scheduler and PodNodeSelector are external.

`DnsBundle`: a configuration that preflight accepts is carried out by a run that may stop
anywhere; `dnsSteps` is what is left of it, credentials before instances before the
inventory, and `releases` keep what they were installed with until the next.

### Console

People (`tab`, what each page shows; `doing`, the server action each has under way) on one
of three pages. An action is the sequence of its calls to the API server, one action of
the model each; when it ends the page is rendered again, and the form keeps what was
typed. Calls that fail did nothing.

### Release

`main` is the commits of main, `clones` a clone per person, `tags` what was pushed. `set`
writes the files one by one; a release checks the places, fetches, asks, tags, pushes.

## The runs

Every configuration passes, in less than three minutes with two workers.

| Run | States | Properties |
| --- | --- | --- |
| `Pipeline` | 47 thousand | `IInv`; `StopsAtFailures` (nodes stop together, and what a failure of the gate stops); `AllOrNothing`; `EndsWell` (a clean report means all was done, a check-up asks only questions, changes leave no session open); `ImplementsLockStep`; every run `Ends` |
| `WebApplication` | 410 thousand | `IInv` (no code before its migrations, and the port that goes with the image); `SchemaStaysBack`; `NothingDropped` of what the webhook recorded; `CatchesUp` with the newest release |
| `DnsProviders` | 613 thousand | `IInv` (a provider in conflict with nothing left to look at runs nothing); `StatusIsTrue`; `ComesRight` (conflicts end, and what is free goes live) |
| `Dependencies` | 481 thousand | `DependenciesInv` (nothing is left in RabbitMQ of what has gone; what is rolled out was given what it loads, in this life); `InTheEnd` (credentials match in the end, deletions end) |
| `NodeLifecycle` | 45 thousand | `LifecycleInv` (what was removed stays out; a rerun succeeds); `NothingLost` (data only when told to, pods only after a drain); `RunEnds` |
| `NodeStorage` | 3.2 million | `StorageInv` (one lvmd a node); `InstallLeavesServed` (nothing half made, labels and lvmds that say which groups there are); `OthersLeftAlone` |
| `Packages` | 1.6 million | `PackagesInv` (no result replaced, a refusal touches nothing); `InstallIsRight` (in good order, over what is required, with sign-in that works; what it leaves; no credential replaced); `CheckupIsRight` |
| `Console` | 2.9 million | `ConsoleInv` (settings saved call by call, and what was checked against other objects, still hold); `SavesAreSafe` (a first save replaces only what it was opened on, and nothing it doesn't show) |
| `ClusterInstall` | 456 thousand | `InstallInv` (roles once; reruns succeed); `InForce` (addresses, gateway, registries, runtime and sign-in are as a run says); `InOrder` (what no step may do) |
| `Release` | 951 thousand | `ReleaseInv` (a tag names the version of its commit on main, pins are released, a failed script leaves no tag, what `set` wrote can be merged) |
| `Steps` | 392 thousand | `MemoryKeeps` (nothing leaks within a step, a node's own findings last); `BundleInv` (a bundle halts or goes on as told, and builds on what worked); `PortInv`, `PortIsSettled` (a port read is one the image declares, with one sign-in, comes to be known and isn't asked for again); `DoctorInv` (a report keeps nothing back, and its fixes put right what they are for); `PreflightInv` (ready is said of what could exist and is fit) |
| `Settings` | 2.0 million | `ConfigureKeeps` (Enter keeps and stays accepted, what isn't asked about is kept, ticks are installed); `PluginsInv` (what runs of a plugin is what was approved); `PlacementInv` (pods stay where they were verified); `DnsBundleInv` (nobody writes others' names) |

A property of several parts is the conjunction of them, and each part is stated, with what
in the code it is about, under a name of its own. The type invariant is the first part.

### Bounds, and why they are enough

- *Pipeline*: one server and two agents, thirteen requests, at most five commands.
  Two agents are the least with which one can fail or be blocked while another is
  asked on; a server is the least with which there is, or isn't, a control plane.
- *WebApplication*: two pipelines after the spec's own tag give three images, of
  which one is recorded, one runs and one is wanted; the second declares no port.
  `MaxTroubles` bounds what isn't ready, stale copies, failed passes, restarts, a move of
  the image and a Job that expires. The proofs have no such bound.
- *DnsProviders*: two providers, three contents of which two conflict and one gives a
  part away; one edit beside the first contents, one fault. Two providers are the least
  that conflict; the proof of `ConflictRunsNothing` has no such bound.
- *Dependencies*: one application over two lives, two edits, one fault. Two lives are
  what makes Kubernetes collect one application's objects beside another's. Two
  applications meet only in the joined name, which is told of below.
- *NodeLifecycle*: one agent, three faults: a run cut short, a rerun misled, a reboot.
- *NodeStorage*: two nodes of different shapes, two disks each, two changes by people,
  one fault. Groups are made and classes changed by hand only between runs.
- *Packages*: every package and every pair of the catalogue, one trouble each. What a
  package does depends on those it requires, so pairs meet every dependence. `--packages`
  names one.
- *Console*: two people, three presses of a button, one failed call: a third press is
  what saves again after a refusal. Symmetric in the people. The proof has no such bound.
- *ClusterInstall*: a server and an agent, four configurations of which one follows
  another, one fault. What a bundle leaves depends on the configuration before at most. The
  proofs are of any number of nodes, roles, configurations, edits and faults.
- *Release*: two people, two components, three versions, two commits, two uses of
  `set`, one interruption or edit by hand. Symmetric in the people. The proof has no such bound.
- *Steps*: three steps: one to find something out, one to find something newer and one
  to see it. Bundles of up to three commands. A tag over three manifests (one port, two
  ports, an index of both), two pull Secrets, two changes and two faults. A check-up of
  a server and two agents with up to two troubles, the least that can have one cause or
  stand in each other's way. A preflight of two nodes, or three, a file with one mistake at
  most, and one connection lost.
- *Settings*: two nodes, two sessions, three hand-written configurations and files that
  are missing or broken; two plugins in two places with three versions, two templates and
  two changes; one pod at a time, since pods don't affect each other; two DNS
  configurations after the first. The proofs have no such bounds.

Deadlock is checked for `WebApplication`, `NodeLifecycle`, `NodeStorage`, `Packages`,
`ClusterInstall` and `Release`, which never stop. The others may: `Pipeline` and `Steps`
come to their end, in `Console` and `Settings` the changes people make are used up, in
`DnsProviders` and `Dependencies` everything may have been deleted.

### Fairness

- *Pipeline*: weak fairness of the thread of control and of each node. The event
  loop runs what can run; a connection attempt has a time-out (`connectMember`), a
  command's own waits are bounded, and a connection that dies is noticed by its
  keepalives (`remote/RemoteHost.ts`, `keepaliveInterval`).
- *WebApplication*, *Dependencies*, *DnsProviders*, *ImagePort*: weak fairness of passes and
  of the watches, of the garbage collector, of each Job (which has a deadline,
  `migrations.rs`), of the operators Cirrus relies on, and of the ten-minute clock;
  every pass ends in a requeue, and a pass that failed is tried again. Each request to
  a registry has a time-out of twenty seconds (`Registry::new`). Nothing is assumed of
  webhooks. Faults stop in the end: a forge that never answers is promised nothing.
- *NodeLifecycle*: weak fairness of the run and of a node that is joining. What a command
  waits for has a time-out.

## The proofs

For every value of the constants that satisfies the named assumptions of the modules.

| Theorem | States |
| --- | --- |
| `PipelineProofs!TypeCorrect`, `Invariance` | `[]TypeOK`, `[]IInv` |
| `LockStepHolds`, `StoppingHolds`, `GateIsKept`, `WholeFleetOrNothing`, `WorkersAreConnected` | `[]` of `Barrier`, `StopsTogether`, `GateHolds`, `AllOrNothing`, `WorkIsConnected` |
| `FailuresStop`, `RunsEndWell` | `[]StopsAtFailures`, `[]EndsWell` |
| `PipelineImplementsLockStep` | `Spec => ImplementsLockStep` |
| `StepsProofs!TypeCorrect`, `Invariance` (of `WebApplication`) | `[]TypeOK`, `[]IInv` |
| `MigratedBeforeRun`, `RunOnItsOwnPort`, `SchemaBehind` | `[]` of `MigratedFirst`, `RunsOnItsPort`, `SchemaStaysBack` |
| `WebhookKept` | `Spec => NothingDropped`, an action property |
| `DnsProvidersProofs!TypeCorrect`, `Invariance` | `[]TypeOK`, `[]IInv` |
| `ConflictStops`, `StatusTold` | `[]ConflictRunsNothing`, `[]StatusIsTrue` |
| `DependenciesProofs!NothingLeftBehind` | `[]DependenciesInv` |
| `SettingsProofs!StorageHolds`, `OneLvmdEach` | `[]StorageIInv`, `[]StorageInv` |
| `OthersKept`, `RunsLeaveServed` | `Spec => OthersLeftAlone`, `Spec => InstallLeavesServed`, action properties |
| `RerunProofs!ReleasesAreWhole` | `[]ReleaseInv` |
| `LifecycleHolds` | `[]LifecycleInv` |
| `NothingIsLost` | `Spec => NothingLost`, two action properties |
| `AnswersAreKept` | `ConfigureSpec => ConfigureKeeps`, two invariants and four action properties |
| `StepsProofs!MemoryIsRight`, `MemoryIsKept` | `[]MemoryInv`, and `MemoryKeeps`, an action property |
| `BundlesAreRight`, `PortsAreDeclared`, `PlacedPodsStay` | `[]BundleInv`, `[]PortInv`, `[]PlacementInv` |
| `SettingsProofs!PluginsAreApproved`, `DnsIsApart`, `PreflightCanBeGoneBy` | `[]PluginsInv`, `[]DnsBundleInv`, `[]PreflightInv` |
| `ConsoleProofs!PagesKeepTheirWord` | `[]ConsoleInv` |
| `SavesKeepOthersWork` | `Spec => SavesAreSafe`, two action properties |
| `ClusterInstallProofs!InstallInvariance`, `InstallHolds`, `DoneMeansInForce` | `[]` of `InstallIInv`, `InstallInv`, `InForce` |
| `InstallsInOrder` | `Spec => InOrder`, four action properties |

*Pipeline.* `Barrier` is not inductive: that no earlier work is unfinished when a step
starts follows from the agreement of `begun \ ended` with `task`, which
`WorkInv` states. `AllOrNothing` needs `WholeInv`: that a fleet raised without a fault is the
whole of what was asked for has to be carried through every phase of raising it, and
`ConnInv` says what connections can look like in each. `WorkIsConnected` follows from
`FleetInv` and `WorkInv`. `GateHolds` needs `FailureInv`: a failure of the gate is in
`blocked`, lies behind the run, and for a run that doesn't keep going is the last thing
that happened. Each part is preserved by every action, in a lemma of its own.
The refinement maps `over` to `phase = "done"` and the other variables to themselves;
`StartStep` is `Begin`, `NodeFinishes` is `End`, whatever ends a run is `Close`, and the
rest are stutters.
How a run ends is `EndInv`, on top of it: what is connected belongs to the fleet, so that
letting go of the fleet lets go of everything, and a first round without a failure has
given each node all that was wanted of it so far.
Assumed: `NoNodeAssumption` and `RequestsAssumption`, that `host` is one of the servers.

*WebApplication.* Neither promise is inductive, because a pass that can't run what it
wants falls back on what its copy of the status records as deployed. So every
copy of that record (the status, the cache, the pass under way, the Deployment) has
to be migrated (`MigrationInv`) and to have its port kept (`RunPortInv`: an image that
pruning drops is neither deployed nor wanted). Nothing is assumed of the cache beyond
its having been the status once. `SchemaInv` adds that every list of ports that is kept
names only images whose port is known; `NothingDropped` needs no invariant. Assumed:
`RepositoryAssumption`, `BoundAssumption`, `PortAssumption`.

*DnsProviders.* That a provider in conflict runs nothing isn't inductive, since a pass
decides from a listing and a copy that may both be old when it acts. `IInv` says that a
pass that goes by an old copy of its own spec, or by a listing in which another spec has
changed since, is followed by another; that what is left for a pass to do is what its
spec asks for; and that instances beside those have somebody who will still look at them.
`ConflictRunsNothing` is then about providers with nothing left to look at. Two passes
that listed each other before either changed are told apart by the second watch, without
which the invariant fails. Assumed:
`NameAssumption`, `ContentsAssumption`, `BoundAssumption`, and `InsideAssumption` of `Domains`.
That a status is true needs `StatusInv` as well: how far each part of a pass has got with
the instances of the very provider it began with, which a deletion and a new provider of
the same name must not be taken for. It is proved where no two instances are put together
to one name (`DistinctNames`); where they are, it isn't so.

*Dependencies.* What is in RabbitMQ may be another application's of the same joined name,
so that it is gone with its application is not inductive. `Kept` says that whatever is there has
a keeper, an application with a finalizer whose pass has not yet gone past removing it.
That a rollout has what it loads needs `SeenTo`: a pass that has missed nothing was given, for
this life, what every step behind it is for, and `NoneTaken`: the collector takes nothing
this life owns. Only the keys to the bucket are SeaweedFS' to make, and a pass looks whether
there are any, not whose: without `collected` the theorem would not hold. The run has one application; the proof any number, ones that share a name
included. Assumed: `AppAssumption`, `AskedAssumption`, `ProjectAssumption`, `BoundAssumption`.

*NodeStorage.* That no node is selected by two of lvmd's configurations rests on
`ConfigsApart`: there is one for everyone, or each is for exactly one shape, whatever became of
the labels since. `OthersLeftAlone` needs `TaggedAreOurs`, since what a run takes away is
chosen by its tag. What an undisturbed run leaves has to be followed through it, node by node, for one
node may be a step ahead of another: `SoFar(n, k)` is what is so of a node once it has done k steps, and
`SetUpInv` that it is so of each, with the shapes read and rendered after the last label was
written. Assumed: `ConstantsAssumption`, `WhatsAssumption`.

*Release.* A release is made in a clone, of what main was when it was looked at. `HeadIsMain` and
`CheckedIsMain` say that what the script checked is still what that commit of main has,
`PinsOut` that the tags it looked for are out for good; `CopiesFollow` that only the component being
set has a manifest without its copy. Assumed: `ReleaseAssumption`.

*NodeLifecycle.* What is known of the machine depends on where the run has got to, so the
invariant follows the run from step to step. `OnItsWay` says that what is left of a run is the end
of a pipeline, step by step in its order. `DrainInv`, `TakeOffInv`, `UninstallInv` and `CleanInv`
say what is so when a run has come to a step: that a node found in the cluster is empty between
its drain and its stop, although pods are scheduled and machines restart meanwhile; that K3s
doesn't run where its state is removed. `Sound` is what of K3s can be on a machine, wherever
an install or a removal was cut short: a unit only with its binary and its killall script, and pods
only where that script is. `OutInv` is that a node that is out has nothing a reboot could start.
With the run's own options, that is what a rerun needs: `RerunSucceeds` is a conjunct of the invariant.
Assumed: `ConstantsAssumption`, and that no run keeps going past a failure (`KeepGoing`), which is
what the commands do unless they are told otherwise; one that is told goes on past a refusal, and
the properties don't hold of it (see *Observed*). `MaxFaults` may be any number.

*Steps.* Nothing leaks within a step because what a node was handed doesn't change while it works
(`AsHanded`), since a cluster-wide step has the server alone at work (`AloneWhenWide`). A
bundle's record is of what lies behind it (`Behind`, `Asked`), for any commands of `BundleType`.
A port that is kept is followed from the name through the index and the config it was read
from (`ReadInv`), each of which the name has stood for. Assumed: `ServerAssumption`, `StepsAssumption`,
`NothingAssumption`; and of a registry `SoundRegistry`, that an index points at manifests.

*Placement, Plugins, DnsBundle.* That verified pods stay needs that a pod's terms only get narrower
(`AskedNarrowly`), and that a pod which waits can't run outside its region (`StaysWithin`). What runs of
a plugin is what was approved of the files that are there as long as nobody changes them, which
`ManifestsRead`, `KnownApproved` and `RenderedAsApproved` carry from the shelf to what
is rendered. DNS instances stay apart since what a run has done so far is in
force (`RunSoFar`), and what it leaves without reporting it is the accepted configuration's own
(`AsConfigured`). Assumed: `PlacementAssumption`, `PluginsAssumption`, `DnsAssumption`.

*Configure.* What a session saves is compared with what it loaded, and any number of sections
may have been gone through in between, some of them twice. `SessionInv` therefore relates the
two drafts after every section: one that was not run is as it was loaded (so that a hand-written
mistake in it is neither mended nor made worse); one that `configure` wrote, now or in an earlier
run, has the form its section writes (`Written`), which is what Enter offers back; and what was
kept is kept over two answers as over one (`AllKept`, `Beside`, `NodesBeside`). That Enter leaves an
accepted configuration accepted (`WellSaid`) needs each section's problems told from that section's
part alone, except gateways, which nodes and the network's addresses share. A draft is a type
(`DraftType`) with what a hand-written file can't say in it (`WellMade`). Assumed:
`HandWrittenAssumption`, that files are such drafts, `AnswersAssumption`, that answers pass the
validation of their prompts, and `LiteralsAssumption`, that the literals of the module are strings. Looking for
the invariant showed that Enter does change a mail server without a port: it adds the usual
one, so mail is kept up to that port (`WithPorts`).

*Preflight.* `CheckedCouldExist` says of every file that the problems found in it are none
just when `CouldExist`, which mentions no check: that fields taken by an earlier node are those two
nodes share, that one server is counted, and that there are as many storage nodes as
volume servers just when each can have one to itself. A node's checks are followed by `Shown`, what there is to
show for each once it was its turn: an answer while the connection held, nothing where it was
lost, and a failure after that; a connection lost under a check that passes on nothing is found out by the next one.
Assumed: `FilesAssumption`, that nodes have names of their own, of which "all" isn't one.

*Console.* What is promised of an action when it ends has to be carried through its calls, so the
invariant says what is so after each: `Ordered`, that the calls still to come are in the order of
`applyNamespaceSettings`, no two alike; `Asked`, that they are those the form asks for; `Done`,
that what isn't to come any more is as typed, if nobody else called; `Steady`, that the quota
and the defaults are on their way from those of the page to the form's (`Between`), which is
where limits come before the quota, and the quota goes before the limits. `Publishes` says the
comparison with the other providers still holds of what is about to be applied. These speak of
one person's action only, and are kept because another's call clears `alone`. `Tab` and `Saves`
hold whoever calls: an application at the version a page shows is the one its form was opened
on, or the one just read, which is what `SavesAreSafe` follows from. Assumed:
`BeginningsAssumption`, that what there is to begin with has its types, and no ServiceAccount
names a Secret that isn't there.

*ClusterInstall.* That a run which says it is done has brought about what it was asked for isn't
inductive: what a step does rests on what others, far before it, have found out or made, and on
the bundles of two commands putting them in the same order. The order is told once and for all by a rank
(`Climbs`): whatever the command, its steps go up, but for the check of the gateway's interfaces,
which an installation makes twice. `RunInv` says where in its pipeline a run is, and from it
`Through`, `Has` and `Behind`, of each step and node, what the run is through, what it has done
(a verification has done everything) and what all nodes are past, also in a run that failed on one. The invariant
`InstallIInv` then keeps two accounts of every step: what is known of a node by having
gone through it (`Learned`), and what is so of the mesh, the disks, K3s and the cluster from then on
(`Brought`). `KnowInv` says that what is known can't have stopped to be so, `WorldInv` what holds
whoever has done what (one host to a node; K3s joins where it was started; Cilium came after the Gateway API), `AbleInv`
that nothing which lets a run succeed is undone by the run itself. Each action is shown to find
what its step rests on in these accounts (`RestsOn`), and to leave those of all the other steps
true; a step that is passed over to have had nothing to do (`NothingToDoIsDone`), which is where
a mistaken `skipWhen` would show. Edits come between runs; polls, joins and answers that are lost come at any time.
Assumed: `ConfigsAssumption`, that a configuration lists no role twice (nothing checks it: the
second is passed over, the role being there) and marks as gateways nodes of its own; `NamesAssumption`, that no role's name
is that of a step (its step is called `create-nebula-role-` and the name in the code); and
`ConstantsAssumption`.

*Only model-checked.* Liveness (`Ends`, `CatchesUp`, `ComesRight`, `InTheEnd`, `RunEnds`,
`PortIsSettled`): there are no rules for fairness here. The properties of `Packages`, whose orders are
worked out by recursion, and `DoctorInv`, whose plan, findings and fixes are folds over sequences: what they
compute for every input would take induction over data.

## Observed on the way

What the code does otherwise than its comments, messages or tests say, or in a way that may
surprise. A name in parentheses is a property that is stated in the module, fails of the
model when it is checked, and is in no run.

*Pipeline*

- `whyBlocked` asks for the control plane of a fleet that may have none: its exception ends
  a check-up without a report (`CheckupReports`, `run.ts:346`).
- `executePipeline` throws before the `try` whose `finally` disconnects when no member
  answered, with the borrowed server still connected (`execute.ts:153`, against the comment
  at `fleet.ts:266`). It takes a partial request: `EndsWell` is about the others.
- A node's layer of `Memory` keeps copies of what the cluster knew and hides what it
  learns later (`SharedIsSeen`, `run.ts:155` against lines 125 to 128); and what a server
  knows of itself is stored for everybody by a cluster-wide step.
- A remote command without an exit code, its connection lost or the command killed, counts
  as one that worked (`remote/RemoteHost.ts:179`).

*Doctor, preflight*

- `doctor --node` of an agent suggests fixes for the cluster and doesn't list them with
  the others (`EverySuggestionListed`, `runners/doctor.ts:462`). With a gate that failed and no
  server there is no report (`ReportIsMade`).
- A token that isn't text ends preflight with an exception, before the check of types that should
  come first is reported (`MistakesAreTold`, against `runners/preflight.ts:114`), and machines are connected
  to although the configuration could not exist (`ConfigurationFirst`, against
  `runners/preflight.ts:12`).
- A connection lost at the last check of a node that isn't a gateway isn't noticed, and it counts
  as ready (`ReadyAlways`); the checks of tools, ports, outbound access and network support pass
  on a command that was killed.
- What the checks of the clock and the disk say of output they can't read is never said: a
  number made of nothing is zero. A node without a usable name isn't told it has no address.

*Cirrus*

- A merge patch keeps the digest of a release in another registry when the new one has none
  (`ReleaseIsPublished`, `crd.rs:265`); a release known by its commit isn't looked up again
  after the spec moved away (`source.rs:143`).
- A stale or missing record of what is deployed makes a pass roll back while migrations run
  (`OldVersionStays`, `mod.rs:279`); a pass's poll overwrites the newer release a webhook
  recorded meanwhile (`NewerIsKept`, `mod.rs:404`); the route moves to the new port before
  the Service does (`RouteMeetsService`, `mod.rs:256` against `network.rs:33`).
- Failed migrations are started again a day later, when their Job has been cleared.
- A release without a digest names its image by tag, and the port read for it is kept when
  the tag moves (`port.rs:6` takes an image's config to be fixed). A token that runs out in
  the middle of a reading is reported as credentials refused. The first pull Secret with an
  entry for the registry is the one tried; the kubelet would try the next.
- The webhook stays on a GitLab project when its removal fails, or when the spec names
  another project by then (`HooksGo`). An application made again at once finds the Secrets
  of the one before it, which are then collected: its password changes while copies run
  (`PasswordIsKept`), and its webhook is taken to be registered with a token that is gone,
  for good (`HookIsHeard`, `source.rs:119`). It goes past the keys to its bucket as well
  when they are the last application's (`bucket.rs:61`): if these are collected before the
  rollout, "Until every one of them is ready there's nothing to roll out" (`mod.rs:8`) isn't
  so, and its copies wait for new ones. What is said of a database it adopted may be said of
  the last one, and credentials it copies may be those of the last `User`.
- `team`/`shop-web` and `team-shop`/`web` share vhost, user and bucket, and either's
  deletion takes them from the other (`KeepsItsOwn`, `naming.rs:42`). Two applications
  aren't instantiated in the run.
- A removal of a DNS instance that fails half way leaves its account and binding
  (`NothingLeftBehind`).

*Nodes*

- A node that is only just joining, or an API server that doesn't answer, reads as a node
  the cluster doesn't have, and isn't drained (`NothingDropped`, `Drain.ts:131`). One an
  uninstall cordoned and gave up on stays cordoned when it is added again
  (`AddedTakesWork`).
- `clean --keep-going` goes on past the refusal of `check-ready-to-clean` (`Clean.ts:207`,
  `runners/clean.ts:25`), which is why the run has no keep-going. The check of an added
  agent's K3s passes on credentials kept from an earlier membership.
- When `nodeLabels` runs by itself its label counts a disk that is only free
  (`LabelIsTrue`, `bundles.ts:377`). A node without a label is offered
  nothing once another has one, although the message says every class (`UnlabelledIsOffered`, `Helm.ts:133`,
  `template.ts:556`); an API server that doesn't answer while the shapes are read makes
  everybody be offered every class. A label stays when a node's disks all went. A node
  added with a shape of its own has no lvmd until `helm-charts` runs.

*Installation*

- `verify-authentication-config` comes before `install-k3s-server` in the `k3s` bundle and
  fails until K3s has the flag, which only that install sets: sign-in can be switched on
  with a hand-written `config.yaml` (`byHand`) or `--keep-going` only, although the message
  says to run the bundle (`K3s.ts:526`; `meteorologist.test.ts` pins the order).
- The announcement policy stays behind when the mode becomes floating, the old pool beside
  one of another name, and `registries.yaml` when all registries are removed.
- `add-node` doesn't write the cluster's record, so a check-up reports drift afterwards; it
  checks only the added node's mesh address. A node enrolled on another network isn't
  noticed. A rebuilt node can keep its NVIDIA label. `verify-node-ip` may read the old
  address of a node that has only just moved.

*Packages*

- With `--packages`, only direct `requires` are checked, and a failed release counts as
  present. `after` is honoured of enabled packages, not of those another requires
  (`AfterIsKept`, `packages.ts:1563`). Preflight checks the values of explicitly enabled
  packages only.
- The record is written before the checks, and by a run told to keep going even when the
  install failed. A release left pending by a run cut short stands in the way of the next
  (Helm's own lock, which isn't modelled; `Helm.ts:396`).
- A check-up doesn't notice a client, or a connection string, whose credentials changed.

*Configuration*

- A package set to plain `false` counts as enabled for the installer and for the check box,
  while the menu says it isn't (`SummaryIsTrue`, `section.ts:29`); Enter then enables it.
- Going through a section again resets every allocation when one can't be read, sets the
  queue discipline to `fq` under BBR over another chosen by hand, drops an old-shape `smtp`
  and a namespace's own port without a host, and turns a gateway that has the flag and not
  the role off. A dotted registry's password is never found to be kept. A node
  whose region is changed keeps its zone.
- The file is emptied before it is written (`runners/configure.ts:212`): interrupted in
  between, nothing of it is left. Two sessions at once: the later wins.
- A directory plugin edited while a run is under way runs files nobody approved
  (`RunsWhatWasApprovedAlways`); its manifest is read before the fingerprint is taken.
- Labels of a namespace that isn't placed any more are never taken off (`UnplacedIsFree`).
  A policy is required or preferred by a text that only a check reads. The check looks at
  pods that run, and skips one an old annotation holds.
- `external-dns-<provider>-<namespace>` is one name for two pairs when both have hyphens
  (`EachHasItsInstance`, `util/dns.ts:173`). Instances left over are reported, and keep
  writing; a removed provider's Secret stays.

*Meteorologist*

- After a refused or failed save the page is rendered again, and the open form gets the
  application's new version under its old text: saving again is not refused, and overwrites
  (`RefusedNotOverwritten`, `WebApplicationForm.tsx:170` against `actions.ts`).
- `deleteGitLabConnection` looks and then removes; two `setDnsPublishing` at once lose a
  namespace, or bring back a provider just deleted; two `createDnsProvider` of one name
  overwrite each other; saves of settings at once can leave a quota without its defaults,
  and a form opened early drops a pull Secret added later. `ConsoleInv` speaks of what
  nobody else disturbed.
- A save that failed after making a registry's Secret is refused when it is tried again
  from the same form. Withdrawing a provider isn't checked for the conflict it may free.

*Release*

- An older version can be released after a newer one by two people whose questions overlap
  (`VersionsRise`, eighteen steps). A pin is checked by its tag, not by an image having been
  published.

## Not modelled

- *Headlamp plugins*: they show resources and change nothing.
- *Kubernetes manifests, Helm values, embedded templates*: data. What the models take
  from them (Cirrus's replicas, labels that meet) is named where it is used.
- *The shell text of commands, what is printed, the schema of a configuration*: how a
  command is worded decides nothing about the order things happen in. A command is what it
  reads and changes; one that fails may have done its work or not.
- *GPU and network information*: they ask and print.
- *Sign-in and sessions of Meteorologist*: who may do what is the API server's to decide.
- *SSH itself*: connections that come and go are in `Pipeline`; what travels over one
  isn't.
- *Base packages, network tuning, the mode of Cilium's values, K3s' version pin*: each
  is one idempotent command whose check asks for what it did.
- In `ClusterInstall`, a server that is rebuilt, nodes that change network and one bundle
  run for the cluster or the gateway alone; in `Packages`, overrides of namespace and
  version and packages of plugins; in `Console`, calls whose answer is lost.
- *`cilium install` over an existing one, K3s's install script restarting a K3s whose flags
  changed, the Defined API, GitLab, GitHub, ExternalDNS, CloudNativePG, SeaweedFS and
  RabbitMQ's operators*: external, modelled by how the code uses them.

## What is left

- `Dependencies` composed with `WebApplication`, whose `ready` it would define: together
  they are too large for one run.
- An abstract statement of what `ClusterInstall` promises, a cluster that is as its
  configuration says, and a refinement in which a run is one step.
