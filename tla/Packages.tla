------------------------------ MODULE Packages ------------------------------
(***************************************************************************)
(* Installing packages: the order a configuration's packages go in         *)
(* (commands/packages.ts), the commands each of them gives                 *)
(* (commands/Helm.ts), the credentials, sign-in clients, mail and records  *)
(* those leave on the cluster (Secrets.ts, Authentik.ts, OAuth2Proxy.ts,   *)
(* Mail.ts, PackageRecord.ts), and the check-up that asks whether they are *)
(* there.                                                                  *)
(*                                                                         *)
(* Somebody changes the configuration, takes packages and credentials off  *)
(* the cluster or changes a password between and during the runs, and a    *)
(* run loses its connection at any command.                                *)
(***************************************************************************)
EXTENDS Catalogue, Naturals, FiniteSets, TLC, SequencesExt

CONSTANTS
    Described,    \* packages the configuration describes, that no one ships
    Configs,      \* bound: the configurations, what they enable and what they
                  \* say of what a package requires
    Troubled,     \* bound: those under which anything changes or goes wrong
    Bundles,      \* bound: the bundles of one package or a few
    Removable,    \* bound: the packages somebody takes off the cluster
    Lost,         \* bound: the credentials somebody deletes
    Roles,        \* bound: those whose password somebody changes
    MaxOnly,      \* bound: how many packages a run is told to keep to
    MaxTroubles   \* bound: how many times somebody changes something or a
                  \* connection is lost

VARIABLES
    config,      \* the packages of the configuration
    mailing,     \* the namespaces it gives a mail server
    release,     \* how much of each package is on the cluster
    namespaces,  \* the namespaces that were made
    secret,      \* the credentials there are, each by when it was made
    client,      \* the credential each package is registered with in Authentik
    mail,        \* the namespaces that have the mail credentials
    record,      \* the packages on record as installed
    run,         \* the run under way
    troubles     \* how many changes were made and connections lost

cluster == <<release, namespaces, secret, client, mail, record>>
people == <<config, mailing>>
vars == <<cluster, people, run, troubles>>

Everything == Names \cup Described

ASSUME ConstantsAssumption ==
    /\ Described \cap Names = {}
    /\ \A c \in Configs : /\ c.enabled \in Seq(Everything)
                          /\ DOMAIN c.requires \subseteq Everything
                          /\ \A p \in DOMAIN c.requires : c.requires[p] \in Seq(Everything)
    /\ Troubled \subseteq Configs
    /\ \A b \in Bundles : b \in Seq(Names)
    /\ MaxOnly \in Nat /\ MaxTroubles \in Nat

-----------------------------------------------------------------------------
(* What to install, and in what order                                      *)

\* What the catalogue knows, and what the configuration says instead.
Definition(c, name) ==
    LET p == IF name \in Names THEN Known[name]
             ELSE [Chart(name, name) EXCEPT !.applies = FALSE]
    IN  IF name \in DOMAIN c.requires THEN [p EXCEPT !.requires = c.requires[name]] ELSE p

\* Fault: only what a package requires goes ahead of it.
RequiredFirst(c, p) == p.requires

\* What goes ahead of a package: all it requires, and what it comes after
\* if the configuration names that too.
Preceding(c, p) == p.requires \o SelectSeq(p.after, LAMBDA q : q \in ToSet(c.enabled))

Done(so, name) == name \in ToSet(so.ordered)

\* Depth first.  A package met again while it is being visited is a loop.
RECURSIVE Visit(_, _, _)
Visit(c, so, name) ==
    IF Done(so, name) THEN so
    ELSE IF name \in so.visiting THEN [so EXCEPT !.looped = TRUE]
    ELSE LET below == FoldLeft(LAMBDA s, q : Visit(c, s, q),
                               [so EXCEPT !.visiting = @ \cup {name}],
                               Preceding(c, Definition(c, name)))
         IN  [below EXCEPT !.ordered = Append(@, name), !.visiting = @ \ {name}]

InstallOrder(c) ==
    FoldLeft(LAMBDA s, name : Visit(c, s, name),
             [ordered |-> <<>>, visiting |-> {}, looped |-> FALSE], c.enabled)

-----------------------------------------------------------------------------
(* The commands of a package.  A command is known by its name, which is    *)
(* the key its result is kept under.                                       *)

Command(do, of) == [do |-> do, of |-> of, namespace |-> "", role |-> ""]

Create(s) == [do |-> "create-secret", of |-> s.name, namespace |-> s.namespace, role |-> s.role]

When(condition, commands) == IF condition THEN commands ELSE <<>>

Where(s) == <<s.namespace, s.name>>

MailKey(p) == <<"mail", p.namespace>>

\* What installing a package adds to what the run has made already.
Makes(p) == {Where(s) : s \in ToSet(p.secrets)} \cup (IF p.mail THEN {MailKey(p)} ELSE {})

\* Fault: every package that sends mail brings its namespace's credentials.
SendsMailItself(p, made) == p.mail

\* Once for a namespace.
SendsMail(p, made) == p.mail /\ MailKey(p) \notin made

SignsIn(p) == p.client # ""

PackageCommands(p, made) ==
    LET own(do) == <<Command(do, p.name)>>
        new == SelectSeq(p.secrets, LAMBDA s : Where(s) \notin made)
        theirs == \E s \in ToSet(p.secrets) : s.namespace = p.namespace
        smtp(do) == When(SendsMail(p, made), <<Command(do, p.namespace)>>)
    IN  When(SignsIn(p), own("require-authentik"))
        \o When(p.makes # "", own("manifests-before"))
        \o When(p.chart /\ theirs, own("namespace"))
        \o [i \in DOMAIN new |-> Create(new[i])]
        \o When(SignsIn(p), own("authentik-blueprint"))
        \o smtp("apply-smtp")
        \o When(p.chart, own("helm-install"))
        \o When(p.applies, own("manifests-after"))
        \o own("record") \o own("verify-installed")
        \o When(p.secrets # <<>>, own("verify-secrets"))
        \o smtp("verify-smtp") \o smtp("verify-smtp-reachable")
        \o When(p.chart, own("helm-verify"))
        \o When(p.ready, own("ready") \o own("verify-ready"))
        \o When(p.rollout \/ p.gate, own("rollout") \o own("verify-rollout"))
        \o When(SignsIn(p), own("verify-authentik"))

\* Nothing is required of the cluster by a package that needs nothing more.
RequirementCommand(p, others) == When(others # {}, <<Command("require-cluster", p.name)>>)

\* The packages in turn, with what has been made passed along; kept to some
\* of them, what one needs and isn't installed alongside it is asked for.
HelmCommands(c, plan, only) ==
    LET Add(sofar, name) ==
            LET p == Definition(c, name)
            IN  [made |-> sofar.made \cup Makes(p),
                 commands |-> sofar.commands
                              \o (IF only = {} THEN <<>>
                                  ELSE RequirementCommand(p, ToSet(p.requires) \ only))
                              \o PackageCommands(p, sofar.made)]
        kept == IF only = {} THEN plan ELSE SelectSeq(plan, LAMBDA name : name \in only)
    IN  FoldLeft(Add, [made |-> {}, commands |-> <<>>], kept).commands

\* One package and nothing else: what it needs is asked for first.
SinglePackage(c, p) ==
    RequirementCommand(p, ToSet(p.requires)) \o PackageCommands(p, {})

\* A few packages in turn; a command two of them share runs once.
PackagesBundle(c, names) ==
    FoldLeft(LAMBDA commands, command :
                 IF Contains(commands, command) THEN commands ELSE Append(commands, command),
             <<>>,
             FlattenSeq([i \in DOMAIN names |-> SinglePackage(c, Definition(c, names[i]))]))

\* A check-up runs the commands that only ask and don't wait.
Asks(command) ==
    command.do \in {"require-authentik", "verify-installed", "verify-secrets", "verify-smtp",
                    "verify-smtp-reachable", "helm-verify", "verify-ready", "verify-rollout",
                    "verify-authentik"}

-----------------------------------------------------------------------------
(* A run                                                                   *)

\*   plan       the packages it is about
\*   only       those it was told to keep to, {} for all of them
\*   steps      the commands left
\*   errors     the commands that failed
\*   touched    whether it changed anything
\*   disturbed  whether somebody changed something meanwhile, or a
\*              connection was lost
Idle == [what |-> "none", plan |-> <<>>, only |-> {}, steps |-> <<>>, errors |-> {},
         touched |-> FALSE, disturbed |-> FALSE]

Init ==
    /\ config \in Configs
    /\ mailing = {Office}
    /\ release = [name \in Everything |-> "absent"]
    /\ namespaces = {} /\ secret = <<>> /\ client = <<>> /\ mail = {} /\ record = {}
    /\ run = Idle /\ troubles = 0

Begins(what, plan, only, steps) ==
    run' = [Idle EXCEPT !.what = what, !.plan = plan, !.only = only, !.steps = steps]

\* The packages of a configuration whose packages depend on each other in a
\* loop can't be listed, and nothing is begun.
Begin ==
    /\ run = Idle
    /\ UNCHANGED <<cluster, people, troubles>>
    /\ \/ LET order == InstallOrder(config)
              plan  == order.ordered
          IN  /\ ~order.looped
              /\ \/ Begins("helm-charts", plan, {}, HelmCommands(config, plan, {}))
                 \/ Begins("check-up", plan, {}, SelectSeq(HelmCommands(config, plan, {}), Asks))
                 \/ config \in Troubled /\
                       \E only \in SUBSET ToSet(plan) :
                          /\ Cardinality(only) \in 1..MaxOnly
                          /\ Begins("helm-charts-only", plan, only,
                                    HelmCommands(config, plan, only))
                 \/ config \in Troubled /\
                       Begins("package-records", plan, {},
                              [i \in DOMAIN plan |-> Command("record", plan[i])])
       \/ config \in Troubled /\
             \E names \in Bundles :
                Begins("bundle", names, {}, PackagesBundle(config, names))

At(do) == run.steps # <<>> /\ Head(run.steps).do = do

Now == Head(run.steps)
This == Definition(config, Now.of)

Passes ==
    /\ run' = [run EXCEPT !.steps = Tail(@), !.touched = @ \/ cluster' # cluster]
    /\ UNCHANGED troubles

\* A check-up carries on past what fails; an install stops.
Stops(disturbed) ==
    run' = [run EXCEPT !.errors = @ \cup {Now},
                       !.steps = IF run.what = "check-up" THEN Tail(@) ELSE <<>>,
                       !.touched = @ \/ cluster' # cluster,
                       !.disturbed = @ \/ disturbed]

Fails == Stops(FALSE) /\ UNCHANGED troubles

Trouble == config \in Troubled /\ troubles < MaxTroubles /\ troubles' = troubles + 1

\* The connection goes, before or after the command did what it does.
Disconnects == Trouble /\ Stops(TRUE)

Finishes == Passes \/ Disconnects

Disconnected == run.steps # <<>> /\ UNCHANGED <<cluster, people>> /\ Disconnects

Says(yes) == UNCHANGED <<cluster, people>> /\ (IF yes THEN Passes ELSE Fails)

\* Asked of something that is only partly there, either answer.
MaySay(surely, possibly) ==
    /\ UNCHANGED <<cluster, people>>
    /\ \/ possibly /\ Passes
       \/ ~surely /\ Fails

-----------------------------------------------------------------------------
(* What is on the cluster                                                  *)

Present(name) == release[name] # "absent"
Whole(name) == release[name] = "whole"

\* The kinds a package's manifests are of come with what it requires.
Grounded(p) == \A q \in ToSet(p.requires) : Whole(q)
Possible(p) == \A q \in ToSet(p.requires) : Present(q)

HasSecrets(p) == \A s \in ToSet(p.secrets) : Where(s) \in DOMAIN secret

Registered(p) == SignsIn(p) => p.name \in DOMAIN client

\* Its pods start: they read its credentials, and a gate its application.
Starts(p) == HasSecrets(p) /\ Registered(p)

MailIsRight(namespace) == (namespace \in mail) = (namespace \in mailing)

-----------------------------------------------------------------------------
(* The commands that ask before anything is changed                        *)

RequireCluster ==
    /\ At("require-cluster")
    /\ Says(\A q \in ToSet(This.requires) \ run.only : Present(q))

RequireAuthentik ==
    At("require-authentik") /\ MaySay(Whole("authentik"), Present("authentik"))

-----------------------------------------------------------------------------
(* The commands that install                                               *)

ManifestsBefore ==
    /\ At("manifests-before")
    /\ UNCHANGED <<release, secret, client, mail, record, people>>
    /\ \/ namespaces' = namespaces \cup {This.makes} /\ Finishes
       \/ ~Grounded(This) /\ namespaces' = namespaces \cup {This.makes} /\ Fails

EnsureNamespace ==
    /\ At("namespace")
    /\ namespaces' = namespaces \cup {This.namespace}
    /\ UNCHANGED <<release, secret, client, mail, record, people>>
    /\ Finishes

\* Made once, and never again while it is there.
Made(where) == IF where \in DOMAIN secret THEN secret ELSE where :> troubles @@ secret

\* A connection string is built over again from the role's credentials.
Built(where, role) == where :> secret[role] @@ secret

CreateSecret ==
    LET where == <<Now.namespace, Now.of>>
        role  == <<Now.namespace, Now.role>>
        builds == Now.role # ""
        can == Now.namespace \in namespaces /\ (builds => role \in DOMAIN secret)
    IN  /\ At("create-secret")
        /\ UNCHANGED <<release, namespaces, client, mail, record, people>>
        /\ \/ can /\ secret' = (IF builds THEN Built(where, role) ELSE Made(where)) /\ Finishes
           \/ ~can /\ UNCHANGED secret /\ Fails

\* Authentik is given the client's credentials, whatever it had.
Register(p) == p.name :> secret[<<p.namespace, p.client>>] @@ client

AuthentikBlueprint ==
    /\ At("authentik-blueprint")
    /\ UNCHANGED <<release, namespaces, secret, mail, record, people>>
    /\ \/ /\ HasSecrets(This) /\ Present("authentik")
          /\ client' = Register(This)
          /\ Finishes
       \/ ~(HasSecrets(This) /\ Whole("authentik")) /\ UNCHANGED client /\ Fails

\* The credentials, or their removal from a namespace whose mail was taken
\* away.
ApplySmtp ==
    LET namespace == Now.of
    IN  /\ At("apply-smtp")
        /\ UNCHANGED <<release, namespaces, secret, client, record, people>>
        /\ \/ namespace \in mailing \cap namespaces /\ mail' = mail \cup {namespace} /\ Finishes
           \/ namespace \in mailing \ namespaces /\ UNCHANGED mail /\ Fails
           \/ namespace \notin mailing /\ mail' = mail \ {namespace} /\ Finishes

\* The chart's repository and values, and the release, waited for: one whose
\* pods don't come up is a release all the same.
HelmInstall ==
    LET p == This
        installed == IF p.applies /\ ~Whole(p.name) THEN "part" ELSE "whole"
        tried == IF Present(p.name) THEN release[p.name] ELSE "part"
    IN  /\ At("helm-install")
        /\ namespaces' = namespaces \cup {p.namespace}
        /\ UNCHANGED <<secret, client, mail, record, people>>
        /\ \/ /\ Possible(p) /\ Starts(p)
              /\ release' = [release EXCEPT ![p.name] = installed]
              /\ Finishes
           \/ /\ ~(Grounded(p) /\ Starts(p))
              /\ release' = [release EXCEPT ![p.name] = tried]
              /\ Fails
           \/ release' = [release EXCEPT ![p.name] = tried] /\ Disconnects

\* Partly applied, a package may be there or not.
ManifestsAfter ==
    LET p == This
    IN  /\ At("manifests-after")
        /\ namespaces' = namespaces \cup {p.namespace}
        /\ UNCHANGED <<secret, client, mail, record, people>>
        /\ \/ Possible(p) /\ release' = [release EXCEPT ![p.name] = "whole"] /\ Finishes
           \/ /\ release' \in {release, [release EXCEPT ![p.name] = IF Whole(p.name) THEN @ ELSE "part"]}
              /\ \/ ~Grounded(p) /\ Fails
                 \/ Disconnects

RecordPackage ==
    /\ At("record")
    /\ record' = record \cup {Now.of}
    /\ namespaces' = namespaces \cup {Cluster}
    /\ UNCHANGED <<release, secret, client, mail, people>>
    /\ Finishes

\* Waiting for what an operator makes, and for the workloads.
Settle ==
    \/ At("ready") /\ MaySay(Whole(Now.of), Present(Now.of))
    \/ At("rollout") /\ MaySay(Whole(Now.of) /\ Starts(This), Present(Now.of) /\ Starts(This))

-----------------------------------------------------------------------------
(* The commands that check                                                 *)

VerifyInstalled == At("verify-installed") /\ Says(Present(Now.of))

\* Fault: every check of a package is made.
NeverSkipped(name) == FALSE

\* The package's own checks are skipped once it isn't there.
Skipped(name) == Command("verify-installed", name) \in run.errors

Unless(skipped, check) == (skipped /\ Says(TRUE)) \/ (~skipped /\ check)

VerifySecrets ==
    At("verify-secrets") /\ Unless(Skipped(Now.of), Says(HasSecrets(This)))

\* The credentials a namespace was given, and none that it wasn't.
MailChecked(namespace) == MailIsRight(namespace)

VerifySmtp == At("verify-smtp") /\ Says(MailChecked(Now.of))

VerifySmtpReachable == At("verify-smtp-reachable") /\ Says(TRUE)

HelmVerify ==
    At("helm-verify") /\ Unless(Skipped(Now.of), MaySay(Whole(Now.of), Present(Now.of)))

VerifyReady ==
    At("verify-ready") /\ Unless(Skipped(Now.of), MaySay(Whole(Now.of), Present(Now.of)))

VerifyRollout ==
    /\ At("verify-rollout")
    /\ Unless(Skipped(Now.of), MaySay(Whole(Now.of) /\ Starts(This), Present(Now.of)))

VerifyAuthentik ==
    /\ At("verify-authentik")
    /\ Unless(Skipped(Now.of),
              MaySay(Registered(This) /\ Whole("authentik"),
                     Registered(This) /\ Present("authentik")))

Ends ==
    /\ run # Idle /\ run.steps = <<>>
    /\ run' = Idle
    /\ UNCHANGED <<cluster, people, troubles>>

-----------------------------------------------------------------------------
(* What people do                                                          *)

Changes ==
    /\ Trouble
    /\ run' = IF run = Idle THEN Idle ELSE [run EXCEPT !.disturbed = TRUE]

\* The configuration is read when a run begins.
EditConfig ==
    /\ run = Idle
    /\ Changes
    /\ \/ config' \in Troubled \ {config} /\ UNCHANGED mailing
       \/ mailing' = {Office} \ mailing /\ UNCHANGED config
    /\ UNCHANGED cluster

Uninstall ==
    /\ Changes
    /\ \E name \in Removable :
          Present(name) /\ release' = [release EXCEPT ![name] = "absent"]
    /\ UNCHANGED <<namespaces, secret, client, mail, record, config, mailing>>

DeleteSecret ==
    /\ Changes
    /\ \E where \in Lost \cap DOMAIN secret :
          secret' = [s \in DOMAIN secret \ {where} |-> secret[s]]
    /\ UNCHANGED <<release, namespaces, client, mail, record, config, mailing>>

ChangePassword ==
    /\ Changes
    /\ \E where \in Roles \cap DOMAIN secret : secret' = [secret EXCEPT ![where] = troubles']
    /\ UNCHANGED <<release, namespaces, client, mail, record, config, mailing>>

-----------------------------------------------------------------------------
Step ==
    \/ RequireCluster \/ RequireAuthentik
    \/ ManifestsBefore \/ EnsureNamespace \/ CreateSecret \/ AuthentikBlueprint \/ ApplySmtp
    \/ HelmInstall \/ ManifestsAfter \/ RecordPackage \/ Settle
    \/ VerifyInstalled \/ VerifySecrets \/ VerifySmtp \/ VerifySmtpReachable \/ HelmVerify
    \/ VerifyReady \/ VerifyRollout \/ VerifyAuthentik
    \/ Disconnected \/ Ends

People == EditConfig \/ Uninstall \/ DeleteSecret \/ ChangePassword

Next == Begin \/ Step \/ People

Spec == Init /\ [][Next]_vars

-----------------------------------------------------------------------------
Planned == {Definition(config, name) : name \in ToSet(run.plan)}

Ended(whats) == run.what \in whats /\ Ends /\ ~run.disturbed

\* What the plan lists is listed once, and what is kept is kept somewhere.
TypeOK ==
    /\ mailing \subseteq {Office, Cluster}
    /\ release \in [Everything -> {"absent", "part", "whole"}]
    /\ \A where \in DOMAIN secret : where[1] \in namespaces
    /\ mail \subseteq namespaces
    /\ DOMAIN client \subseteq Names /\ record \subseteq Everything
    /\ IsInjective(run.plan)
    /\ troubles \in 0..MaxTroubles

(* No two commands of a run have one name: a command's result is kept      *)
(* under its name, and the second would quietly replace the first          *)
(* (HelmCommands).                                                         *)
ResultsKept == Cardinality(ToSet(run.steps)) = Len(run.steps)

(* Nothing is installed on a cluster that lacks what it requires: the      *)
(* order of a whole install sees to it, and a run that keeps to some       *)
(* packages asks first.                                                    *)
OnItsGround ==
    [][~run.disturbed /\ Step =>
          \A name \in Everything :
             ~Present(name) /\ Present(name)' =>
                \A q \in ToSet(Definition(config, name).requires) : Present(q)]_vars

(* An application that comes up is one people can sign in to: Authentik    *)
(* has its client, with the credentials the application reads, before it   *)
(* starts.                                                                 *)
SignInWorks ==
    [][~run.disturbed /\ Step =>
          \A name \in Names :
             LET p == Known[name]
             IN  ~Whole(name) /\ Whole(name)' /\ p.client # "" =>
                    /\ name \in DOMAIN client
                    /\ client[name] = secret[<<p.namespace, p.client>>]]_vars

(* No run replaces a credential it made up, whichever packages ask for it  *)
(* and however often: half the cluster is using it.                        *)
CredentialsKept ==
    [][Step => \A where \in DOMAIN secret :
          /\ where \in DOMAIN secret'
          /\ secret'[where] # secret[where] => Now.role # ""]_vars

(* A package's own bundle that is refused for what the cluster lacks has   *)
(* changed nothing on it.                                                  *)
RefusedIsUntouched ==
    run.what = "bundle" /\ Cardinality(ToSet(run.plan)) = 1
        /\ (\E e \in run.errors : e.do \in {"require-cluster", "require-authentik"})
        => ~run.touched

(* Installing what the configuration enables succeeds, from whatever       *)
(* earlier runs and people have left, as long as nothing disturbs it and   *)
(* the Authentik its packages sign in through is there or enabled.         *)
InstallSucceeds ==
    [][Ended({"helm-charts"}) /\
          ((\E p \in Planned : SignsIn(p)) =>
              IF "authentik" \in ToSet(run.plan) THEN "authentik" \in ToSet(config.enabled)
              ELSE Whole("authentik"))
          => run.errors = {}]_vars

(* What an install that succeeds leaves: every package whole and on        *)
(* record, its credentials there, a connection string that is its role's,  *)
(* clients that match, and mail where the configuration gives it and       *)
(* nowhere it took it away.                                                *)
InstallLeaves ==
    [][Ended({"helm-charts"}) /\ run.errors = {} =>
          \A p \in Planned :
             /\ Whole(p.name) /\ p.name \in record /\ HasSecrets(p)
             /\ \A s \in ToSet(p.secrets) :
                   s.role # "" => secret[Where(s)] = secret[<<s.namespace, s.role>>]
             /\ SignsIn(p) => /\ p.name \in DOMAIN client
                              /\ client[p.name] = secret[<<p.namespace, p.client>>]
             /\ p.mail => MailIsRight(p.namespace)]_vars

(* A package that isn't installed is said not to be, once, and none of its *)
(* other checks is reported as failed for it.                              *)
MissingOnce ==
    [][Ended({"check-up"}) =>
          \A p \in Planned : ~Present(p.name) =>
             {e \in run.errors : e.of = p.name} \ {Command("require-authentik", p.name)}
                = {Command("verify-installed", p.name)}]_vars

Right(p) ==
    /\ Whole(p.name) /\ Starts(p)
    /\ SignsIn(p) => Whole("authentik")
    /\ p.mail => MailIsRight(p.namespace)

Wrong(p) ==
    \/ ~Present(p.name) \/ ~Starts(p)
    \/ SignsIn(p) /\ ~Present("authentik")
    \/ p.mail /\ ~MailIsRight(p.namespace)

(* A check-up finds nothing wrong with what is whole, and something with   *)
(* a cluster that lacks a package, a credential, a client or its mail, or  *)
(* that kept mail it was to give up.                                       *)
CheckupTells ==
    [][Ended({"check-up"}) =>
          /\ (\A p \in Planned : Right(p)) => run.errors = {}
          /\ (\E p \in Planned : Wrong(p)) => run.errors # {}]_vars

(* Packages that a package comes after go first when they're being         *)
(* installed too (PackageDefinition's "after").  Doesn't hold of one that  *)
(* is being installed because another package requires it, and no run      *)
(* checks it.                                                              *)
AfterIsKept ==
    [][Begin /\ run'.what = "helm-charts" =>
          \A i, j \in DOMAIN run'.plan :
             LET p == Definition(config, run'.plan[i])
             IN  run'.plan[j] \in ToSet(p.after) => j < i]_vars

(* No two commands of a run share a name, and so a result, and a package   *)
(* that is refused for what the cluster lacks has changed nothing.         *)
PackagesInv ==
    /\ TypeOK
    /\ ResultsKept
    /\ RefusedIsUntouched

(* A package goes in over what it requires, and comes up after Authentik   *)
(* knows its client by the credentials it reads.                           *)
InGoodOrder ==
    /\ OnItsGround
    /\ SignInWorks

(* An install of what is enabled succeeds over whatever was there, leaves  *)
(* every package whole with what it needs, and replaces no credential      *)
(* somebody uses.                                                          *)
InstallKeeps ==
    /\ InstallSucceeds
    /\ InstallLeaves
    /\ CredentialsKept

(* An install is done in an order that works, and leaves what it should.   *)
InstallIsRight ==
    /\ InGoodOrder
    /\ InstallKeeps

(* A check-up tells of a missing package once, of all that is broken, and  *)
(* of nothing that is whole.                                               *)
CheckupIsRight ==
    /\ MissingOnce
    /\ CheckupTells
=============================================================================
