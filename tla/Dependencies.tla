---------------------------- MODULE Dependencies ----------------------------
(***************************************************************************)
(* What Cirrus makes for an application to depend on (postgres.rs,         *)
(* bucket.rs, rabbitmq.rs, the webhook's part of source.rs) and takes away *)
(* with it (cleanup.rs), over the life of an application: it is made,      *)
(* edited, deleted and made again under its name.                          *)
(*                                                                         *)
(* What is in the application's namespace is owned by it and collected by  *)
(* Kubernetes some time after it has gone, when the next application of    *)
(* that name may already be there.  What is in RabbitMQ's namespace has    *)
(* the joined name of namespace and application, and goes in the           *)
(* finalizer.  Other operators turn both into databases, users and keys.   *)
(*                                                                         *)
(* Left out: the release and its rollout (WebApplication has them), the    *)
(* network, a Cirrus without a public address.  A pass reads its           *)
(* application when it begins and may end long after.                      *)
(***************************************************************************)
EXTENDS Naturals, Sequences

CONSTANTS
    App,         \* records of a namespace and a name, each a sequence of words
    Project,     \* projects on the forge
    NoProject,
    Asked,       \* what each application asks for, and from which project, when it is made
    MaxLives,    \* bound: how often one application is made
    MaxEdits,    \* bound: how many times a person does something
    MaxFaults    \* bound: how many passes fail or are cut short

Service == {"postgres", "bucket", "rabbitmq"}
Namespace == {a.namespace : a \in App}

ASSUME AppAssumption == \A a \in App : {a.namespace, a.name} \subseteq Seq(STRING)
ASSUME AskedAssumption ==
    Asked \in [App -> [asks : SUBSET Service, project : Project \union {NoProject}]]
ASSUME ProjectAssumption == NoProject \notin Project
ASSUME BoundAssumption == MaxLives \in Nat \ {0} /\ {MaxEdits, MaxFaults} \subseteq Nat

\* Words joined with a hyphen: which of them were the namespace's is lost
SharedName(a) == a.namespace \o a.name
SharedNames == {SharedName(a) : a \in App}

VARIABLES
    app,          \* the WebApplications
    blocked,      \* the services an application can't have, until a person sees to it
    pass,         \* the pass over each application
    secret,       \* the Secrets in its namespace, each with its owner
    cluster,      \* the namespaces that have a Postgres
    database,     \* the owner of its DatabaseRole and Database, and whether they are applied
    inPostgres,   \* the password its role has in Postgres, once there is a database
    bucket,       \* the owner of its S3 user, keys and bucket
    collected,    \* history: the lives during which an earlier life's keys were collected
    objects,      \* its Vhost, User and Permission, by their shared name
    users,        \* how many Users there have been of each name
    credentials,  \* those the topology operator wrote, by the User they are for
    hook,         \* the webhook on each project and the token it was given
    deployment,   \* what the Deployment loads, and its owner
    copies,       \* what the running copies loaded when they were started
    edits, faults

postgres == <<cluster, database, inPostgres>>
buckets == <<bucket, collected>>
rabbitmq == <<objects, users, credentials>>
run == <<deployment, copies>>
vars == <<app, blocked, pass, secret, postgres, buckets, rabbitmq, hook, run, edits, faults>>

Kind == {"password", "postgres", "rabbitmq", "s3", "token"}

Made(uid, value) == [owner |-> uid, value |-> value]
NoSecret == Made(0, 0)

NoDatabase == [owner |-> 0, applied |-> FALSE]
NoDeployment == [owner |-> 0, loads |-> {}]
NoCopies == [s \in {} |-> 0]

\* Owners, passwords and credentials are counted from one; 0 is none
Fresh(a) ==
    [life |-> 1, there |-> TRUE, deleting |-> FALSE, finalizer |-> FALSE,
     asks |-> Asked[a].asks, project |-> Asked[a].project, hook |-> NoProject]

Gone(a) == [Fresh(a) EXCEPT !.life = app[a].life, !.there = FALSE]

Idle(a) == [at |-> "idle", seen |-> Fresh(a), password |-> 0,
            missing |-> FALSE, hook |-> NoProject]

Init ==
    /\ app = [a \in App |-> Fresh(a)]
    /\ \E a \in App, s \in Service : blocked = {<<a, s>>}
    /\ pass = [a \in App |-> Idle(a)]
    /\ secret = [a \in App |-> [k \in Kind |-> NoSecret]]
    /\ cluster = {}
    /\ database = [a \in App |-> NoDatabase]
    /\ inPostgres = [a \in App |-> 0]
    /\ bucket = [a \in App |-> 0]
    /\ collected = [a \in App |-> {}]
    /\ objects = [n \in SharedNames |-> {}]
    /\ users = [n \in SharedNames |-> 0]
    /\ credentials = [n \in SharedNames |-> 0]
    /\ hook = [a \in App |-> [p \in Project |-> 0]]
    /\ deployment = [a \in App |-> NoDeployment]
    /\ copies = [a \in App |-> NoCopies]
    /\ edits = 0
    /\ faults = 0

Fault == faults < MaxFaults /\ faults' = faults + 1

-----------------------------------------------------------------------------
(* The person                                                              *)

Person(a, new) ==
    /\ edits < MaxEdits
    /\ edits' = edits + 1
    /\ app' = [app EXCEPT ![a] = new]
    /\ UNCHANGED <<blocked, pass, secret, postgres, buckets, rabbitmq, hook, run, faults>>

Edit(a) ==
    /\ app[a].there /\ ~app[a].deleting
    /\ \/ \E s \in app[a].asks : Person(a, [app[a] EXCEPT !.asks = @ \ {s}])
       \/ \E p \in (Project \union {NoProject}) \ {app[a].project} :
             Person(a, [app[a] EXCEPT !.project = p])

\* Kubernetes only marks what has a finalizer
Delete(a) ==
    /\ app[a].there /\ ~app[a].deleting
    /\ Person(a, IF app[a].finalizer THEN [app[a] EXCEPT !.deleting = TRUE]
                                     ELSE Gone(a))

MakeAgain(a) ==
    /\ ~app[a].there /\ app[a].life < MaxLives
    /\ Person(a, [Fresh(a) EXCEPT !.life = app[a].life + 1])

\* The service is installed, or the namespace given its label
Unblock ==
    /\ blocked # {}
    /\ blocked' = {}
    /\ UNCHANGED <<app, pass, secret, postgres, buckets, rabbitmq, hook, run, edits, faults>>

-----------------------------------------------------------------------------
(* The pass                                                                *)

\* Every pass is followed by another: Action::requeue, whatever it came to
Stop(a) == pass' = [pass EXCEPT ![a] = Idle(a)]

\* Postgres, the bucket and RabbitMQ, each if it is asked for; then the forge
FromRabbitMQ(asks) == IF "rabbitmq" \in asks THEN "rabbitmq" ELSE "hook"
FromBucket(asks) == IF "bucket" \in asks THEN "bucket" ELSE FromRabbitMQ(asks)
FirstStep(asks) == IF "postgres" \in asks THEN "postgres" ELSE FromBucket(asks)

After(at, asks) ==
    CASE at = "postgres" -> "role"
      [] at = "role"     -> FromBucket(asks)
      [] at = "bucket"   -> FromRabbitMQ(asks)
      [] at = "rabbitmq" -> "copy"
      [] at = "copy"     -> "hook"
      [] at = "hook"     -> "roll out"
      [] at = "roll out" -> "record"

Past(a, at) == [pass[a] EXCEPT !.at = After(at, pass[a].seen.asks)]

\* A MissingService or NotPermitted is a problem to report: the next
\* dependency is seen to all the same, and nothing is rolled out.
Skip(a, last) == pass' = [pass EXCEPT ![a] = [Past(a, last) EXCEPT !.missing = TRUE]]

Proceed(a, at, ready) ==
    pass' = [pass EXCEPT ![a] = [Past(a, at) EXCEPT !.missing = @ \/ ~ready]]

\* The finalizer is added in a pass of its own
Begin(a) ==
    /\ pass[a].at = "idle" /\ app[a].there
    /\ IF app[a].finalizer
       THEN /\ pass' = [pass EXCEPT ![a] =
                    [Idle(a) EXCEPT !.seen = app[a],
                                    !.at = IF app[a].deleting THEN "remove"
                                                              ELSE FirstStep(app[a].asks)]]
            /\ UNCHANGED app
       ELSE app' = [app EXCEPT ![a].finalizer = TRUE] /\ UNCHANGED pass
    /\ UNCHANGED <<blocked, secret, postgres, buckets, rabbitmq, hook, run, edits, faults>>

\* A namespace's Postgres is made once and the password once
EnsurePassword(a) ==
    /\ pass[a].at = "postgres"
    /\ IF <<a, "postgres">> \in blocked
       THEN Skip(a, "role") /\ UNCHANGED <<cluster, secret>>
       ELSE LET last == secret[a]["password"]
                password == IF last = NoSecret THEN Made(app[a].life, app[a].life) ELSE last
            IN  /\ cluster' = cluster \union {a.namespace}
                /\ secret' = [secret EXCEPT ![a]["password"] = password]
                /\ pass' = [pass EXCEPT ![a] = [Past(a, "postgres") EXCEPT !.password = password.value]]
    /\ UNCHANGED <<app, blocked, database, inPostgres, buckets, rabbitmq, hook, run, edits, faults>>

\* The role and the database, then the connection; what the operator says
\* of the database is read from the answer to applying it.
EnsureDatabase(a) ==
    /\ pass[a].at = "role"
    /\ database' = [database EXCEPT ![a].owner = app[a].life]
    /\ secret' = [secret EXCEPT ![a]["postgres"] = Made(app[a].life, pass[a].password)]
    /\ Proceed(a, "role", database[a].applied)
    /\ UNCHANGED <<app, blocked, cluster, inPostgres, buckets, rabbitmq, hook, run, edits, faults>>

\* Fault: nobody waits for SeaweedFS to make the keys
BucketAtOnce(a) ==
    /\ pass[a].at = "bucket"
    /\ IF <<a, "bucket">> \in blocked
       THEN Skip(a, "bucket") /\ UNCHANGED bucket
       ELSE /\ bucket' = [bucket EXCEPT ![a] = app[a].life]
            /\ Proceed(a, "bucket", TRUE)
    /\ UNCHANGED <<app, blocked, secret, postgres, collected, rabbitmq, hook, run, edits, faults>>

EnsureBucket(a) ==
    /\ pass[a].at = "bucket"
    /\ IF <<a, "bucket">> \in blocked
       THEN Skip(a, "bucket") /\ UNCHANGED bucket
       ELSE /\ bucket' = [bucket EXCEPT ![a] = app[a].life]
            /\ Proceed(a, "bucket", secret[a]["s3"] # NoSecret)
    /\ UNCHANGED <<app, blocked, secret, postgres, collected, rabbitmq, hook, run, edits, faults>>

EnsureUser(a) ==
    /\ pass[a].at = "rabbitmq"
    /\ IF <<a, "rabbitmq">> \in blocked
       THEN Skip(a, "copy") /\ UNCHANGED <<objects, users>>
       ELSE LET n == SharedName(a) IN
            /\ objects' = [objects EXCEPT ![n] = {"Vhost", "User", "Permission"}]
            /\ users' = [users EXCEPT ![n] = IF "User" \in objects[n] THEN @ ELSE @ + 1]
            /\ pass' = [pass EXCEPT ![a] = Past(a, "rabbitmq")]
    /\ UNCHANGED <<app, blocked, secret, postgres, buckets, credentials, hook, run, edits, faults>>

\* Fault: credentials are copied once
CopyOnce(a) ==
    /\ pass[a].at = "copy"
    /\ LET found == credentials[SharedName(a)] IN
       /\ secret' = [secret EXCEPT ![a]["rabbitmq"] =
                        IF found = 0 \/ @ # NoSecret THEN @ ELSE Made(app[a].life, found)]
       /\ Proceed(a, "copy", found # 0)
    /\ UNCHANGED <<app, blocked, postgres, buckets, rabbitmq, hook, run, edits, faults>>

CopyCredentials(a) ==
    /\ pass[a].at = "copy"
    /\ LET found == credentials[SharedName(a)] IN
       /\ secret' = [secret EXCEPT ![a]["rabbitmq"] =
                        IF found = 0 THEN @ ELSE Made(app[a].life, found)]
       /\ Proceed(a, "copy", found # 0)
    /\ UNCHANGED <<app, blocked, postgres, buckets, rabbitmq, hook, run, edits, faults>>

\* The hook's token is made once.  A hook known by its address is kept, and
\* what goes wrong with the forge is reported and holds nothing up.
EnsureHook(a) ==
    /\ pass[a].at = "hook"
    /\ LET seen == pass[a].seen
           last == secret[a]["token"]
           token == IF last = NoSecret THEN Made(app[a].life, app[a].life) ELSE last
           known == [Past(a, "hook") EXCEPT !.hook = seen.hook]
       IN  \/ /\ seen.project = NoProject \/ seen.hook # NoProject
              /\ pass' = [pass EXCEPT ![a] = known]
              /\ UNCHANGED <<secret, hook, faults>>
           \/ /\ seen.project # NoProject /\ seen.hook = NoProject
              /\ secret' = [secret EXCEPT ![a]["token"] = token]
              /\ hook' = [hook EXCEPT ![a][seen.project] = token.value]
              /\ pass' = [pass EXCEPT ![a] = [known EXCEPT !.hook = seen.project]]
              /\ UNCHANGED faults
           \/ /\ seen.project # NoProject /\ Fault
              /\ pass' = [pass EXCEPT ![a] = Past(a, "hook")]
              /\ UNCHANGED <<secret, hook>>
    /\ UNCHANGED <<app, blocked, postgres, buckets, rabbitmq, run, edits>>

RollOut(a) ==
    /\ pass[a].at = "roll out"
    /\ deployment' = [deployment EXCEPT ![a] =
                         IF pass[a].missing THEN @
                         ELSE [owner |-> app[a].life, loads |-> pass[a].seen.asks]]
    /\ pass' = [pass EXCEPT ![a] = Past(a, "roll out")]
    /\ UNCHANGED <<app, blocked, secret, postgres, buckets, rabbitmq, hook, copies, edits, faults>>

\* A merge patch: a hook that isn't known now is not taken out of the status
Record(a) ==
    /\ pass[a].at = "record"
    /\ app' = [app EXCEPT ![a].hook = IF pass[a].hook = NoProject THEN @ ELSE pass[a].hook]
    /\ Stop(a)
    /\ UNCHANGED <<blocked, secret, postgres, buckets, rabbitmq, hook, run, edits, faults>>

\* Any other error, or the operator restarted: the pass ends where it is
PassFails(a) ==
    /\ pass[a].at # "idle" /\ Fault
    /\ Stop(a)
    /\ UNCHANGED <<app, blocked, secret, postgres, buckets, rabbitmq, hook, run, edits>>

-----------------------------------------------------------------------------
(* The finalizer                                                           *)

Removed == <<"Permission", "User", "Vhost">>

\* Fault: only what the spec asks for is removed
RemoveAsked(a) ==
    /\ pass[a].at = "remove"
    /\ objects' = [objects EXCEPT ![SharedName(a)] =
                      IF "rabbitmq" \in pass[a].seen.asks THEN {} ELSE @]
    /\ pass' = [pass EXCEPT ![a].at = "unhook"]
    /\ UNCHANGED <<app, blocked, secret, postgres, buckets, users, credentials, hook, run, edits, faults>>

\* One after the other, whatever the spec says; one that can't be deleted
\* ends the pass.
RemoveShared(a) ==
    /\ pass[a].at = "remove"
    /\ \E gone \in 0..Len(Removed) :
          /\ objects' = [objects EXCEPT ![SharedName(a)] = @ \ {Removed[i] : i \in 1..gone}]
          /\ IF gone = Len(Removed)
             THEN pass' = [pass EXCEPT ![a].at = "unhook"] /\ UNCHANGED faults
             ELSE Fault /\ Stop(a)
    /\ UNCHANGED <<app, blocked, secret, postgres, buckets, users, credentials, hook, run, edits>>

\* By its number, on the project the spec names now: there is no such hook
\* on another project, which counts as removed.  A failure is logged and left.
RemoveHook(a) ==
    /\ pass[a].at = "unhook"
    /\ pass' = [pass EXCEPT ![a].at = "let go"]
    /\ LET seen == pass[a].seen IN
       \/ /\ seen.hook # NoProject /\ seen.hook = seen.project
          /\ hook' = [hook EXCEPT ![a][seen.hook] = 0]
          /\ UNCHANGED faults
       \/ /\ seen.hook = NoProject \/ seen.hook # seen.project
          /\ UNCHANGED <<hook, faults>>
       \/ /\ seen.hook # NoProject /\ seen.project # NoProject
          /\ Fault /\ UNCHANGED hook
    /\ UNCHANGED <<app, blocked, secret, postgres, buckets, rabbitmq, run, edits>>

LetGo(a) ==
    /\ pass[a].at = "let go"
    /\ app' = [app EXCEPT ![a] = Gone(a)]
    /\ Stop(a)
    /\ UNCHANGED <<blocked, secret, postgres, buckets, rabbitmq, hook, run, edits, faults>>

Work(a) ==
    \/ Begin(a) \/ EnsurePassword(a) \/ EnsureDatabase(a) \/ EnsureBucket(a)
    \/ EnsureUser(a) \/ CopyCredentials(a) \/ EnsureHook(a) \/ RollOut(a) \/ Record(a)
    \/ RemoveShared(a) \/ RemoveHook(a) \/ LetGo(a)

-----------------------------------------------------------------------------
(* Kubernetes and the other operators                                      *)

Owned(a, uid) == uid = 0 \/ (app[a].there /\ app[a].life = uid)

\* What a past application of this name owned goes, one at a time
Collect(a) ==
    /\ \/ \E k \in Kind :
             /\ ~Owned(a, secret[a][k].owner)
             /\ secret' = [secret EXCEPT ![a][k] = NoSecret]
             /\ collected' = [collected EXCEPT ![a] =
                     IF k = "s3" /\ app[a].there THEN @ \union {app[a].life} ELSE @]
             /\ UNCHANGED <<database, bucket, run>>
       \/ /\ ~Owned(a, database[a].owner)
          /\ database' = [database EXCEPT ![a] = NoDatabase]
          /\ UNCHANGED <<secret, buckets, run>>
       \/ /\ ~Owned(a, bucket[a]) /\ bucket' = [bucket EXCEPT ![a] = 0]
          /\ UNCHANGED <<secret, database, collected, run>>
       \/ /\ ~Owned(a, deployment[a].owner)
          /\ deployment' = [deployment EXCEPT ![a] = NoDeployment]
          /\ copies' = [copies EXCEPT ![a] = NoCopies]
          /\ UNCHANGED <<secret, database, buckets>>
    /\ UNCHANGED <<app, blocked, pass, cluster, inPostgres, rabbitmq, hook, edits, faults>>

\* CloudNativePG gives the role the password of its Secret, which is labelled
\* for it to follow (RELOAD_LABEL)
Postgres(a) ==
    /\ database[a] # NoDatabase /\ a.namespace \in cluster
    /\ secret[a]["password"] # NoSecret
    /\ database' = [database EXCEPT ![a].applied = TRUE]
    /\ inPostgres' = [inPostgres EXCEPT ![a] = secret[a]["password"].value]
    /\ UNCHANGED <<app, blocked, pass, secret, cluster, buckets, rabbitmq, hook, run, edits, faults>>

SeaweedFS(a) ==
    /\ bucket[a] # 0 /\ secret[a]["s3"] = NoSecret
    /\ secret' = [secret EXCEPT ![a]["s3"] = Made(bucket[a], 1)]
    /\ UNCHANGED <<app, blocked, pass, postgres, buckets, rabbitmq, hook, run, edits, faults>>

RabbitMQ(n) ==
    /\ credentials[n] # (IF "User" \in objects[n] THEN users[n] ELSE 0)
    /\ credentials' = [credentials EXCEPT ![n] = IF "User" \in objects[n] THEN users[n] ELSE 0]
    /\ UNCHANGED <<app, blocked, pass, secret, postgres, buckets, objects, users, hook, run, edits, faults>>

Key(s) == CASE s = "postgres" -> "postgres" [] s = "rabbitmq" -> "rabbitmq" [] s = "bucket" -> "s3"

\* A copy waits for the Secrets it loads and keeps what it loaded.  Only
\* another template has copies started anew, or their being lost.
Start(a) ==
    /\ deployment[a] # NoDeployment /\ DOMAIN copies[a] # deployment[a].loads
    /\ \A s \in deployment[a].loads : secret[a][Key(s)] # NoSecret
    /\ copies' = [copies EXCEPT ![a] = [s \in deployment[a].loads |-> secret[a][Key(s)].value]]
    /\ UNCHANGED <<app, blocked, pass, secret, postgres, buckets, rabbitmq, hook, deployment, edits, faults>>

World == \/ Unblock
         \/ \E a \in App : Collect(a) \/ Postgres(a) \/ SeaweedFS(a) \/ Start(a)
         \/ \E n \in SharedNames : RabbitMQ(n)

Next ==
    \/ \E a \in App : Edit(a) \/ Delete(a) \/ MakeAgain(a) \/ Work(a) \/ PassFails(a)
    \/ World

Spec == Init /\ [][Next]_vars

\* Cirrus looks at every application again and again, and the others see to
\* what they are asked for.  A person needn't do anything but unblock.
Fairness ==
    /\ \A a \in App : WF_vars(Work(a))
    /\ WF_vars(Unblock)
    /\ \A a \in App : WF_vars(Collect(a)) /\ WF_vars(Postgres(a)) /\ WF_vars(SeaweedFS(a))
    /\ \A n \in SharedNames : WF_vars(RabbitMQ(n))

FairSpec == Spec /\ Fairness

-----------------------------------------------------------------------------
Life == 0..MaxLives

AppType ==
    [life : Life, there : BOOLEAN, deleting : BOOLEAN, finalizer : BOOLEAN,
     asks : SUBSET Service, project : Project \union {NoProject},
     hook : Project \union {NoProject}]

Step == {"idle", "postgres", "role", "bucket", "rabbitmq", "copy", "hook", "roll out",
         "record", "remove", "unhook", "let go"}

TypeOK ==
    /\ app \in [App -> AppType]
    /\ blocked \subseteq App \X Service
    /\ pass \in [App -> [at : Step, seen : AppType, password : Nat, missing : BOOLEAN,
                          hook : Project \union {NoProject}]]
    /\ secret \in [App -> [Kind -> [owner : Life, value : Nat]]]
    /\ cluster \subseteq Namespace
    /\ database \in [App -> [owner : Life, applied : BOOLEAN]]
    /\ inPostgres \in [App -> Nat]
    /\ bucket \in [App -> Life]
    /\ collected \in [App -> SUBSET Life]
    /\ objects \in [SharedNames -> SUBSET {"Vhost", "User", "Permission"}]
    /\ users \in [SharedNames -> Nat]
    /\ credentials \in [SharedNames -> Nat]
    /\ hook \in [App -> [Project -> Nat]]
    /\ deployment \in [App -> [owner : Life, loads : SUBSET Service]]
    /\ \A a \in App : copies[a] \in [DOMAIN copies[a] -> Nat]
    /\ edits \in Nat /\ faults \in Nat

Stays(a) == app[a].there /\ ~app[a].deleting

(* cleanup.rs removes what is in RabbitMQ's namespace "before the          *)
(* finalizer lets the WebApplication go", also after passes that failed    *)
(* half way and blocks taken out of the spec: nothing is left of an        *)
(* application that has gone.                                              *)
NothingLeft ==
    \A a \in App :
        (\A b \in App : SharedName(b) = SharedName(a) => ~app[b].there)
            => objects[SharedName(a)] = {}

(* An application that stays keeps its vhost and its user, whichever other *)
(* is deleted meanwhile, one of its own name in another namespace included.*)
(* Doesn't hold, and no run checks it (README, Observed on the way).       *)
KeepsItsOwn ==
    [][\A a \in App : Stays(a) => objects[SharedName(a)] \subseteq objects'[SharedName(a)]]_vars

\* What ensure waits for, each for the application that is there now: the
\* operator's word that its database is applied, and the Secrets it loads.
Given(a, s) ==
    LET life == app[a].life IN
    /\ s = "postgres" => /\ database[a] = [owner |-> life, applied |-> TRUE]
                         /\ secret[a]["postgres"].owner = life
    /\ s = "bucket"   => /\ bucket[a] = life
                         /\ secret[a]["s3"] # NoSecret \/ life \in collected[a]
    /\ s = "rabbitmq" => secret[a]["rabbitmq"].owner = life

(* "Until every one of them is ready there's nothing to roll out": what    *)
(* the Deployment of an application loads is no service that is kept from  *)
(* it, its database is said to be applied, its connection and its copied   *)
(* credentials are there and its own, not the last application's of that   *)
(* name, also when a block was taken out and a pass failed in between.     *)
(* There are keys to its bucket, unless the ones that were there were an   *)
(* earlier application's: those may be collected in the middle of the pass *)
(* that found them (README, Observed on the way).  That they open anything *)
(* is not said here, but in ConnectsInTheEnd.                              *)
DeployedAfter ==
    \A a \in App : app[a].there /\ deployment[a].owner = app[a].life =>
        \A s \in deployment[a].loads : <<a, s>> \notin blocked /\ Given(a, s)

(* In the end an application that stays is rolled out with what it asks    *)
(* for, and the Secrets it loads say what Postgres and RabbitMQ know: also *)
(* when it found those of a past application of its name that were then    *)
(* collected.                                                              *)
Connects(a) ==
    /\ deployment[a] = [owner |-> app[a].life, loads |-> app[a].asks]
    /\ "postgres" \in app[a].asks => secret[a]["postgres"].value = inPostgres[a]
    /\ "rabbitmq" \in app[a].asks =>
          /\ objects[SharedName(a)] = {"Vhost", "User", "Permission"}
          /\ secret[a]["rabbitmq"].value = users[SharedName(a)]

ConnectsInTheEnd == \A a \in App : <>[](Stays(a) => Connects(a))

(* Nothing holds a deletion up, a webhook that can't be removed least.     *)
LetsGo == \A a \in App : app[a].deleting ~> ~app[a].there \/ ~app[a].deleting

(* postgres.rs: "The password is made once and kept: changing it would     *)
(* mean every running copy losing its connection at once."                 *)
(* Doesn't hold, and no run checks it (README, Observed on the way).       *)
PasswordIsKept ==
    [][\A a \in App :
          Stays(a) /\ "postgres" \in DOMAIN copies[a] /\ deployment[a].owner = app[a].life
          /\ copies[a]["postgres"] = inPostgres[a]
              => inPostgres'[a] = inPostgres[a]]_vars

(* cleanup.rs: the webhook on the GitLab project is one of what is removed *)
(* "before the finalizer lets the WebApplication go".                      *)
(* Doesn't hold, and no run checks it (README, Observed on the way).       *)
HooksGo == \A a \in App : ~app[a].there => \A p \in Project : hook[a][p] = 0

(* source.rs: "Each webhook is registered with a token of its own, kept in *)
(* <app>-cirrus-webhook": in the end the token a recorded hook sends is    *)
(* the one that is kept.                                                   *)
(* Doesn't hold, and no run checks it (README, Observed on the way).       *)
HookIsHeard ==
    \A a \in App : <>[](Stays(a) /\ app[a].hook # NoProject
                          => hook[a][app[a].hook] = secret[a]["token"].value)

(* Nothing is left in RabbitMQ of an application that has gone, and what   *)
(* one that is there loads was ready for it when it was rolled out,        *)
(* however its spec changed and its passes failed.                         *)
DependenciesInv ==
    /\ TypeOK
    /\ NothingLeft
    /\ DeployedAfter

(* In the end an application that stays connects to all it asks for, and   *)
(* one that is deleted goes.                                               *)
InTheEnd ==
    /\ ConnectsInTheEnd
    /\ LetsGo
=============================================================================
